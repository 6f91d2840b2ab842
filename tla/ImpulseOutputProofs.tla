------------------------- MODULE ImpulseOutputProofs -------------------------
(***************************************************************************)
(* RaisedMeansEnds and DeferredAreServed are invariants of ImpulseOutput,  *)
(* for all modes, block times and bounds.                                  *)
(*                                                                         *)
(* Neither is inductive: both need that the end of an impulse whose start  *)
(* is still being written is on its way already (StartHasItsEnd), and that *)
(* the promise of the end is set only while the end is being written.      *)
(***************************************************************************)
EXTENDS ImpulseOutput, TLAPS

\* The timer of an impulse is set, or waits for the start to be written,
\* as long as the start is being written, unless that cycle was cut early.
StartHasItsEnd == starting # NotWriting => (impulseTimeout \/ awaiting > 0 \/ cut = "early")

\* isImpulseInProgress() is told of the end by a write of it.
EndIsWritten == writingEnd => endWrites > 0

\* Calls are deferred only by the mode "defer", and with the flag.
DeferredTogether == deferred # {} => mode = "defer" /\ deferredImpulse

\* The end of a raised pin is on its way.
RaisedHasItsEnd == pin => (EndIsComing \/ cut # "no")

IInv ==
    /\ TypeOK
    /\ StartHasItsEnd
    /\ EndIsWritten
    /\ DeferredTogether
    /\ RaisedHasItsEnd
    /\ DeferredAreServed

\* The part of TypeOK that a step which assigns FALSE needs Zenon for.
Flags ==
    /\ pin \in BOOLEAN /\ impulseTimeout \in BOOLEAN /\ writingEnd \in BOOLEAN
    /\ deferredImpulse \in BOOLEAN

-----------------------------------------------------------------------------
\* A set of calls is not the mark of no write.
LEMMA CallsAreNotTheMark ==
  ASSUME NEW cs, cs \subseteq Calls
  PROVE  cs # NotWriting
BY BoundsAssumption DEF Calls, NotWriting

\* Settle() changes what became of calls and no more.
LEMMA SettleType ==
  ASSUME calls \in [Calls -> Outcomes], NEW cs, NEW how \in Outcomes
  PROVE  Settle(cs, how) \in [Calls -> Outcomes]
BY DEF Settle

\* What a new impulse that is told to cs establishes.
LEMMA StartImpulseKeeps ==
  ASSUME TypeOK, NEW cs, cs \subseteq Calls, StartImpulse(cs)
  PROVE  /\ impulseTimeout' = TRUE
         /\ starting' \in (SUBSET Calls) \cup {NotWriting}
         /\ calls' \in [Calls -> Outcomes]
         /\ cut' = "no"
<1>1. "waits" \in Outcomes
  BY DEF Outcomes
<1>2. calls' \in [Calls -> Outcomes]
  BY <1>1, SettleType DEF StartImpulse, TypeOK
<1> QED
  BY <1>2 DEF StartImpulse

\* Whether startDeferred() starts a deferred impulse or not, the parts of
\* the invariant it can disturb hold afterwards.
LEMMA StartDeferredKeeps ==
  ASSUME IInv, NEW inProgress \in BOOLEAN, StartDeferred(inProgress),
         inProgress => (impulseTimeout \/ starting # NotWriting \/ endWrites' > 0),
         UNCHANGED <<props, awaiting>>
  PROVE  /\ impulseTimeout' \in BOOLEAN /\ deferredImpulse' \in BOOLEAN
         /\ cut' \in {"no", "yes", "early"}
         /\ starting' \in (SUBSET Calls) \cup {NotWriting}
         /\ deferred' \subseteq Calls
         /\ calls' \in [Calls -> Outcomes]
         /\ StartHasItsEnd'
         /\ DeferredTogether'
         /\ deferred' # {} => (impulseTimeout' \/ awaiting' > 0 \/ endWrites' > 0 \/ cut' = "early")
         /\ impulseTimeout => impulseTimeout'
         /\ cut' = cut \/ impulseTimeout'
<1>1. CASE mode = "defer" /\ deferredImpulse /\ ~inProgress
  <2>1. StartImpulse(deferred) /\ deferredImpulse' = FALSE /\ deferred' = {}
    BY <1>1 DEF StartDeferred
  <2>2. /\ impulseTimeout' = TRUE
        /\ starting' \in (SUBSET Calls) \cup {NotWriting}
        /\ calls' \in [Calls -> Outcomes]
        /\ cut' = "no"
    BY <2>1, StartImpulseKeeps DEF IInv, TypeOK
  <2> QED
    BY <2>1, <2>2 DEF StartHasItsEnd, DeferredTogether
<1>2. CASE ~(mode = "defer" /\ deferredImpulse /\ ~inProgress)
  <2>1. UNCHANGED <<impulseTimeout, starting, calls, deferredImpulse, deferred, cut>>
    BY <1>2 DEF StartDeferred
  <2>2. deferred # {} => inProgress
    BY <1>2 DEF IInv, DeferredTogether
  <2> QED
    BY <2>1, <2>2 DEF IInv, TypeOK, StartHasItsEnd, DeferredTogether, props
<1> QED
  BY <1>1, <1>2

\* The first states have nothing under way.
LEMMA InitIInv == Init => IInv
<1> SUFFICES ASSUME Init
             PROVE  IInv
  OBVIOUS
<1>1. calls \in [Calls -> Outcomes]
  BY DEF Init, Outcomes
<1>2. Flags
  BY Zenon DEF Init, Flags
<1>3. TypeOK
  BY <1>1, <1>2, BoundsAssumption DEF Init, TypeOK, Flags
<1> QED
  BY <1>3 DEF Init, IInv, StartHasItsEnd, EndIsWritten, DeferredTogether, RaisedHasItsEnd,
     DeferredAreServed

-----------------------------------------------------------------------------
\* Every step keeps the types.
LEMMA NextTypeOK ==
  ASSUME IInv, [Next]_vars
  PROVE  TypeOK'
<1> USE BoundsAssumption
<1> USE DEF TypeOK
<1>1. TypeOK
  BY DEF IInv
<1>2. made < MaxCalls => made + 1 \in Calls /\ made + 1 \in 0 .. MaxCalls
  BY <1>1 DEF Calls
<1>3. CASE Impulse
  <2>1. {made + 1} \subseteq Calls
    BY <1>2, <1>3 DEF Impulse
  <2>2. /\ impulseTimeout' = TRUE
        /\ starting' \in (SUBSET Calls) \cup {NotWriting}
        /\ calls' \in [Calls -> Outcomes]
        /\ cut' = "no"
    BY <1>1, <1>3, <2>1, StartImpulseKeeps DEF Impulse
  <2> QED
    BY <1>1, <1>2, <1>3, <2>2 DEF Impulse, props
<1>4. CASE Defer
  <2>1. calls' \in [Calls -> Outcomes]
    BY <1>1, <1>4, SettleType DEF Defer, Outcomes
  <2> QED
    BY <1>1, <1>2, <1>4, <2>1 DEF Defer, props
<1>5. CASE Increase
  <2>1. calls' \in [Calls -> Outcomes]
    BY <1>1, <1>5, SettleType DEF Increase, Outcomes
  <2> QED
    BY <1>1, <1>2, <1>5, <2>1 DEF Increase, props
<1>6. CASE Refuse
  <2>1. calls' \in [Calls -> Outcomes]
    BY <1>1, <1>6, SettleType DEF Refuse, Outcomes
  <2> QED
    BY <1>1, <1>2, <1>6, <2>1 DEF Refuse, props
<1>7. CASE Cancel
  <2>1. calls' \in [Calls -> Outcomes]
    BY <1>1, <1>7, SettleType DEF Cancel, Outcomes
  <2>2. Flags'
    BY <1>1, <1>7, Zenon DEF Cancel, Flags
  <2> QED
    BY <1>1, <1>7, <2>1, <2>2 DEF Cancel, CutShort, Flags, props
<1>8. CASE StartWritten
  <2>1. calls' \in [Calls -> Outcomes]
    BY <1>1, <1>8, SettleType DEF StartWritten, Outcomes
  <2> QED
    BY <1>1, <1>8, <2>1 DEF StartWritten, props, counters
<1>9. CASE StartFails
  <2>1. calls' \in [Calls -> Outcomes]
    BY <1>1, <1>9, SettleType DEF StartFails, Abandon, Outcomes
  <2>2. Flags'
    BY <1>1, <1>9, Zenon DEF StartFails, Abandon, Flags
  <2> QED
    BY <1>1, <1>9, <2>1, <2>2 DEF StartFails, Flags, Fails, Abandon, CutShort, BlockAgain, props
<1>10. CASE FinishLater
  <2>1. Flags'
    BY <1>1, <1>10, Zenon DEF FinishLater, Flags
  <2> QED
    BY <1>1, <1>10, <2>1 DEF FinishLater, OneMoreWaiter, Flags, props, counters
<1>11. CASE Finish
  <2>1. Flags'
    BY <1>1, <1>11, Zenon DEF Finish, Flags
  <2> QED
    BY <1>1, <1>11, <2>1 DEF Finish, Flags, props, counters
<1>12. CASE EndWritten
  <2>1. CASE blockTime
    <3>1. Flags'
      BY <1>1, <1>12, <2>1, Zenon DEF EndWritten, Flags
    <3>2. endWrites' \in Nat /\ blocks' \in Nat
      BY <1>1, <1>12, <2>1 DEF EndWritten
    <3>3. UNCHANGED <<props, starting, awaiting, deferred, calls, counters, cut>>
      BY <1>12, <2>1 DEF EndWritten
    <3> QED
      BY <1>1, <3>1, <3>2, <3>3 DEF Flags, props, counters
  <2>2. CASE ~blockTime
    <3>1. StartDeferred(impulseTimeout \/ starting # NotWriting) /\ UNCHANGED blocks
      BY <1>12, <2>2 DEF EndWritten, GoOn
    <3>2. /\ impulseTimeout' \in BOOLEAN /\ deferredImpulse' \in BOOLEAN
          /\ cut' \in {"no", "yes", "early"}
          /\ starting' \in (SUBSET Calls) \cup {NotWriting}
          /\ deferred' \subseteq Calls
          /\ calls' \in [Calls -> Outcomes]
      BY <1>1, <1>12, <3>1, StartDeferredKeeps DEF EndWritten
    <3>3. pin' \in BOOLEAN /\ writingEnd' \in BOOLEAN
      BY <1>12, Zenon DEF EndWritten
    <3> QED
      BY <1>1, <1>12, <3>1, <3>2, <3>3 DEF EndWritten, props, counters
  <2> QED
    BY <2>1, <2>2
<1>13. CASE EndFails
  <2>1. calls' \in [Calls -> Outcomes]
    BY <1>1, <1>13, SettleType DEF EndFails, Abandon, Outcomes
  <2>2. Flags'
    BY <1>1, <1>13, Zenon DEF EndFails, Abandon, Flags
  <2> QED
    BY <1>1, <1>13, <2>1, <2>2 DEF EndFails, Flags, Fails, Abandon, CutShort, BlockAgain, props
<1>14. CASE BlockEnds
  <2>1. IsImpulseInProgress => (impulseTimeout \/ starting # NotWriting \/ endWrites' > 0)
    BY <1>14 DEF BlockEnds, IsImpulseInProgress, IInv, EndIsWritten
  <2>2. IsImpulseInProgress \in BOOLEAN
    BY DEF IsImpulseInProgress
  <2>3. /\ impulseTimeout' \in BOOLEAN /\ deferredImpulse' \in BOOLEAN
          /\ cut' \in {"no", "yes", "early"}
        /\ starting' \in (SUBSET Calls) \cup {NotWriting}
        /\ deferred' \subseteq Calls
        /\ calls' \in [Calls -> Outcomes]
    BY <1>14, <2>1, <2>2, StartDeferredKeeps DEF BlockEnds
  <2> QED
    BY <1>1, <1>14, <2>3 DEF BlockEnds, props, counters
<1>15. CASE UNCHANGED vars
  BY <1>1, <1>15 DEF vars, props, counters
<1> QED
  BY <1>3, <1>4, <1>5, <1>6, <1>7, <1>8, <1>9, <1>10, <1>11, <1>12, <1>13, <1>14, <1>15
  DEF Next

-----------------------------------------------------------------------------
\* The end of an impulse stays on its way while its start is being written.
LEMMA NextStartHasItsEnd ==
  ASSUME IInv, [Next]_vars
  PROVE  StartHasItsEnd'
<1> USE DEF IInv, StartHasItsEnd
<1>1. awaiting \in Nat
  BY DEF TypeOK
<1>2. CASE Impulse
  BY <1>2 DEF Impulse, StartImpulse
<1>3. CASE Defer \/ Increase \/ Refuse \/ Cancel
  <2>1. CASE Cancel
    BY <1>1, <2>1 DEF Cancel, CutShort
  <2> QED
    BY <1>3, <2>1 DEF Defer, Increase, Refuse
<1>4. CASE StartWritten \/ StartFails
  BY <1>4 DEF StartWritten, StartFails
<1>5. CASE FinishLater \/ Finish
  BY <1>1, <1>5 DEF FinishLater, Finish, OneMoreWaiter
<1>6. CASE EndWritten
  <2>1. CASE blockTime
    BY <1>6, <2>1 DEF EndWritten
  <2>2. CASE ~blockTime
    BY <1>6, <2>2, StartDeferredKeeps DEF EndWritten, GoOn
  <2> QED
    BY <2>1, <2>2
<1>7. CASE EndFails
  BY <1>1, <1>7 DEF EndFails, Abandon, CutShort
<1>8. CASE BlockEnds
  <2>1. IsImpulseInProgress => (impulseTimeout \/ starting # NotWriting \/ endWrites' > 0)
    BY <1>8 DEF BlockEnds, IsImpulseInProgress, EndIsWritten
  <2> QED
    BY <1>8, <2>1, StartDeferredKeeps DEF BlockEnds, IsImpulseInProgress
<1>9. CASE UNCHANGED vars
  BY <1>9 DEF vars
<1> QED
  BY <1>2, <1>3, <1>4, <1>5, <1>6, <1>7, <1>8, <1>9 DEF Next

\* writingEndPromise is set with a write and cleared with the first that ends.
LEMMA NextEndIsWritten ==
  ASSUME IInv, [Next]_vars
  PROVE  EndIsWritten'
<1> USE DEF IInv, EndIsWritten
<1>1. awaiting \in Nat /\ endWrites \in Nat
  BY DEF TypeOK
<1>2. CASE Impulse \/ Defer \/ Increase \/ Refuse \/ Cancel
  BY <1>2 DEF Impulse, Defer, Increase, Refuse, Cancel
<1>3. CASE StartWritten
  <2>1. writingEnd' => writingEnd \/ awaiting > 0
    BY <1>3, Zenon DEF StartWritten
  <2>2. endWrites' = endWrites + awaiting
    BY <1>3 DEF StartWritten
  <2> QED
    BY <1>1, <2>1, <2>2
<1>4. CASE StartFails \/ FinishLater
  BY <1>4 DEF StartFails, FinishLater
<1>5. CASE Finish
  BY <1>1, <1>5 DEF Finish
<1>6. CASE EndWritten \/ EndFails
  BY <1>6 DEF EndWritten, EndFails
<1>7. CASE BlockEnds
  BY <1>7 DEF BlockEnds
<1>8. CASE UNCHANGED vars
  BY <1>8 DEF vars
<1> QED
  BY <1>2, <1>3, <1>4, <1>5, <1>6, <1>7, <1>8 DEF Next

\* What is deferred waits for the cycle or the block time that is under way.
LEMMA NextDeferred ==
  ASSUME IInv, [Next]_vars
  PROVE  DeferredTogether' /\ DeferredAreServed'
<1> USE DEF IInv, DeferredTogether, DeferredAreServed, EndIsComing, props
<1>1. awaiting \in Nat /\ endWrites \in Nat /\ blocks \in Nat
  BY DEF TypeOK
<1>2. CASE Impulse
  BY <1>2 DEF Impulse, StartImpulse
<1>3. CASE Defer
  BY <1>3 DEF Defer, IsImpulseInProgress, EndIsWritten, StartHasItsEnd
<1>4. CASE Increase \/ Refuse \/ Cancel
  BY <1>4 DEF Increase, Refuse, Cancel
<1>5. CASE StartWritten
  BY <1>1, <1>5 DEF StartWritten
<1>6. CASE StartFails \/ EndFails
  BY <1>6 DEF StartFails, EndFails, Abandon
<1>7. CASE FinishLater \/ Finish
  BY <1>1, <1>7 DEF FinishLater, Finish, OneMoreWaiter
<1>8. CASE EndWritten
  <2>1. CASE blockTime
    BY <1>1, <1>8, <2>1 DEF EndWritten
  <2>2. CASE ~blockTime
    BY <1>8, <2>2, StartDeferredKeeps DEF EndWritten, GoOn
  <2> QED
    BY <2>1, <2>2
<1>9. CASE BlockEnds
  <2>1. IsImpulseInProgress => (impulseTimeout \/ starting # NotWriting \/ endWrites' > 0)
    BY <1>9 DEF BlockEnds, IsImpulseInProgress, EndIsWritten
  <2> QED
    BY <1>9, <2>1, StartDeferredKeeps DEF BlockEnds, IsImpulseInProgress
<1>10. CASE UNCHANGED vars
  BY <1>10 DEF vars
<1> QED
  BY <1>2, <1>3, <1>4, <1>5, <1>6, <1>7, <1>8, <1>9, <1>10 DEF Next

\* Only the write of the end lowers the pin, and only that of the start,
\* whose end is on its way, raises it.
LEMMA NextRaisedHasItsEnd ==
  ASSUME IInv, [Next]_vars
  PROVE  RaisedHasItsEnd'
<1> USE DEF IInv, RaisedHasItsEnd, EndIsComing
<1>1. awaiting \in Nat /\ endWrites \in Nat /\ pin \in BOOLEAN
  BY DEF TypeOK
<1>2. CASE Impulse
  BY <1>2 DEF Impulse, StartImpulse
<1>3. CASE Defer \/ Increase \/ Refuse \/ Cancel
  BY <1>3 DEF Defer, Increase, Refuse, Cancel, CutShort
<1>4. CASE StartWritten
  BY <1>1, <1>4 DEF StartWritten, StartHasItsEnd
<1>5. CASE StartFails \/ EndFails
  BY <1>5 DEF StartFails, EndFails, Abandon, CutShort
<1>6. CASE FinishLater \/ Finish
  <2>1. awaiting' > 0 \/ endWrites' > 0
    BY <1>1, <1>6 DEF FinishLater, Finish, OneMoreWaiter
  <2> QED
    BY <2>1
<1>7. CASE EndWritten
  BY <1>7 DEF EndWritten
<1>8. CASE BlockEnds
  <2>1. IsImpulseInProgress => (impulseTimeout \/ starting # NotWriting \/ endWrites' > 0)
    BY <1>8 DEF BlockEnds, IsImpulseInProgress, EndIsWritten
  <2>2. (impulseTimeout => impulseTimeout') /\ (cut' = cut \/ impulseTimeout')
    BY <1>8, <2>1, StartDeferredKeeps DEF BlockEnds, IsImpulseInProgress
  <2> QED
    BY <1>8, <2>2 DEF BlockEnds
<1>9. CASE UNCHANGED vars
  BY <1>9 DEF vars
<1> QED
  BY <1>2, <1>3, <1>4, <1>5, <1>6, <1>7, <1>8, <1>9 DEF Next

-----------------------------------------------------------------------------
LEMMA Inductive == IInv /\ [Next]_vars => IInv'
BY NextTypeOK, NextStartHasItsEnd, NextEndIsWritten, NextDeferred, NextRaisedHasItsEnd DEF IInv

LEMMA Invariance == Spec => []IInv
BY InitIInv, Inductive, PTL DEF Spec

\* The variables have their types.
THEOREM TypeCorrect == Spec => []TypeOK
BY Invariance, PTL DEF IInv

\* A raised pin is lowered: its end is on its way however slow the device is,
\* unless cancel() or a failed write has cut the cycle.
THEOREM RaisedEnds == Spec => []RaisedMeansEnds
<1>1. IInv => RaisedMeansEnds
  BY DEF IInv, TypeOK, StartHasItsEnd, RaisedHasItsEnd, RaisedMeansEnds, EndIsComing
<1> QED
  BY Invariance, <1>1, PTL

\* Deferred calls are not forgotten: what starts their impulse is under way,
\* unless the cycle was cut while its start was being written.
THEOREM DeferredServed == Spec => []DeferredAreServed
BY Invariance, PTL DEF IInv
=============================================================================
