-------------------------- MODULE BinaryOutputProofs --------------------------
(***************************************************************************)
(* Safety of BinaryOutput for all properties it may be configured with and *)
(* all bounds: the promise of a pending call is remembered, whoever calls  *)
(* what and when; and for careful users one write is under way at a time,  *)
(* only its own timer ends a block, and the driver knows its pin.          *)
(*                                                                         *)
(* The latter rest on Turns (there is at most one run of doWrite, writing  *)
(* says whether it goes on, and it never meets a block or a poll) and on   *)
(* Levels, which says at each stage of a write, of the setting up and of a *)
(* poll what is known of the level of the pin.  That a promise is resolved *)
(* when its level is written needs, beside them, that whoever waits for a  *)
(* level has asked for it last (Asked).                                    *)
(***************************************************************************)
EXTENDS BinaryOutput, SequenceTheorems, FiniteSetTheorems, TLAPS

CallType == [level : BOOLEAN,
             promise : {"pending", "refused", "resolved", "rejected", "cancelled"}]

(* Before the pin is set up nothing is under way.                          *)
SetUpFirst == setup = "no" => ops = {} /\ reading.stage = "no"

(* At most one run of doWrite, and nothing beside it.                      *)
Turns ==
  /\ \A o1, o2 \in ops : o1 = o2
  /\ writing <=> \E op \in ops : op.stage # "returned"
  /\ reading.stage # "no" => ops = {}
  /\ BlockedUntilItsTimer

(* What is known of the level of the pin.                                  *)
Levels ==
  /\ setup # "done" => reading.stage # "answered" /\ \A op \in ops : op.stage = "io"
  /\ setup = "io" /\ ops = {} => currentIoValue = Io(props.initial)
  /\ \A op \in ops : op.stage = "io" => currentIoValue = Io(op.level)
  /\ \A op \in ops : op.stage \in {"ok", "returned"} => currentIoValue = pin /\ ~astray
  /\ \A op \in ops : op.stage = "error" => astray
  /\ reading.stage = "answered" => reading.value = pin
  /\ setup = "done" /\ ops = {} /\ ~astray => currentIoValue = pin

(* The calls cs wait for this level: the last of them has asked for it.    *)
WaitFor(cs, level, made) ==
  /\ \A c \in cs : c \in DOMAIN made /\ made[c].promise = "pending"
  /\ \E c \in cs : made[c].level = level /\ \A d \in cs : d <= c

(* Each run of doWrite, and the deferred value, has the level that the     *)
(* calls which wait for it want; and the pin gets it.                      *)
Asked ==
  /\ deferredWritePromise = None <=> lastDeferredValue = None
  /\ deferredWritePromise # None => WaitFor(deferredWritePromise, lastDeferredValue, calls)
  /\ \A op \in ops : /\ WaitFor(op.calls, op.level, calls)
                     /\ op.calls \cap Deferrers = {}
                     /\ op.stage \in {"ok", "returned"} => pin = Io(op.level)

(* Those who wait for a deferred level have called.                        *)
DeferrersCalled == Deferrers \subseteq DOMAIN calls

IInv == TypeOK /\ SetUpFirst /\ DeferrersCalled /\ PendingIsRemembered

CarefulInv == TypeOK /\ SetUpFirst /\ Turns /\ Levels /\ Asked

(* The types of the flags: what SMT does not see of an assignment of FALSE.*)
Flags == writing \in BOOLEAN /\ astray \in BOOLEAN /\ pin \in BOOLEAN

-----------------------------------------------------------------------------
LEMMA SettleType ==
  ASSUME calls \in Seq(CallType), NEW cs,
         NEW how \in {"pending", "refused", "resolved", "rejected", "cancelled"}
  PROVE  /\ Settle(cs, how) \in Seq(CallType)
         /\ DOMAIN Settle(cs, how) = DOMAIN calls
         /\ Len(Settle(cs, how)) = Len(calls)
         /\ \A c \in DOMAIN calls :
              /\ Settle(cs, how)[c].promise = IF c \in cs THEN how ELSE calls[c].promise
              /\ Settle(cs, how)[c].level = calls[c].level
<1>1. /\ Len(calls) \in Nat /\ DOMAIN calls = 1..Len(calls)
      /\ \A c \in DOMAIN calls : calls[c] \in CallType
  OBVIOUS
<1>2. ASSUME NEW c \in DOMAIN calls
      PROVE  /\ Settle(cs, how)[c] \in CallType
             /\ Settle(cs, how)[c].promise = IF c \in cs THEN how ELSE calls[c].promise
             /\ Settle(cs, how)[c].level = calls[c].level
  <2>1. calls[c] \in CallType
    BY <1>1
  <2>2. Settle(cs, how)[c] = IF c \in cs THEN [calls[c] EXCEPT !.promise = how] ELSE calls[c]
    BY DEF Settle
  <2> QED
    BY <2>1, <2>2 DEF CallType
<1>3. Settle(cs, how) \in [1..Len(calls) -> CallType]
  BY <1>1, <1>2 DEF Settle
<1>4. Settle(cs, how) \in Seq(CallType) /\ Len(Settle(cs, how)) = Len(calls)
  BY <1>1, <1>3
<1> QED
  BY <1>1, <1>2, <1>3, <1>4

LEMMA NewCall ==
  ASSUME TypeOK, Len(calls) < MaxCalls, NEW level \in BOOLEAN, NEW how \in {"pending", "refused"},
         calls' = Append(calls, [level |-> level, promise |-> how])
  PROVE  /\ calls' \in Seq(CallType) /\ Len(calls') <= MaxCalls
         /\ Len(calls) + 1 \in Call
         /\ DOMAIN calls' = DOMAIN calls \cup {Len(calls) + 1}
         /\ \A c \in DOMAIN calls : calls'[c] = calls[c]
         /\ calls'[Len(calls) + 1].promise = how
         /\ calls'[Len(calls) + 1].level = level
<1>1. calls \in Seq(CallType) /\ Len(calls) \in Nat
  BY DEF TypeOK, CallType
<1>2. [level |-> level, promise |-> how] \in CallType
  BY DEF CallType
<1>3. calls' \in Seq(CallType) /\ Len(calls') = Len(calls) + 1
  BY <1>1, <1>2
<1> QED
  BY <1>1, <1>2, <1>3, BoundsAssumption DEF Call

LEMMA IoType ==
  ASSUME TypeOK, NEW level \in BOOLEAN
  PROVE  Io(level) \in BOOLEAN
BY DEF Io

LEMMA DeferrersType ==
  ASSUME TypeOK
  PROVE  Deferrers \in SUBSET Call
BY DEF Deferrers, TypeOK

-----------------------------------------------------------------------------
(* Types.                                                                  *)
Stages == {"io", "ok", "error", "returned"}
Op == [level : BOOLEAN, calls : SUBSET Call, stage : Stages]

LEMMA OpType ==
  /\ \A level \in BOOLEAN : \A cs \in SUBSET Call : \A stage \in Stages :
       [level |-> level, calls |-> cs, stage |-> stage] \in Op
  /\ \A op \in Op : \A stage \in Stages :
       /\ [op EXCEPT !.stage = stage] \in Op
       /\ [op EXCEPT !.stage = stage].stage = stage
       /\ [op EXCEPT !.stage = stage].level = op.level
       /\ [op EXCEPT !.stage = stage].calls = op.calls
BY DEF Op

LEMMA StartBlockingType ==
  ASSUME TypeOK, NEW timer \in Nat \cup {None}, NEW kept, kept \subseteq armed,
         StartBlocking(timer, kept)
  PROVE  /\ blockTimeout' \in Nat \cup {None}
         /\ armed' \subseteq 1..timers' /\ timers' \in Nat
<1>1. timers \in Nat /\ armed \subseteq 1..timers
  BY DEF TypeOK
<1>2. CASE props.blockTime
  <2>1. timers' = timers + 1 /\ blockTimeout' = timers' /\ armed' = kept \cup {timers'}
    BY <1>2 DEF StartBlocking
  <2>2. timers' \in Nat /\ timers' \in 1..timers' /\ 1..timers \subseteq 1..timers'
    BY <1>1, <2>1
  <2> QED
    BY <1>1, <2>1, <2>2
<1>3. CASE ~props.blockTime
  BY <1>1, <1>3 DEF StartBlocking
<1> QED
  BY <1>2, <1>3

LEMMA DoWriteType ==
  ASSUME TypeOK, NEW level \in BOOLEAN, NEW cs \in SUBSET Call, NEW others, others \subseteq ops,
         DoWrite(level, cs, others)
  PROVE  /\ currentIoValue' \in BOOLEAN
         /\ writing' = TRUE
         /\ ops' \subseteq Op
<1>1. [level |-> level, calls |-> cs, stage |-> "io"] \in Op
  BY OpType DEF Stages
<1>2. ops \subseteq Op
  BY DEF TypeOK, Op, Stages
<1> QED
  BY <1>1, <1>2, IoType DEF DoWrite

Fields ==
  /\ props \in Props /\ setup \in {"no", "io", "done"}
  /\ lastDeferredValue \in BOOLEAN \cup {None}
  /\ deferredWritePromise \in (SUBSET Call) \cup {None}
  /\ blockTimeout \in Nat \cup {None}
  /\ armed \subseteq 1..timers /\ timers \in Nat
  /\ cancels \in 0..MaxCancels /\ polls \in 0..MaxPolls

Level == currentIoValue \in IF setup = "no" THEN {None} ELSE BOOLEAN
Read == reading \in [stage : {"no", "io", "answered"}, value : BOOLEAN]
Calls == calls \in Seq(CallType) /\ Len(calls) <= MaxCalls

LEMMA Parts == TypeOK <=> Fields /\ Level /\ Flags /\ ops \subseteq Op /\ Read /\ Calls
BY DEF TypeOK, Fields, Level, Flags, Op, Stages, Read, Calls, CallType

LEMMA NextType ==
  ASSUME TypeOK, SetUpFirst, [Next]_vars
  PROVE  TypeOK' /\ SetUpFirst'
<1> USE DEF SetUpFirst, deferred, block, counters
<1>1. Fields /\ Level /\ Flags /\ ops \subseteq Op /\ Read /\ Calls
  BY Parts
<1>2. SUFFICES Fields' /\ Level' /\ Flags' /\ (ops \subseteq Op)' /\ Read' /\ Calls' /\ SetUpFirst'
  BY DEF TypeOK, Fields, Level, Flags, Op, Stages, Read, Calls, CallType
<1>3. CASE HandleGpioInit
  <2>1. Level' /\ SetUpFirst'
    BY <1>1, <1>3, IoType, PropsAssumption DEF HandleGpioInit, Fields, Level, Io
  <2> QED
    BY <1>1, <1>3, <2>1 DEF HandleGpioInit, Fields, Flags, Read, Calls
<1>4. ASSUME NEW level \in BOOLEAN, Write(level)
      PROVE  Fields' /\ Level' /\ Flags' /\ (ops \subseteq Op)' /\ Read' /\ Calls' /\ SetUpFirst'
  <2>1. setup # "no" /\ UNCHANGED <<props, setup, block, reading, pin, astray, counters>>
    BY <1>4 DEF Write, MayCall
  <2>2. Calls' /\ Len(calls) + 1 \in Call
    BY <1>4, NewCall DEF Write, Calls
  <2>3. Deferrers \in SUBSET Call
    BY DeferrersType
  <2>4. CASE IsInProgress
    <3>1. lastDeferredValue' \in BOOLEAN \cup {None} /\ deferredWritePromise' \in (SUBSET Call) \cup {None}
      BY <1>1, <1>4, <2>2, <2>3, <2>4 DEF Write, SetDeferredValue, Fields
    <3>2. UNCHANGED <<currentIoValue, writing, ops>>
      BY <1>4, <2>4 DEF Write
    <3> QED
      BY <1>1, <2>1, <2>2, <3>1, <3>2 DEF Fields, Level, Flags, Read
  <2>5. CASE ~IsInProgress
    <3>1. DoWrite(level, {Len(calls) + 1}, ops) /\ UNCHANGED deferred
      BY <1>4, <2>5 DEF Write
    <3>2. currentIoValue' \in BOOLEAN /\ writing' = TRUE /\ ops' \subseteq Op
      BY <2>2, <3>1, DoWriteType
    <3> QED
      BY <1>1, <2>1, <2>2, <3>1, <3>2 DEF Fields, Level, Flags, Read
  <2> QED
    BY <2>4, <2>5
<1>5. CASE Cancel
  <2>1. Calls'
    BY <1>1, <1>5, SettleType DEF Cancel, Calls
  <2>2. Flags'
    BY <1>1, <1>5, Zenon DEF Cancel, Flags
  <2>3. Fields'
    BY <1>1, <1>5, BoundsAssumption DEF Cancel, Fields
  <2> QED
    BY <1>1, <1>5, <2>1, <2>2, <2>3 DEF Cancel, Level, Read
<1>6. CASE Poll
  <2>1. Read'
    BY <1>1, <1>6 DEF Poll, Read
  <2>2. Fields' /\ setup # "no"
    BY <1>1, <1>6, BoundsAssumption DEF Poll, Fields, MayCall
  <2> QED
    BY <1>1, <1>6, <2>1, <2>2 DEF Poll, Level, Flags, Calls
<1>7. ASSUME NEW ok \in BOOLEAN, PinSetUp(ok)
      PROVE  Fields' /\ Level' /\ Flags' /\ (ops \subseteq Op)' /\ Read' /\ Calls' /\ SetUpFirst'
  <2>1. Io(props.initial) \in BOOLEAN
    BY <1>1, PropsAssumption, IoType DEF Fields
  <2>2. pin' \in BOOLEAN /\ astray' \in BOOLEAN
    BY <1>1, <1>7, <2>1, Zenon DEF PinSetUp, Flags
  <2> QED
    BY <1>1, <1>7, <2>2 DEF PinSetUp, Fields, Level, Flags, Read, Calls
<1>8. ASSUME NEW op \in ops, GpioWrites(op) \/ GpioFails(op) \/ WriteReturns(op)
      PROVE  Fields' /\ Level' /\ Flags' /\ (ops \subseteq Op)' /\ Read' /\ Calls' /\ SetUpFirst'
  <2>1. op \in Op /\ op.level \in BOOLEAN
    BY <1>1 DEF Op
  <2>2. (ops \subseteq Op)'
    <3>1. \E stage \in Stages : ops' = (ops \ {op}) \cup {[op EXCEPT !.stage = stage]}
      BY <1>8 DEF GpioWrites, GpioFails, WriteReturns, Stages
    <3>2. \A stage \in Stages : [op EXCEPT !.stage = stage] \in Op
      BY <2>1, OpType
    <3> QED
      BY <1>1, <3>1, <3>2
  <2>3. Io(op.level) \in BOOLEAN
    BY <2>1, IoType
  <2>4. Flags'
    BY <1>1, <1>8, <2>3, Zenon DEF GpioWrites, GpioFails, WriteReturns, Flags
  <2>5. UNCHANGED <<props, setup, currentIoValue, deferred, block, reading, calls, counters>>
    BY <1>8 DEF GpioWrites, GpioFails, WriteReturns
  <2> QED
    BY <1>1, <2>2, <2>4, <2>5 DEF Fields, Level, Read, Calls
<1>9. ASSUME NEW op \in ops, WriteThrows(op)
      PROVE  Fields' /\ Level' /\ Flags' /\ (ops \subseteq Op)' /\ Read' /\ Calls' /\ SetUpFirst'
  <2>1. Calls'
    BY <1>1, <1>9, SettleType DEF WriteThrows, Calls
  <2>2. /\ blockTimeout' \in Nat \cup {None}
        /\ armed' \subseteq 1..timers' /\ timers' \in Nat
    BY <1>9, StartBlockingType DEF WriteThrows
  <2>3. Flags'
    BY <1>1, <1>9, Zenon DEF WriteThrows, Flags
  <2>4. /\ UNCHANGED <<props, setup, currentIoValue, reading, counters>> /\ ops' \subseteq ops
        /\ lastDeferredValue' = None /\ deferredWritePromise' = None
    BY <1>9 DEF WriteThrows
  <2> QED
    BY <1>1, <2>1, <2>2, <2>3, <2>4 DEF Fields, Level, Read
<1>10. ASSUME NEW op \in ops, HandleSuccessWriting(op)
       PROVE  Fields' /\ Level' /\ Flags' /\ (ops \subseteq Op)' /\ Read' /\ Calls' /\ SetUpFirst'
  <2>1. Calls'
    BY <1>1, <1>10, SettleType DEF HandleSuccessWriting, Calls
  <2>2. UNCHANGED <<props, setup, reading, pin, astray, counters>> /\ setup # "no"
    BY <1>10 DEF HandleSuccessWriting
  <2>3. CASE DeferredDiffers
    <3>1. /\ lastDeferredValue' = None
          /\ deferredWritePromise' = None
          /\ DoWrite(lastDeferredValue, Deferrers, ops \ {op})
          /\ UNCHANGED block
      BY <1>10, <2>3 DEF HandleSuccessWriting
    <3>2. lastDeferredValue \in BOOLEAN
      BY <1>1, <2>3 DEF DeferredDiffers, Fields
    <3>3. currentIoValue' \in BOOLEAN /\ writing' = TRUE /\ ops' \subseteq Op
      BY <3>1, <3>2, DeferrersType, DoWriteType
    <3> QED
      BY <1>1, <2>1, <2>2, <3>1, <3>3 DEF Fields, Level, Flags, Read
  <2>4. CASE ~DeferredDiffers
    <3>1. /\ ops' = ops \ {op}
          /\ StartBlocking(blockTimeout, armed)
          /\ UNCHANGED <<currentIoValue, writing, deferred>>
      BY <1>10, <2>4 DEF HandleSuccessWriting
    <3>2. /\ blockTimeout' \in Nat \cup {None}
          /\ armed' \subseteq 1..timers' /\ timers' \in Nat
      BY <1>1, <3>1, StartBlockingType DEF Fields
    <3> QED
      BY <1>1, <2>1, <2>2, <3>1, <3>2 DEF Fields, Level, Flags, Read
  <2> QED
    BY <2>3, <2>4
<1>11. CASE PollReturns
  <2>1. setup # "no" /\ reading.value \in BOOLEAN
    BY <1>1, <1>11 DEF PollReturns, Read
  <2>2. astray' \in BOOLEAN
    BY <1>1, <1>11, Zenon DEF PollReturns, Flags
  <2>3. Read'
    <3>1. reading' = [stage |-> "no", value |-> FALSE]
      BY <1>11 DEF PollReturns
    <3> QED
      BY <3>1, Zenon DEF Read
  <2> QED
    BY <1>1, <1>11, <2>1, <2>2, <2>3 DEF PollReturns, Fields, Level, Flags, Calls
<1>12. CASE GpioReads \/ GpioReadFails
  <2>1. Read'
    BY <1>1, <1>12 DEF GpioReads, GpioReadFails, Read, Flags
  <2> QED
    BY <1>1, <1>12, <2>1 DEF GpioReads, GpioReadFails, Fields, Level, Flags, Calls
<1>13. ASSUME NEW timer \in armed, BlockTimeIsOver(timer)
       PROVE  Fields' /\ Level' /\ Flags' /\ (ops \subseteq Op)' /\ Read' /\ Calls' /\ SetUpFirst'
  BY <1>1, <1>13 DEF BlockTimeIsOver, Fields, Level, Flags, Read, Calls
<1>14. CASE UNCHANGED vars
  BY <1>1, <1>14 DEF vars, Fields, Level, Flags, Read, Calls
<1> QED
  BY <1>3, <1>4, <1>5, <1>6, <1>7, <1>8, <1>9, <1>10, <1>11, <1>12, <1>13, <1>14
  DEF Next, GpioAnswers, Reaction

-----------------------------------------------------------------------------
(* Pending calls.                                                          *)

(* A call that pends is remembered where it was, or where it has moved to. *)
Remembered(c) == c \in Deferrers \cup UNION {op.calls : op \in ops}

AllRemembered == \A c \in DOMAIN calls : calls[c].promise = "pending" => Remembered(c)

LEMMA NextRemembered ==
  ASSUME TypeOK, AllRemembered, [Next]_vars
  PROVE  AllRemembered'
<1> USE DEF deferred, block, counters
<1>1. calls \in Seq(CallType) /\ ops \subseteq Op
  BY DEF TypeOK, CallType, Op, Stages
<1>2. \A c \in DOMAIN calls : calls[c].promise = "pending" => Remembered(c)
  BY DEF AllRemembered
<1>3. SUFFICES ASSUME NEW c \in DOMAIN calls', calls'[c].promise = "pending"
               PROVE  Remembered(c)'
  BY DEF AllRemembered
<1>4. ASSUME NEW level \in BOOLEAN, Write(level)
      PROVE  Remembered(c)'
  <2>1. \E how \in {"pending", "refused"} :
           /\ calls' = Append(calls, [level |-> level, promise |-> how])
           /\ how = "refused" <=> IsInProgress /\ props.blockMode = "refuse"
    BY <1>4 DEF Write
  <2>2. c \in DOMAIN calls \cup {Len(calls) + 1} /\ \A d \in DOMAIN calls : calls'[d] = calls[d]
    BY <1>4, <2>1, NewCall DEF Write
  <2>3. c = Len(calls) + 1 => ~(IsInProgress /\ props.blockMode = "refuse")
    BY <1>3, <1>4, <2>1, NewCall DEF Write
  <2>4. CASE IsInProgress
    <3>1. UNCHANGED ops /\ Deferrers \subseteq Deferrers'
      <4>1. Len(calls) + 1 \in Call
        BY <1>4, NewCall DEF Write
      <4>2. Deferrers \cup {Len(calls) + 1} # None
        BY <4>1, NoneAssumption, DeferrersType DEF Call
      <4> QED
        BY <1>4, <2>4, <4>2 DEF Write, SetDeferredValue, Deferrers
    <3>2. CASE c = Len(calls) + 1
      BY <1>4, <2>3, <2>4, <3>2, NoneAssumption, DeferrersType, NewCall
      DEF Write, SetDeferredValue, Deferrers, Remembered, Call
    <3>3. CASE c \in DOMAIN calls
      BY <1>2, <1>3, <2>2, <3>1, <3>3 DEF Remembered
    <3> QED
      BY <2>2, <3>2, <3>3
  <2>5. CASE ~IsInProgress
    <3>1. UNCHANGED deferred /\ ops \subseteq ops'
          /\ [level |-> level, calls |-> {Len(calls) + 1}, stage |-> "io"] \in ops'
      BY <1>4, <2>5 DEF Write, DoWrite
    <3> QED
      BY <1>2, <1>3, <2>2, <3>1 DEF Remembered, Deferrers
  <2> QED
    BY <2>4, <2>5
<1>5. CASE Cancel
  <2>1. calls' = Settle(Deferrers, "cancelled") /\ UNCHANGED ops
    BY <1>5 DEF Cancel
  <2>2. c \in DOMAIN calls /\ c \notin Deferrers /\ calls[c].promise = "pending"
    BY <1>1, <1>3, <2>1, SettleType
  <2> QED
    BY <1>2, <2>1, <2>2 DEF Remembered
<1>6. ASSUME NEW op \in ops, GpioWrites(op) \/ GpioFails(op) \/ WriteReturns(op)
      PROVE  Remembered(c)'
  <2>1. UNCHANGED <<calls, deferred>>
    BY <1>6 DEF GpioWrites, GpioFails, WriteReturns
  <2>2. \E stage \in Stages : ops' = (ops \ {op}) \cup {[op EXCEPT !.stage = stage]}
    BY <1>6 DEF GpioWrites, GpioFails, WriteReturns, Stages
  <2>3. \A o \in ops : \E n \in ops' : n.calls = o.calls
    BY <1>1, <2>2, OpType
  <2> QED
    BY <1>2, <1>3, <2>1, <2>3 DEF Remembered, Deferrers
<1>7. ASSUME NEW op \in ops, WriteThrows(op)
      PROVE  Remembered(c)'
  <2>1. calls' = Settle(op.calls \cup Deferrers, "rejected") /\ ops' = ops \ {op}
    BY <1>7 DEF WriteThrows
  <2>2. c \in DOMAIN calls /\ c \notin op.calls \cup Deferrers /\ calls[c].promise = "pending"
    BY <1>1, <1>3, <2>1, SettleType
  <2> QED
    BY <1>2, <2>1, <2>2 DEF Remembered
<1>8. ASSUME NEW op \in ops, HandleSuccessWriting(op)
      PROVE  Remembered(c)'
  <2>1. calls' = Settle(op.calls, "resolved")
    BY <1>8 DEF HandleSuccessWriting
  <2>2. c \in DOMAIN calls /\ c \notin op.calls /\ calls[c].promise = "pending"
    BY <1>1, <1>3, <2>1, SettleType
  <2>3. ops \ {op} \subseteq ops'
    BY <1>8 DEF HandleSuccessWriting, DoWrite
  <2>4. c \in Deferrers => c \in Deferrers' \/ \E n \in ops' : n.calls = Deferrers
    <3>1. CASE DeferredDiffers
      <4>1. [level |-> lastDeferredValue, calls |-> Deferrers, stage |-> "io"] \in ops'
        BY <1>8, <3>1 DEF HandleSuccessWriting, DoWrite
      <4> QED
        BY <4>1
    <3>2. CASE ~DeferredDiffers
      BY <1>8, <3>2 DEF HandleSuccessWriting, Deferrers
    <3> QED
      BY <3>1, <3>2
  <2> QED
    BY <1>2, <2>2, <2>3, <2>4 DEF Remembered
<1>9. CASE UNCHANGED <<calls, deferred, ops>>
  BY <1>2, <1>3, <1>9 DEF Remembered, Deferrers
<1>10. (HandleGpioInit \/ Poll \/ (\E ok \in BOOLEAN : PinSetUp(ok)) \/ PollReturns \/ GpioReads
          \/ GpioReadFails \/ (\E timer \in armed : BlockTimeIsOver(timer)) \/ UNCHANGED vars)
         => UNCHANGED <<calls, deferred, ops>>
  BY DEF HandleGpioInit, Poll, PinSetUp, PollReturns, GpioReads, GpioReadFails, BlockTimeIsOver, vars
<1> QED
  BY <1>4, <1>5, <1>6, <1>7, <1>8, <1>9, <1>10 DEF Next, GpioAnswers, Reaction

(* The deferred level is that of the last of those who wait for it.        *)
LastDeferred ==
  \A c \in Deferrers :
    (\A d \in Deferrers : d <= c) => lastDeferredValue = calls[c].level

LEMMA NextDeferred ==
  ASSUME TypeOK, DeferrersCalled, LastDeferred, [Next]_vars
  PROVE  DeferrersCalled' /\ LastDeferred'
<1> USE DEF deferred, block, counters
<1>1. calls \in Seq(CallType) /\ DOMAIN calls = 1..Len(calls) /\ Len(calls) \in Nat
  BY DEF TypeOK, CallType
<1>2. CASE UNCHANGED <<calls, deferred>>
  BY <1>2 DEF DeferrersCalled, LastDeferred, Deferrers
<1>3. ASSUME NEW level \in BOOLEAN, Write(level)
      PROVE  DeferrersCalled' /\ LastDeferred'
  <2>1. \E how \in {"pending", "refused"} :
           calls' = Append(calls, [level |-> level, promise |-> how])
    BY <1>3 DEF Write
  <2>2. /\ DOMAIN calls' = DOMAIN calls \cup {Len(calls) + 1}
        /\ \A d \in DOMAIN calls : calls'[d] = calls[d]
        /\ calls'[Len(calls) + 1].level = level
    BY <1>3, <2>1, NewCall DEF Write
  <2>3. CASE UNCHANGED deferred
    BY <2>2, <2>3 DEF DeferrersCalled, LastDeferred, Deferrers
  <2>4. CASE SetDeferredValue(level)
    <3>1. Deferrers' \subseteq Deferrers \cup {Len(calls) + 1} /\ lastDeferredValue' = level
      BY <2>4 DEF SetDeferredValue, Deferrers
    <3>2. ASSUME NEW c \in Deferrers', \A d \in Deferrers' : d <= c
          PROVE  c = Len(calls) + 1
      <4>1. Len(calls) + 1 \in Deferrers'
        <5>1. Len(calls) + 1 \in Call
          BY <1>3, NewCall DEF Write
        <5>2. Deferrers \cup {Len(calls) + 1} # None
          BY <5>1, NoneAssumption, DeferrersType DEF Call
        <5> QED
          BY <2>4, <5>2 DEF SetDeferredValue, Deferrers
      <4>2. Len(calls) + 1 <= c
        BY <3>2, <4>1
      <4>3. c \in 1..Len(calls) \/ c = Len(calls) + 1
        BY <1>1, <3>1 DEF DeferrersCalled
      <4> QED
        BY <1>1, <4>2, <4>3
    <3> QED
      BY <2>2, <3>1, <3>2 DEF DeferrersCalled, LastDeferred
  <2> QED
    BY <1>3, <2>3, <2>4 DEF Write
<1>4. ASSUME deferredWritePromise' = None
      PROVE  DeferrersCalled' /\ LastDeferred'
  BY <1>4 DEF DeferrersCalled, LastDeferred, Deferrers
<1>5. ASSUME NEW op \in ops, HandleSuccessWriting(op)
      PROVE  DeferrersCalled' /\ LastDeferred'
  <2>1. calls' = Settle(op.calls, "resolved")
    BY <1>5 DEF HandleSuccessWriting
  <2>2. /\ DOMAIN calls' = DOMAIN calls
        /\ \A c \in DOMAIN calls : calls'[c].level = calls[c].level
    BY <1>1, <2>1, SettleType
  <2>3. CASE UNCHANGED deferred
    BY <2>2, <2>3 DEF DeferrersCalled, LastDeferred, Deferrers
  <2> QED
    BY <1>4, <1>5, <2>3 DEF HandleSuccessWriting
<1>6. Cancel \/ (\E op \in ops : WriteThrows(op)) => deferredWritePromise' = None
  BY DEF Cancel, WriteThrows
<1>7. (HandleGpioInit \/ Poll \/ GpioAnswers \/ (\E op \in ops : WriteReturns(op)) \/ PollReturns
         \/ (\E timer \in armed : BlockTimeIsOver(timer)) \/ UNCHANGED vars)
        => UNCHANGED <<calls, deferred>>
  BY DEF HandleGpioInit, Poll, GpioAnswers, PinSetUp, GpioWrites, GpioFails, GpioReads, GpioReadFails,
         WriteReturns, PollReturns, BlockTimeIsOver, vars
<1> QED
  BY <1>2, <1>3, <1>4, <1>5, <1>6, <1>7 DEF Next, Reaction

(* The two together are what is claimed of pending calls.                  *)
LEMMA RememberedParts == PendingIsRemembered <=> AllRemembered /\ LastDeferred
BY DEF PendingIsRemembered, AllRemembered, Remembered, LastDeferred

-----------------------------------------------------------------------------
(* Careful users.                                                          *)

(* Where a careful user may call, nothing but writes given to the device   *)
(* is under way.                                                           *)
LEMMA CarefulCall ==
  ASSUME Careful, Turns, MayCall
  PROVE  ~writing => ops = {}
BY DEF MayCall, NoReactionWaits, Turns

(* A block that starts when none is has its timer alone.                   *)
LEMMA StartBlockingAlone ==
  ASSUME TypeOK, StartBlocking(None, {})
  PROVE  armed' = IF blockTimeout' # None THEN {blockTimeout'} ELSE {}
<1>1. timers + 1 # None
  BY NoneAssumption DEF TypeOK
<1> QED
  BY <1>1 DEF StartBlocking

LEMMA NextTurns ==
  ASSUME Careful, TypeOK, Turns, [Next]_vars
  PROVE  Turns'
<1> USE DEF deferred, block, counters, BlockedUntilItsTimer, IsBlocked
<1>1. /\ \A o1, o2 \in ops : o1 = o2
      /\ writing <=> \E op \in ops : op.stage # "returned"
      /\ reading.stage # "no" => ops = {}
      /\ blockTimeout # None => ops = {}
      /\ armed = IF blockTimeout # None THEN {blockTimeout} ELSE {}
  BY DEF Turns
<1>2. ops \subseteq Op /\ \A op \in ops : ops = {op}
  BY <1>1 DEF TypeOK, Op, Stages
<1>3. CASE HandleGpioInit \/ (\E ok \in BOOLEAN : PinSetUp(ok)) \/ UNCHANGED vars
  BY <1>1, <1>3 DEF HandleGpioInit, PinSetUp, vars, Turns
<1>4. ASSUME NEW level \in BOOLEAN, Write(level)
      PROVE  Turns'
  <2>1. UNCHANGED <<block, reading>> /\ reading.stage = "no"
    BY <1>4 DEF Write
  <2>2. CASE IsInProgress
    BY <1>1, <1>4, <2>1, <2>2 DEF Write, Turns
  <2>3. CASE ~IsInProgress
    <3>1. ops = {}
      BY <1>4, <2>3, CarefulCall DEF IsInProgress, Write
    <3>2. writing' = TRUE /\ ops' = {[level |-> level, calls |-> {Len(calls) + 1}, stage |-> "io"]}
      BY <1>4, <2>3, <3>1 DEF Write, DoWrite
    <3>3. ~IsBlocked
      BY <2>3 DEF IsInProgress
    <3> QED
      BY <1>1, <2>1, <3>2, <3>3 DEF Turns
  <2> QED
    BY <2>2, <2>3
<1>5. CASE Cancel
  <2>1. ops = {} /\ ~writing
    BY <1>5, CarefulCall DEF Cancel
  <2>2. /\ armed' = armed \ {blockTimeout} /\ blockTimeout' = None
        /\ ops' = {} /\ reading' = reading /\ ~writing'
    BY <1>5, <2>1 DEF Cancel
  <2> QED
    BY <1>1, <2>1, <2>2 DEF Turns
<1>6. CASE Poll \/ GpioReads \/ GpioReadFails \/ PollReturns
  BY <1>1, <1>6 DEF Poll, GpioReads, GpioReadFails, PollReturns, Turns
<1>7. ASSUME NEW op \in ops, NEW stage \in {"ok", "error"}, op.stage = "io",
             ops' = (ops \ {op}) \cup {[op EXCEPT !.stage = stage]},
             UNCHANGED <<writing, block, reading>>
      PROVE  Turns'
  <2>1. ops' = {[op EXCEPT !.stage = stage]} /\ writing
    BY <1>1, <1>2, <1>7
  <2>2. [op EXCEPT !.stage = stage].stage = stage
    BY <1>2, OpType DEF Stages
  <2> QED
    BY <1>1, <1>7, <2>1, <2>2 DEF Turns
<1>8. ASSUME NEW op \in ops, GpioWrites(op) \/ GpioFails(op)
      PROVE  Turns'
  BY <1>7, <1>8 DEF GpioWrites, GpioFails
<1>9. ASSUME NEW op \in ops, WriteReturns(op)
      PROVE  Turns'
  <2>1. /\ ops' = {[op EXCEPT !.stage = "returned"]} /\ ~writing'
        /\ UNCHANGED <<block, reading>>
    BY <1>2, <1>9 DEF WriteReturns
  <2>2. [op EXCEPT !.stage = "returned"].stage = "returned"
    BY <1>2, OpType DEF Stages
  <2> QED
    BY <1>1, <2>1, <2>2 DEF Turns
<1>10. ASSUME NEW op \in ops, WriteThrows(op)
       PROVE  Turns'
  <2>1. armed = {} /\ ops = {op}
    BY <1>1, <1>2
  <2>2. ops' = {} /\ ~writing' /\ StartBlocking(None, {}) /\ UNCHANGED reading
    BY <1>10, <2>1 DEF WriteThrows
  <2> QED
    BY <2>2, StartBlockingAlone DEF Turns
<1>11. ASSUME NEW op \in ops, HandleSuccessWriting(op)
       PROVE  Turns'
  <2>1. armed = {} /\ blockTimeout = None /\ ops = {op} /\ reading.stage = "no" /\ ~writing
    BY <1>1, <1>2, <1>11 DEF HandleSuccessWriting
  <2>2. CASE DeferredDiffers
    <3>1. /\ ops' = {[level |-> lastDeferredValue, calls |-> Deferrers, stage |-> "io"]}
          /\ writing' = TRUE /\ UNCHANGED <<block, reading>>
      BY <1>11, <2>1, <2>2 DEF HandleSuccessWriting, DoWrite
    <3> QED
      BY <2>1, <3>1 DEF Turns
  <2>3. CASE ~DeferredDiffers
    <3>1. ops' = {} /\ ~writing' /\ StartBlocking(None, {}) /\ UNCHANGED reading
      BY <1>11, <2>1, <2>3 DEF HandleSuccessWriting
    <3> QED
      BY <3>1, StartBlockingAlone DEF Turns
  <2> QED
    BY <2>2, <2>3
<1>12. ASSUME NEW timer \in armed, BlockTimeIsOver(timer)
       PROVE  Turns'
  <2>1. armed = {blockTimeout} /\ ops = {} /\ timer = blockTimeout
    BY <1>1
  <2> QED
    BY <1>1, <1>12, <2>1 DEF BlockTimeIsOver, Turns
<1> QED
  BY <1>3, <1>4, <1>5, <1>6, <1>8, <1>9, <1>10, <1>11, <1>12 DEF Next, GpioAnswers, Reaction

LEMMA NextLevels ==
  ASSUME Careful, TypeOK, SetUpFirst, Turns, Levels, [Next]_vars
  PROVE  Levels'
<1> USE DEF deferred, block, counters, Io
<1>1. /\ setup # "done" => reading.stage # "answered" /\ \A op \in ops : op.stage = "io"
      /\ setup = "io" /\ ops = {} => currentIoValue = Io(props.initial)
      /\ \A op \in ops : op.stage = "io" => currentIoValue = Io(op.level)
      /\ \A op \in ops : op.stage \in {"ok", "returned"} => currentIoValue = pin /\ ~astray
      /\ \A op \in ops : op.stage = "error" => astray
      /\ reading.stage = "answered" => reading.value = pin
      /\ setup = "done" /\ ops = {} /\ ~astray => currentIoValue = pin
  BY DEF Levels
<1>2. /\ ops \subseteq Op /\ \A op \in ops : ops = {op} /\ op.stage \in Stages
      /\ reading.stage # "no" => ops = {}
      /\ reading.stage \in {"no", "io", "answered"} /\ setup \in {"no", "io", "done"}
  BY DEF TypeOK, Op, Stages, Turns
<1>3. CASE HandleGpioInit
  BY <1>1, <1>3 DEF HandleGpioInit, SetUpFirst, Levels
<1>4. ASSUME NEW level \in BOOLEAN, Write(level)
      PROVE  Levels'
  <2>1. UNCHANGED <<props, setup, reading, pin, astray>> /\ reading.stage = "no" /\ setup # "no"
    BY <1>4 DEF Write, MayCall
  <2>2. CASE IsInProgress
    BY <1>1, <1>4, <2>1, <2>2 DEF Write, Levels
  <2>3. CASE ~IsInProgress
    <3>1. ops = {}
      BY <1>4, <2>3, CarefulCall DEF IsInProgress, Write
    <3>2. /\ currentIoValue' = Io(level)
          /\ ops' = {[level |-> level, calls |-> {Len(calls) + 1}, stage |-> "io"]}
      BY <1>4, <2>3, <3>1 DEF Write, DoWrite
    <3>3. ops' # {} /\ \A op \in ops' : op.stage = "io" /\ op.level = level
      BY <3>2
    <3> QED
      BY <2>1, <3>2, <3>3 DEF Levels
  <2> QED
    BY <2>2, <2>3
<1>5. CASE Cancel
  BY <1>1, <1>5 DEF Cancel, Levels
<1>6. CASE Poll \/ GpioReads \/ GpioReadFails
  <2>1. /\ reading'.stage # "answered" \/ (setup = "done" /\ reading'.value = pin)
        /\ UNCHANGED <<props, setup, currentIoValue, ops, pin, astray>>
    BY <1>6 DEF Poll, GpioReads, GpioReadFails, TypeOK
  <2> QED
    BY <1>1, <2>1 DEF Levels
<1>7. CASE PollReturns
  <2>1. ops = {} /\ setup = "done" /\ reading.value = pin
    BY <1>1, <1>2, <1>7 DEF PollReturns
  <2>2. /\ currentIoValue' = pin /\ reading'.stage = "no" /\ ops' = {}
        /\ UNCHANGED <<setup, pin>>
    BY <1>7, <2>1 DEF PollReturns
  <2> QED
    BY <2>1, <2>2 DEF Levels
<1>8. ASSUME NEW ok \in BOOLEAN, PinSetUp(ok)
      PROVE  Levels'
  <2>1. /\ setup = "io" /\ setup' = "done"
        /\ ok => pin' = Io(props.initial)
        /\ ~ok => astray'
        /\ UNCHANGED <<props, currentIoValue, ops, reading>>
    BY <1>8 DEF PinSetUp
  <2> QED
    BY <1>1, <2>1 DEF Levels
<1>9. ASSUME NEW op \in ops, GpioWrites(op)
      PROVE  Levels'
  <2>1. /\ ops' = {[op EXCEPT !.stage = "ok"]} /\ pin' = Io(op.level) /\ ~astray'
        /\ setup = "done" /\ reading.stage = "no" /\ currentIoValue = Io(op.level)
        /\ UNCHANGED <<props, setup, currentIoValue, reading>>
    BY <1>1, <1>2, <1>9 DEF GpioWrites
  <2>2. [op EXCEPT !.stage = "ok"].stage = "ok"
    BY <1>2, OpType DEF Stages
  <2> QED
    BY <2>1, <2>2 DEF Levels
<1>10. ASSUME NEW op \in ops, GpioFails(op)
       PROVE  Levels'
  <2>1. /\ ops' = {[op EXCEPT !.stage = "error"]} /\ astray'
        /\ setup = "done" /\ reading.stage = "no"
        /\ UNCHANGED <<props, setup, currentIoValue, reading, pin>>
    BY <1>1, <1>2, <1>10 DEF GpioFails
  <2>2. [op EXCEPT !.stage = "error"].stage = "error"
    BY <1>2, OpType DEF Stages
  <2> QED
    BY <2>1, <2>2 DEF Levels
<1>11. ASSUME NEW op \in ops, WriteReturns(op)
       PROVE  Levels'
  <2>1. /\ ops' = {[op EXCEPT !.stage = "returned"]}
        /\ setup = "done" /\ reading.stage = "no" /\ currentIoValue = pin /\ ~astray
        /\ UNCHANGED <<props, setup, currentIoValue, reading, pin, astray>>
    BY <1>1, <1>2, <1>11 DEF WriteReturns
  <2>2. [op EXCEPT !.stage = "returned"].stage = "returned"
    BY <1>2, OpType DEF Stages
  <2> QED
    BY <2>1, <2>2 DEF Levels
<1>12. ASSUME NEW op \in ops, WriteThrows(op)
       PROVE  Levels'
  <2>1. /\ ops' = {} /\ astray /\ setup = "done" /\ reading.stage = "no"
        /\ UNCHANGED <<props, setup, currentIoValue, reading, pin, astray>>
    BY <1>1, <1>2, <1>12 DEF WriteThrows
  <2> QED
    BY <2>1 DEF Levels
<1>13. ASSUME NEW op \in ops, HandleSuccessWriting(op)
       PROVE  Levels'
  <2>1. /\ ops = {op} /\ setup = "done" /\ reading.stage = "no" /\ currentIoValue = pin
        /\ UNCHANGED <<props, setup, reading, pin, astray>>
    BY <1>1, <1>2, <1>13 DEF HandleSuccessWriting
  <2>2. CASE DeferredDiffers
    <3>1. /\ ops' = {[level |-> lastDeferredValue, calls |-> Deferrers, stage |-> "io"]}
          /\ currentIoValue' = Io(lastDeferredValue)
      BY <1>13, <2>1, <2>2 DEF HandleSuccessWriting, DoWrite
    <3>2. ops' # {} /\ \A o \in ops' : o.stage = "io" /\ o.level = lastDeferredValue
      BY <3>1
    <3> QED
      BY <2>1, <3>1, <3>2 DEF Levels
  <2>3. CASE ~DeferredDiffers
    <3>1. ops' = {} /\ UNCHANGED currentIoValue
      BY <1>13, <2>1, <2>3 DEF HandleSuccessWriting
    <3> QED
      BY <2>1, <3>1 DEF Levels
  <2> QED
    BY <2>2, <2>3
<1>14. CASE (\E timer \in armed : BlockTimeIsOver(timer)) \/ UNCHANGED vars
  BY <1>1, <1>14 DEF BlockTimeIsOver, vars, Levels
<1> QED
  BY <1>3, <1>4, <1>5, <1>6, <1>7, <1>8, <1>9, <1>10, <1>11, <1>12, <1>13, <1>14
  DEF Next, GpioAnswers, Reaction

LEMMA NextAsked ==
  ASSUME Careful, TypeOK, SetUpFirst, Turns, Levels, Asked, [Next]_vars
  PROVE  Asked'
<1> USE DEF deferred, block, counters
<1>1. /\ deferredWritePromise = None <=> lastDeferredValue = None
      /\ deferredWritePromise # None => WaitFor(deferredWritePromise, lastDeferredValue, calls)
      /\ \A op \in ops : /\ WaitFor(op.calls, op.level, calls)
                         /\ op.calls \cap Deferrers = {}
                         /\ op.stage \in {"ok", "returned"} => pin = Io(op.level)
  BY DEF Asked
<1>2. /\ ops \subseteq Op /\ \A op \in ops : ops = {op} /\ op.stage \in Stages
      /\ calls \in Seq(CallType) /\ Len(calls) \in Nat /\ DOMAIN calls = 1..Len(calls)
  BY DEF TypeOK, CallType, Op, Stages, Turns
<1>3. \A cs, level : UNCHANGED calls /\ WaitFor(cs, level, calls) => WaitFor(cs, level, calls')
  BY DEF WaitFor
<1>4. CASE UNCHANGED <<props, calls, deferred, ops>> /\ (UNCHANGED pin \/ setup # "done")
  <2>1. \A op \in ops : op.stage \in {"ok", "returned"} => UNCHANGED pin
    BY <1>4 DEF Levels
  <2> QED
    BY <1>1, <1>3, <1>4, <2>1 DEF Asked, Deferrers, Io
<1>5. ASSUME NEW level \in BOOLEAN, Write(level)
      PROVE  Asked'
  <2>1. UNCHANGED <<props, pin>>
    BY <1>5 DEF Write
  <2>2. \E how \in {"pending", "refused"} :
           /\ calls' = Append(calls, [level |-> level, promise |-> how])
           /\ how = "refused" <=> IsInProgress /\ props.blockMode = "refuse"
    BY <1>5 DEF Write
  <2>3. /\ DOMAIN calls' = DOMAIN calls \cup {Len(calls) + 1}
        /\ \A c \in DOMAIN calls : calls'[c] = calls[c]
        /\ calls'[Len(calls) + 1].level = level
        /\ ~(IsInProgress /\ props.blockMode = "refuse") =>
             calls'[Len(calls) + 1].promise = "pending"
    BY <1>5, <2>2, NewCall DEF Write
  <2>4. \A cs, l : WaitFor(cs, l, calls) => WaitFor(cs, l, calls')
    BY <2>3 DEF WaitFor
  <2>5. CASE IsInProgress /\ props.blockMode = "refuse"
    <3>1. UNCHANGED <<deferred, ops>>
      BY <1>5, <2>5 DEF Write
    <3> QED
      BY <1>1, <2>1, <2>4, <3>1 DEF Asked, Deferrers, Io
  <2>6. CASE IsInProgress /\ props.blockMode # "refuse"
    <3>1. SetDeferredValue(level) /\ UNCHANGED ops
      BY <1>5, <2>6 DEF Write
    <3>2. \A c \in Deferrers : c \in DOMAIN calls /\ calls[c].promise = "pending"
      BY <1>1 DEF Deferrers, WaitFor
    <3>3. WaitFor(deferredWritePromise', lastDeferredValue', calls')
      <4>1. deferredWritePromise' = Deferrers \cup {Len(calls) + 1} /\ lastDeferredValue' = level
        BY <3>1 DEF SetDeferredValue
      <4>2. \A d \in Deferrers \cup {Len(calls) + 1} : d <= Len(calls) + 1
        BY <1>2, <3>2
      <4> QED
        BY <2>3, <2>6, <3>2, <4>1, <4>2 DEF WaitFor
    <3>4. deferredWritePromise' # None /\ lastDeferredValue' # None
      BY <1>5, <2>3, <3>1, <3>2, NewCall, NoneAssumption, DeferrersType
      DEF SetDeferredValue, Call, Write
    <3>5. Deferrers' = Deferrers \cup {Len(calls) + 1}
      BY <3>1, <3>4 DEF Deferrers, SetDeferredValue
    <3>6. \A op \in ops : Len(calls) + 1 \notin op.calls
      BY <1>1, <1>2 DEF WaitFor
    <3> QED
      BY <1>1, <2>1, <2>4, <3>1, <3>3, <3>4, <3>5, <3>6 DEF Asked, Io
  <2>7. CASE ~IsInProgress
    <3>1. ops = {} /\ UNCHANGED deferred
      BY <1>5, <2>7, CarefulCall DEF IsInProgress, Write
    <3>2. ops' = {[level |-> level, calls |-> {Len(calls) + 1}, stage |-> "io"]}
      BY <1>5, <2>7, <3>1 DEF Write, DoWrite
    <3>3. WaitFor({Len(calls) + 1}, level, calls')
      <4>1. Len(calls) + 1 <= Len(calls) + 1
        BY <1>2
      <4> QED
        BY <2>3, <2>7, <4>1 DEF WaitFor
    <3>4. Len(calls) + 1 \notin Deferrers /\ Deferrers' = Deferrers
      BY <1>1, <1>2, <3>1 DEF Deferrers, WaitFor
    <3> QED
      BY <1>1, <2>1, <2>4, <3>1, <3>2, <3>3, <3>4 DEF Asked
  <2> QED
    BY <2>5, <2>6, <2>7
<1>6. CASE Cancel
  <2>1. ops' = {} /\ lastDeferredValue' = None /\ deferredWritePromise' = None
    BY <1>6, CarefulCall DEF Cancel
  <2> QED
    BY <2>1 DEF Asked
<1>7. ASSUME NEW op \in ops, GpioWrites(op) \/ GpioFails(op) \/ WriteReturns(op)
      PROVE  Asked'
  <2>1. UNCHANGED <<props, calls, deferred>>
    BY <1>7 DEF GpioWrites, GpioFails, WriteReturns
  <2>2. PICK stage \in {"ok", "error", "returned"} :
          /\ ops' = {[op EXCEPT !.stage = stage]}
          /\ stage \in {"ok", "returned"} => pin' = Io(op.level)
    BY <1>1, <1>2, <1>7 DEF GpioWrites, GpioFails, WriteReturns
  <2>3. /\ [op EXCEPT !.stage = stage].stage = stage
        /\ [op EXCEPT !.stage = stage].level = op.level
        /\ [op EXCEPT !.stage = stage].calls = op.calls
    BY <1>2, <2>2, OpType DEF Stages
  <2> QED
    BY <1>1, <1>3, <2>1, <2>2, <2>3 DEF Asked, Deferrers, Io
<1>8. ASSUME NEW op \in ops, WriteThrows(op)
      PROVE  Asked'
  <2>1. ops' = {} /\ lastDeferredValue' = None /\ deferredWritePromise' = None
    BY <1>2, <1>8 DEF WriteThrows
  <2> QED
    BY <2>1 DEF Asked
<1>9. ASSUME NEW op \in ops, HandleSuccessWriting(op)
      PROVE  Asked'
  <2>1. calls' = Settle(op.calls, "resolved") /\ UNCHANGED <<props, pin>> /\ ops = {op}
    BY <1>2, <1>9 DEF HandleSuccessWriting
  <2>2. /\ DOMAIN calls' = DOMAIN calls
        /\ \A c \in DOMAIN calls \ op.calls : calls'[c].promise = calls[c].promise
        /\ \A c \in DOMAIN calls : calls'[c].level = calls[c].level
    BY <1>2, <2>1, SettleType
  <2>3. deferredWritePromise # None => WaitFor(deferredWritePromise, lastDeferredValue, calls')
    <3>1. deferredWritePromise # None => deferredWritePromise \cap op.calls = {}
      BY <1>1 DEF Deferrers
    <3> QED
      BY <1>1, <2>2, <3>1 DEF WaitFor
  <2>4. CASE DeferredDiffers
    <3>1. /\ deferredWritePromise # None /\ Deferrers = deferredWritePromise
      BY <1>1, <2>4 DEF DeferredDiffers, Deferrers
    <3>2. /\ ops' = {[level |-> lastDeferredValue, calls |-> Deferrers, stage |-> "io"]}
          /\ lastDeferredValue' = None /\ deferredWritePromise' = None
      BY <1>9, <2>1, <2>4 DEF HandleSuccessWriting, DoWrite
    <3> QED
      BY <2>3, <3>1, <3>2 DEF Asked, Deferrers
  <2>5. CASE ~DeferredDiffers
    <3>1. ops' = {} /\ UNCHANGED deferred
      BY <1>9, <2>1, <2>5 DEF HandleSuccessWriting
    <3> QED
      BY <1>1, <2>3, <3>1 DEF Asked
  <2> QED
    BY <2>4, <2>5
<1>10. (HandleGpioInit \/ Poll \/ (\E ok \in BOOLEAN : PinSetUp(ok)) \/ PollReturns \/ GpioReads
          \/ GpioReadFails \/ (\E timer \in armed : BlockTimeIsOver(timer)) \/ UNCHANGED vars)
         => UNCHANGED <<props, calls, deferred, ops>> /\ (UNCHANGED pin \/ setup # "done")
  BY DEF HandleGpioInit, Poll, PinSetUp, PollReturns, GpioReads, GpioReadFails, BlockTimeIsOver, vars
<1> QED
  BY <1>4, <1>5, <1>6, <1>7, <1>8, <1>9, <1>10 DEF Next, GpioAnswers, Reaction

-----------------------------------------------------------------------------
LEMMA InitAll == Init => IInv /\ CarefulInv
<1> SUFFICES ASSUME Init
             PROVE  IInv /\ CarefulInv
  OBVIOUS
<1>1. Flags
  BY Zenon DEF Init, Flags
<1>2. Read
  <2>1. reading = [stage |-> "no", value |-> FALSE]
    BY DEF Init
  <2> QED
    BY <2>1, Zenon DEF Read
<1>3. Calls
  BY BoundsAssumption DEF Init, Calls
<1>4. Fields /\ Level /\ ops \subseteq Op
  BY BoundsAssumption DEF Init, Fields, Level
<1>5. TypeOK
  BY <1>1, <1>2, <1>3, <1>4, Parts
<1>6. Turns
  BY DEF Init, Turns, BlockedUntilItsTimer, IsBlocked
<1> QED
  BY <1>5, <1>6 DEF Init, IInv, CarefulInv, SetUpFirst, Levels, Asked, PendingIsRemembered, DeferrersCalled,
                         Deferrers

LEMMA Invariance == Spec => []IInv
<1>1. IInv /\ [Next]_vars => IInv'
  <2> SUFFICES ASSUME IInv, [Next]_vars
               PROVE  IInv'
    OBVIOUS
  <2>1. TypeOK' /\ SetUpFirst'
    BY NextType DEF IInv
  <2>2. AllRemembered' /\ DeferrersCalled' /\ LastDeferred'
    BY NextRemembered, NextDeferred, RememberedParts DEF IInv
  <2>3. PendingIsRemembered'
    BY <2>2 DEF PendingIsRemembered, AllRemembered, Remembered, LastDeferred
  <2> QED
    BY <2>1, <2>2, <2>3 DEF IInv
<1> QED
  BY InitAll, <1>1, PTL DEF Spec

LEMMA CarefulInvariance ==
  ASSUME Careful
  PROVE  Spec => []CarefulInv
<1>1. CarefulInv /\ [Next]_vars => CarefulInv'
  BY NextType, NextTurns, NextLevels, NextAsked DEF CarefulInv
<1> QED
  BY InitAll, <1>1, PTL DEF Spec

(* The variables have their types.                                         *)
THEOREM TypeCorrect == Spec => []TypeOK
BY Invariance, PTL DEF IInv

(* A pending call is in a run of doWrite or in the deferred promise, and   *)
(* the deferred level is that of its last caller, whoever calls.           *)
THEOREM PendingRemembered == Spec => []PendingIsRemembered
BY Invariance, PTL DEF IInv

(* The device is given one write at a time.                                *)
THEOREM OneWrite ==
  ASSUME Careful
  PROVE  Spec => []OneWriteAtATime
<1>1. CarefulInv => OneWriteAtATime
  <2> SUFFICES ASSUME CarefulInv
               PROVE  OneWriteAtATime
    OBVIOUS
  <2> DEFINE going == {op \in ops : op.stage # "returned"}
  <2>1. going = {} \/ \E op : going = {op}
    BY DEF CarefulInv, Turns
  <2>2. Cardinality(going) \in {0, 1}
    BY <2>1, FS_EmptySet, FS_Singleton
  <2> QED
    BY <2>2 DEF OneWriteAtATime
<1> QED
  BY CarefulInvariance, <1>1, PTL

(* A block ends by its own timer, and meets no write.                      *)
THEOREM BlockedByItsTimer ==
  ASSUME Careful
  PROVE  Spec => []BlockedUntilItsTimer
<1>1. CarefulInv => BlockedUntilItsTimer
  BY DEF CarefulInv, Turns
<1> QED
  BY CarefulInvariance, <1>1, PTL

(* When nothing is under way the driver knows the level of its pin.        *)
THEOREM PinIsKnown ==
  ASSUME Careful
  PROVE  Spec => []KnowsThePin
<1>1. CarefulInv => KnowsThePin
  BY DEF CarefulInv, Levels, KnowsThePin, Quiet
<1> QED
  BY CarefulInvariance, <1>1, PTL

(* A resolved promise tells that the level asked for last among those who  *)
(* are told is on the pin.                                                 *)
THEOREM ResolvedIsWritten ==
  ASSUME Careful
  PROVE  Spec => ResolvedMeansWritten
<1>1. ASSUME CarefulInv, [Next]_vars, Resolved # {}
      PROVE  pin = Io(calls[Latest(Resolved)].level)
  <2> USE DEF deferred, block, counters
  <2>1. calls \in Seq(CallType) /\ DOMAIN calls = 1..Len(calls) /\ Len(calls) \in Nat
    BY <1>1 DEF CarefulInv, TypeOK, CallType
  <2>2. PICK c \in DOMAIN calls : calls[c].promise = "pending" /\ calls'[c].promise = "resolved"
    BY <1>1 DEF Resolved
  <2>3. ASSUME NEW cs, NEW how \in {"cancelled", "rejected"}, calls' = Settle(cs, how)
        PROVE  FALSE
    BY <2>1, <2>2, <2>3, SettleType
  <2>4. ~Cancel /\ \A op \in ops : ~WriteThrows(op)
    BY <2>3 DEF Cancel, WriteThrows
  <2>5. ASSUME NEW level \in BOOLEAN
        PROVE  ~Write(level)
    <3>1. SUFFICES ASSUME Write(level)
                   PROVE  FALSE
      OBVIOUS
    <3>2. calls'[c] = calls[c]
      BY <2>1, <2>2, <3>1 DEF Write
    <3> QED
      BY <2>2, <3>2
  <2>6. ~UNCHANGED calls
    BY <2>2
  <2>7. PICK op \in ops : HandleSuccessWriting(op)
    BY <1>1, <2>4, <2>5, <2>6
    DEF Next, GpioAnswers, Reaction, HandleGpioInit, Poll, PinSetUp, PollReturns, GpioReads,
        GpioReadFails, BlockTimeIsOver, vars, GpioWrites, GpioFails, WriteReturns
  <2>8. calls' = Settle(op.calls, "resolved") /\ pin = Io(op.level) /\ WaitFor(op.calls, op.level, calls)
    BY <1>1, <2>7 DEF HandleSuccessWriting, CarefulInv, Asked
  <2>9. Resolved = op.calls
    BY <2>1, <2>8, SettleType DEF WaitFor, Resolved
  <2>10. PICK last \in op.calls : calls[last].level = op.level /\ \A d \in op.calls : d <= last
    BY <2>8 DEF WaitFor
  <2>11. Latest(op.calls) \in op.calls /\ \A d \in op.calls : d <= Latest(op.calls)
    BY <2>10 DEF Latest
  <2>12. \A d \in op.calls : d \in Nat
    BY <2>1, <2>8 DEF WaitFor
  <2>13. /\ Latest(op.calls) <= last /\ last <= Latest(op.calls)
         /\ last \in Nat /\ Latest(op.calls) \in Nat
    BY <2>10, <2>11, <2>12
  <2>14. Latest(op.calls) = last
    BY <2>13
  <2> QED
    BY <2>8, <2>9, <2>10, <2>14
<1>2. CarefulInv /\ [Next]_vars => [Resolved # {} => pin = Io(calls[Latest(Resolved)].level)]_vars
  BY <1>1
<1> QED
  BY CarefulInvariance, <1>2, PTL DEF Spec, ResolvedMeansWritten
=============================================================================
