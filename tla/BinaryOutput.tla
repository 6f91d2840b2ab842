----------------------------- MODULE BinaryOutput -----------------------------
(***************************************************************************)
(* entities/drivers/BinaryOutput/BinaryOutput.ts: the level of an output   *)
(* pin.  After a level is written the driver may be blocked for some time; *)
(* what is asked for meanwhile is refused or deferred.                     *)
(*                                                                         *)
(* A step is one synchronous run of the JavaScript engine.  The promise of *)
(* gpio.digitalWrite is settled, doWrite reacts to it, and only another    *)
(* reaction later the caller of doWrite goes on: the stages "io", "ok" or  *)
(* "error", and "returned" of an operation.  What only settles promises    *)
(* after an error is done in the step of doWrite.                          *)
(*                                                                         *)
(* The gpio device is external: each write it is given sets the pin, or    *)
(* fails and leaves it.  It sets the pin up before it does anything else.  *)
(* A Promised is the set of the calls of write() that wait for it.         *)
(***************************************************************************)
EXTENDS Integers, Sequences, FiniteSets

CONSTANTS
  Props,          \* the properties a driver may be configured with
  Careful,        \* whether its user keeps cancel() and poll() away from a
                  \* write, and never calls between two promise reactions
  MaxCalls,       \* bound: calls of write()
  MaxCancels,     \* bound: calls of cancel()
  MaxPolls,       \* bound: calls of poll()
  None            \* undefined

ASSUME PropsAssumption ==
  Props \subseteq [blockMode : {"refuse", "defer"}, blockTime : BOOLEAN,
                   inverted : BOOLEAN, initial : BOOLEAN]
ASSUME BoundsAssumption ==
  MaxCalls \in Nat /\ MaxCancels \in Nat /\ MaxPolls \in Nat
ASSUME CarefulAssumption == Careful \in BOOLEAN
ASSUME NoneAssumption ==
  None \notin Nat /\ None \notin BOOLEAN /\ \A cs \in SUBSET (1..MaxCalls) : None # cs

VARIABLES
  props,
  setup,                \* of the pin: "no", "io", "done"
  currentIoValue,       \* the value of the pin, as the driver knows it
  writing,
  lastDeferredValue,    \* a level or None
  deferredWritePromise, \* the calls that wait for it or None
  blockTimeout,         \* the number of a timer or None
  armed,                \* the timers the event loop still holds
  timers,               \* how many there were
  ops,                  \* runs of doWrite whose caller has not gone on
  reading,              \* digitalRead of poll(): its stage and its result
  pin,                  \* the pin itself
  calls,                \* calls of write(): the level, what became of its promise
  astray,               \* history: the last write was refused by the gpio device
                        \* and no poll() has looked at the pin since
  cancels, polls        \* how many there were

deferred == <<lastDeferredValue, deferredWritePromise>>
block == <<blockTimeout, armed, timers>>
counters == <<cancels, polls>>
vars == <<props, setup, currentIoValue, writing, deferred, block, ops, reading,
          pin, calls, astray, counters>>

Call == 1..MaxCalls

(* invertIfNeed, its own inverse *)
Io(level) == level # props.inverted

IsBlocked == blockTimeout # None

(* A mutant: writing is forgotten.                                         *)
OnlyBlocked == IsBlocked

IsInProgress == writing \/ IsBlocked

NoReactionWaits == reading.stage # "answered" /\ \A op \in ops : op.stage = "io"

MayCall == setup # "no" /\ (Careful => NoReactionWaits)

(* Promises of the calls cs are settled.                                   *)
Settle(cs, how) ==
  [c \in DOMAIN calls |->
     IF c \in cs THEN [calls[c] EXCEPT !.promise = how] ELSE calls[c]]

Deferrers == IF deferredWritePromise = None THEN {} ELSE deferredWritePromise

-----------------------------------------------------------------------------
(* The beginning of doWrite, for the calls cs.  others are the runs of     *)
(* doWrite besides this one.                                               *)
DoWrite(level, cs, others) ==
  /\ currentIoValue' = Io(level)
  /\ writing' = TRUE
  /\ ops' = others \cup {[level |-> level, calls |-> cs, stage |-> "io"]}

(* A mutant: no timer ends the block.                                      *)
BlockingForever(timer, kept) ==
  /\ blockTimeout' = IF props.blockTime THEN timers + 1 ELSE timer
  /\ UNCHANGED timers
  /\ armed' = kept

(* startBlocking, when timer is the block timer and kept are the timers    *)
StartBlocking(timer, kept) ==
  IF ~props.blockTime
  THEN blockTimeout' = timer /\ armed' = kept /\ UNCHANGED timers
  ELSE /\ timers' = timers + 1
       /\ blockTimeout' = timers'
       /\ armed' = kept \cup {timers'}

DeferredDiffers ==
  /\ props.blockMode = "defer"
  /\ lastDeferredValue # None
  /\ Io(lastDeferredValue) # currentIoValue

(* A mutant: the first of the deferred levels is kept.                     *)
FirstDeferred(level) ==
  /\ lastDeferredValue' = IF lastDeferredValue = None THEN level
                          ELSE lastDeferredValue
  /\ deferredWritePromise' = Deferrers \cup {Len(calls) + 1}

(* A mutant: a deferred call makes a promise of its own and the one before *)
(* is lost.                                                                *)
DeferredAlone(level) ==
  /\ lastDeferredValue' = level
  /\ deferredWritePromise' = {Len(calls) + 1}

(* setDeferredValue, for the call that is being made                       *)
SetDeferredValue(level) ==
  /\ lastDeferredValue' = level
  /\ deferredWritePromise' = Deferrers \cup {Len(calls) + 1}

-----------------------------------------------------------------------------
(* handleGpioInit: the pin is set up, and is not if the device refuses.    *)
HandleGpioInit ==
  /\ setup = "no"
  /\ setup' = "io"
  /\ currentIoValue' = Io(props.initial)
  /\ UNCHANGED <<props, writing, deferred, block, ops, reading, pin, calls,
                 astray, counters>>

PinSetUp(ok) ==
  /\ setup = "io"
  /\ setup' = "done"
  /\ pin' = IF ok THEN Io(props.initial) ELSE pin
  /\ astray' = ~ok
  /\ UNCHANGED <<props, currentIoValue, writing, deferred, block, ops, reading,
                 calls, counters>>

(* write(level)                                                            *)
Write(level) ==
  /\ MayCall /\ Len(calls) < MaxCalls
  /\ Careful => reading.stage = "no"
  /\ IF IsInProgress
     THEN /\ IF props.blockMode = "refuse"
             THEN /\ calls' = Append(calls, [level |-> level, promise |-> "refused"])
                  /\ UNCHANGED deferred
             ELSE /\ calls' = Append(calls, [level |-> level, promise |-> "pending"])
                  /\ SetDeferredValue(level)
          /\ UNCHANGED <<currentIoValue, writing, ops>>
     ELSE /\ calls' = Append(calls, [level |-> level, promise |-> "pending"])
          /\ DoWrite(level, {Len(calls) + 1}, ops)
          /\ UNCHANGED deferred
  /\ UNCHANGED <<props, setup, block, reading, pin, astray, counters>>

(* A mutant: the block timer goes on.                                      *)
CancelKeepsTimer ==
  /\ MayCall /\ cancels < MaxCancels
  /\ Careful => ~writing
  /\ cancels' = cancels + 1
  /\ calls' = Settle(Deferrers, "cancelled")
  /\ lastDeferredValue' = None
  /\ deferredWritePromise' = None
  /\ blockTimeout' = None
  /\ writing' = FALSE
  /\ UNCHANGED <<props, setup, currentIoValue, armed, timers, ops, reading, pin,
                 astray, polls>>

(* cancel(): the promise of the deferred calls will never be settled.      *)
Cancel ==
  /\ MayCall /\ cancels < MaxCancels
  /\ Careful => ~writing
  /\ cancels' = cancels + 1
  /\ calls' = Settle(Deferrers, "cancelled")
  /\ lastDeferredValue' = None
  /\ deferredWritePromise' = None
  /\ armed' = armed \ {blockTimeout}
  /\ blockTimeout' = None
  /\ writing' = FALSE
  /\ UNCHANGED <<props, setup, currentIoValue, timers, ops, reading, pin,
                 astray, polls>>

-----------------------------------------------------------------------------
(* The gpio device executes a write.                                       *)
GpioWrites(op) ==
  /\ setup = "done" /\ op.stage = "io"
  /\ ops' = (ops \ {op}) \cup {[op EXCEPT !.stage = "ok"]}
  /\ pin' = Io(op.level)
  /\ astray' = FALSE
  /\ UNCHANGED <<props, setup, currentIoValue, writing, deferred, block,
                 reading, calls, counters>>

GpioFails(op) ==
  /\ setup = "done" /\ op.stage = "io"
  /\ ops' = (ops \ {op}) \cup {[op EXCEPT !.stage = "error"]}
  /\ astray' = TRUE
  /\ UNCHANGED <<props, setup, currentIoValue, writing, deferred, block,
                 reading, pin, calls, counters>>

(* doWrite after digitalWrite has succeeded.                               *)
WriteReturns(op) ==
  /\ op.stage = "ok"
  /\ ops' = (ops \ {op}) \cup {[op EXCEPT !.stage = "returned"]}
  /\ writing' = FALSE
  /\ UNCHANGED <<props, setup, currentIoValue, deferred, block, reading, pin,
                 calls, astray, counters>>

(* A mutant: the caller of the failed write is not told.                   *)
WriteThrowsSilently(op) ==
  /\ op.stage = "error"
  /\ ops' = ops \ {op}
  /\ writing' = FALSE
  /\ calls' = Settle(Deferrers, "rejected")
  /\ lastDeferredValue' = None
  /\ deferredWritePromise' = None
  /\ StartBlocking(None, armed \ {blockTimeout})
  /\ UNCHANGED <<props, setup, currentIoValue, reading, pin, astray, counters>>

(* doWrite after digitalWrite has failed, with handleError and cancel: all *)
(* who wait are rejected and blocking starts.                              *)
WriteThrows(op) ==
  /\ op.stage = "error"
  /\ ops' = ops \ {op}
  /\ writing' = FALSE
  /\ calls' = Settle(op.calls \cup Deferrers, "rejected")
  /\ lastDeferredValue' = None
  /\ deferredWritePromise' = None
  /\ StartBlocking(None, armed \ {blockTimeout})
  /\ UNCHANGED <<props, setup, currentIoValue, reading, pin, astray, counters>>

(* handleSuccessWriting, in write() or in the reaction of startDeferred.   *)
HandleSuccessWriting(op) ==
  /\ op.stage = "returned"
  /\ calls' = Settle(op.calls, "resolved")
  /\ IF DeferredDiffers
     THEN /\ lastDeferredValue' = None
          /\ deferredWritePromise' = None
          /\ DoWrite(lastDeferredValue, Deferrers, ops \ {op})
          /\ UNCHANGED block
     ELSE /\ ops' = ops \ {op}
          /\ StartBlocking(blockTimeout, armed)
          /\ UNCHANGED <<currentIoValue, writing, deferred>>
  /\ UNCHANGED <<props, setup, reading, pin, astray, counters>>

(* A block timer fires: it unblocks, whichever timer it is.                *)
BlockTimeIsOver(timer) ==
  /\ NoReactionWaits
  /\ timer \in armed
  /\ armed' = armed \ {timer}
  /\ blockTimeout' = None
  /\ UNCHANGED <<props, setup, currentIoValue, writing, deferred, timers, ops,
                 reading, pin, calls, astray, counters>>

-----------------------------------------------------------------------------
(* poll(), one at a time.                                                  *)
Poll ==
  /\ MayCall /\ polls < MaxPolls
  /\ reading.stage = "no"
  /\ Careful => ops = {}
  /\ polls' = polls + 1
  /\ reading' = [reading EXCEPT !.stage = "io"]
  /\ UNCHANGED <<props, setup, currentIoValue, writing, deferred, block, ops,
                 pin, calls, astray, cancels>>

GpioReads ==
  /\ setup = "done" /\ reading.stage = "io"
  /\ reading' = [stage |-> "answered", value |-> pin]
  /\ UNCHANGED <<props, setup, currentIoValue, writing, deferred, block, ops,
                 pin, calls, astray, counters>>

GpioReadFails ==
  /\ setup = "done" /\ reading.stage = "io"
  /\ reading' = [reading EXCEPT !.stage = "no"]
  /\ UNCHANGED <<props, setup, currentIoValue, writing, deferred, block, ops,
                 pin, calls, astray, counters>>

(* A mutant: the result of the poll is not kept.                           *)
PollForgets ==
  /\ reading.stage = "answered"
  /\ reading' = [stage |-> "no", value |-> FALSE]
  /\ astray' = FALSE
  /\ UNCHANGED <<props, setup, currentIoValue, writing, deferred, block, ops,
                 pin, calls, counters>>

PollReturns ==
  /\ reading.stage = "answered"
  /\ currentIoValue' = reading.value
  /\ reading' = [stage |-> "no", value |-> FALSE]
  /\ astray' = (astray /\ ops # {})
  /\ UNCHANGED <<props, setup, writing, deferred, block, ops, pin, calls,
                 counters>>

-----------------------------------------------------------------------------
Init ==
  /\ props \in Props
  /\ setup = "no"
  /\ currentIoValue = None
  /\ writing = FALSE
  /\ lastDeferredValue = None /\ deferredWritePromise = None
  /\ blockTimeout = None /\ armed = {} /\ timers = 0
  /\ ops = {}
  /\ reading = [stage |-> "no", value |-> FALSE]
  /\ pin = FALSE
  /\ calls = <<>>
  /\ astray = FALSE
  /\ cancels = 0 /\ polls = 0

Reaction ==
  \/ \E op \in ops : \/ WriteReturns(op)
                     \/ WriteThrows(op)
                     \/ HandleSuccessWriting(op)
  \/ PollReturns

GpioAnswers ==
  \/ \E ok \in BOOLEAN : PinSetUp(ok)
  \/ \E op \in ops : GpioWrites(op) \/ GpioFails(op)
  \/ GpioReads
  \/ GpioReadFails

Next ==
  \/ HandleGpioInit
  \/ \E level \in BOOLEAN : Write(level)
  \/ Cancel
  \/ Poll
  \/ GpioAnswers
  \/ Reaction
  \/ \E timer \in armed : BlockTimeIsOver(timer)

Spec == Init /\ [][Next]_vars

(* The event loop runs reactions and timers, the device answers.  Nobody   *)
(* has to call.                                                            *)
Fairness ==
  /\ WF_vars(GpioAnswers)
  /\ WF_vars(Reaction)
  /\ WF_vars(\E timer \in armed : BlockTimeIsOver(timer))

FairSpec == Spec /\ Fairness

-----------------------------------------------------------------------------
(* Types of the fields, of the operations and of the history.              *)
TypeOK ==
  /\ props \in Props
  /\ setup \in {"no", "io", "done"}
  /\ currentIoValue \in IF setup = "no" THEN {None} ELSE BOOLEAN
  /\ writing \in BOOLEAN
  /\ lastDeferredValue \in BOOLEAN \cup {None}
  /\ deferredWritePromise \in (SUBSET Call) \cup {None}
  /\ blockTimeout \in Nat \cup {None}
  /\ armed \subseteq 1..timers
  /\ timers \in Nat
  /\ ops \subseteq [level : BOOLEAN, calls : SUBSET Call,
                    stage : {"io", "ok", "error", "returned"}]
  /\ reading \in [stage : {"no", "io", "answered"}, value : BOOLEAN]
  /\ pin \in BOOLEAN
  /\ calls \in Seq([level : BOOLEAN,
                    promise : {"pending", "refused", "resolved", "rejected",
                               "cancelled"}])
  /\ Len(calls) <= MaxCalls
  /\ astray \in BOOLEAN
  /\ cancels \in 0..MaxCancels
  /\ polls \in 0..MaxPolls

(* The gpio device is given one write at a time: while it has one, other   *)
(* requests are refused or deferred (line 37).                             *)
OneWriteAtATime == Cardinality({op \in ops : op.stage # "returned"}) <= 1

(* While the driver is blocked no write is under way, and exactly the      *)
(* timer that ends this block is armed: none of an earlier block may cut   *)
(* it short.                                                               *)
BlockedUntilItsTimer ==
  /\ IsBlocked => ops = {}
  /\ armed = IF IsBlocked THEN {blockTimeout} ELSE {}

(* Nothing is under way.                                                   *)
Quiet == setup = "done" /\ ops = {} /\ reading.stage = "no" /\ ~IsInProgress

(* What the driver knows of the pin, and has told in change events, is     *)
(* true once nothing is under way, unless the device has refused a write   *)
(* and nobody has polled since.                                            *)
KnowsThePin == Quiet /\ ~astray => currentIoValue = pin

(* No pending promise is dropped, whoever calls and whenever: it is held   *)
(* by a run of doWrite or by deferredWritePromise, also when deferred      *)
(* levels replace each other; and the level kept for those who wait for    *)
(* deferredWritePromise is the one that the last of them has asked for.    *)
(* That something is under way which will settle it is not claimed: see    *)
(* DeferredIsWritten.                                                      *)
PendingIsRemembered ==
  /\ \A c \in DOMAIN calls :
       calls[c].promise = "pending" =>
         c \in Deferrers \cup UNION {op.calls : op \in ops}
  /\ \A c \in Deferrers :
       (\A d \in Deferrers : d <= c) => lastDeferredValue = calls[c].level

(* The calls of write() that were neither refused nor cancelled.           *)
Accepted == {c \in DOMAIN calls : calls[c].promise \notin {"refused", "cancelled"}}

Latest(cs) == CHOOSE c \in cs : \A d \in cs : d <= c

(* Once nothing is under way the pin has the level of the last request     *)
(* that was accepted, unless a write has failed ("write last value which   *)
(* was tried to set", lines 21-22).                                        *)
LastRequestWins ==
  Quiet /\ ~astray /\ Accepted # {} /\ calls[Latest(Accepted)].promise # "rejected"
    => pin = Io(calls[Latest(Accepted)].level)

(* Once nothing is under way no level is left deferred that the pin does   *)
(* not have: in defer mode the driver "waits for block time finished and   *)
(* write last value which was tried to set" (line 21).                     *)
DeferredIsWritten ==
  Quiet /\ ~astray /\ lastDeferredValue # None => pin = Io(lastDeferredValue)

(* The calls of write() whose promise a step resolves.                     *)
Resolved ==
  {c \in DOMAIN calls : calls[c].promise = "pending" /\ calls'[c].promise = "resolved"}

(* When promises of write() are resolved, the pin has the level that the   *)
(* last of those callers has asked for.                                    *)
ResolvedMeansWritten ==
  [][Resolved # {} => pin = Io(calls[Latest(Resolved)].level)]_vars

(* The driver does not stay blocked or writing for ever.                   *)
ProgressEnds == IsInProgress ~> ~IsInProgress

(* Every call of write() is answered: settled or refused.  In defer mode   *)
(* its promise may instead be left in deferredWritePromise with no write   *)
(* under way that would settle it (DeferredIsWritten), until another       *)
(* request comes.                                                          *)
CallsSettle ==
  \A c \in Call :
    (c \in DOMAIN calls) ~>
      (c \in DOMAIN calls /\ (calls[c].promise # "pending" \/ (c \in Deferrers /\ ops = {})))
=============================================================================
