------------------------------ MODULE Pcf8574 ------------------------------
(***************************************************************************)
(* entities/drivers/Pcf8574: a chip with eight pins behind an I2C bus, with *)
(* the parts it is made of: InitIcLogic sets the chip up, the output logic *)
(* writes all pins at once, and Polling in MasterSlaveBaseNodeDriver reads *)
(* them and hands what has changed to the input logic.  Three of them keep *)
(* the levels in one place, currentState.                                  *)
(*                                                                         *)
(* A step is one macrotask with its promise reactions.  That is why the    *)
(* poll at the end of a debounce takes no step: pollOnce() waits for       *)
(* Polling.restart, which awaits a wrapper that returns nothing, so it is  *)
(* over before the bus can answer.  The output logic is modelled without   *)
(* buffering and timeouts, see PortExpanderOutput.                         *)
(***************************************************************************)
EXTENDS Naturals, FiniteSets

CONSTANTS
  Inputs, Outputs, \* the pins that were set up
  Debounced,       \* the input pins with a debounce
  None,            \* no data, no write
  MaxPolls,        \* bound: polls under way at once
  MaxInits,        \* bound: calls of initIc()
  MaxWrites,       \* bound: calls of write() and writeState()
  MaxReads,        \* bound: calls of read() or pollOnce()
  MaxChanges,      \* bound: changes of the level at an input
  MaxFails         \* bound: failures of the bus

ASSUME PinsAssumption == Debounced \subseteq Inputs /\ Inputs \cap Outputs = {}
ASSUME BoundsAssumption ==
  {MaxPolls, MaxInits, MaxWrites, MaxReads, MaxChanges, MaxFails} \subseteq Nat

Pins == Inputs \cup Outputs
Bytes == [Pins -> BOOLEAN]
Slots == 1..MaxPolls
Writes == [byte : Bytes, taken : BOOLEAN]

ASSUME NoneAssumption == None \notin Bytes \cup Writes

VARIABLES
  step,         \* InitIcLogic: "setup", "trying", "failed" until the timer
                \* of the try is over, or "done"
  tryTimer,     \* the timer of the try: "off", "armed" or "over"
  initOn,       \* the promise of the queue that initCb waits for, or "no"
  currentState,
  writing,      \* the write of the output logic: [byte, taken] or None
  buffer,       \* its writingTimeBuffer, or None
  queued,       \* whether another write follows
  interval,     \* whether the interval timer of polling is set
  polls,        \* the polls under way: [at, byte] by slot
  pollLastData,
  debouncing,   \* pins whose debounce timer is armed
  pins,         \* the chip: what the pins show, and the outputs hold
  reverted,     \* history: inputs that the end of a write has set back
  count         \* of calls, changes and failures

init == <<step, tryTimer, initOn>>
output == <<writing, buffer, queued>>
input == <<interval, polls, pollLastData, debouncing>>
vars == <<init, currentState, output, input, pins, reverted, count>>

-----------------------------------------------------------------------------
NoData == [p \in Pins |-> FALSE]
NoPoll == [at |-> "no", byte |-> NoData]
IsFree(s) == polls[s].at = "no"

IsWriting == writing # None
WasInitialized == step = "done"

Counted(what, max) ==
  /\ count[what] < max
  /\ count' = [count EXCEPT ![what] = @ + 1]

(* A mutant: what comes from the bus is taken over for all pins.           *)
AllPins == Pins

(* handleIcStateChange skips the pins that are not inputs.                 *)
Heeded == Inputs

(* A mutant: the first poll is only what later ones are compared with.     *)
NewSinceLast(byte) ==
  {p \in Heeded : pollLastData # None /\ byte[p] # pollLastData[p]}

(* The pins whose polled level is new: incomeState.                        *)
New(byte) == {p \in Heeded : byte[p] # currentState[p]}

(* queue.add of doWriteCb: what the buffer holds is sent now, or after the *)
(* write that goes on.                                                     *)
Send(byte) ==
  /\ buffer' = byte
  /\ IF IsWriting THEN queued' = TRUE /\ UNCHANGED writing
     ELSE writing' = [byte |-> byte, taken |-> FALSE] /\ UNCHANGED queued

(* A try of callInitCb: its timer, and initCb, which writes the state.     *)
Try ==
  /\ step' = "trying"
  /\ tryTimer' = "armed"
  /\ initOn' = IF IsWriting THEN "finish" ELSE "pending"
  /\ Send(currentState)

(* The poll of free slot s is asked for, if one is free.                   *)
AskPoll(s) == polls' = [polls EXCEPT ![s] = [at |-> "asked", byte |-> NoData]]

(* A mutant: restart() clears the interval and does not set it again.      *)
RestartOnce(s) == AskPoll(s) /\ interval' = FALSE

(* Polling.restart: a poll at once, then the interval anew                 *)
Restart(s) == AskPoll(s) /\ UNCHANGED interval

-----------------------------------------------------------------------------
(* The API.                                                                *)

(* write() and writeState() before initIc()                                *)
SetUpLevel(p, level) ==
  /\ step = "setup"
  /\ Counted("writes", MaxWrites)
  /\ currentState' = [currentState EXCEPT ![p] = level]
  /\ UNCHANGED <<init, output, input, pins, reverted>>

InitIc ==
  /\ step \in {"setup", "done"}
  /\ Counted("inits", MaxInits)
  /\ Try
  /\ UNCHANGED <<currentState, input, pins, reverted>>

Write(p, level) ==
  /\ step # "setup"
  /\ Counted("writes", MaxWrites)
  /\ Send([IF IsWriting THEN buffer ELSE currentState EXCEPT ![p] = level])
  /\ UNCHANGED <<init, currentState, input, pins, reverted>>

WriteState(levels) ==
  /\ step # "setup"
  /\ Counted("writes", MaxWrites)
  /\ Send([p \in Pins |-> IF p \in Outputs THEN levels[p] ELSE currentState[p]])
  /\ UNCHANGED <<init, currentState, input, pins, reverted>>

(* pollOnce(), which read() of an input calls                              *)
PollOnce(s) ==
  /\ WasInitialized /\ interval /\ IsFree(s)
  /\ Counted("reads", MaxReads)
  /\ Restart(s)
  /\ UNCHANGED <<init, currentState, output, pollLastData, debouncing, pins,
                 reverted>>

-----------------------------------------------------------------------------
(* The bus and the end of a write.                                         *)

ChipTakes ==
  /\ IsWriting /\ ~writing.taken
  /\ writing' = [writing EXCEPT !.taken = TRUE]
  /\ pins' = [p \in Pins |-> IF p \in Outputs THEN writing.byte[p] ELSE pins[p]]
  /\ UNCHANGED <<init, currentState, buffer, queued, input, reverted, count>>

(* A mutant: the state is kept as it is.                                   *)
StateKept == currentState

(* setWholeState                                                           *)
StateAfterWrite == writing.byte

(* The write is answered: doWriteCb ends, the next is sent.  The first     *)
(* initialization that succeeds starts the feedback, with a poll.          *)
WriteSucceeds ==
  /\ IsWriting /\ writing.taken
  /\ currentState' = StateAfterWrite
  /\ reverted' = reverted \cup {p \in Inputs : currentState'[p] # currentState[p]}
  /\ queued' = FALSE
  /\ IF queued
     THEN /\ writing' = [byte |-> buffer, taken |-> FALSE]
          /\ UNCHANGED buffer
     ELSE writing' = None /\ buffer' = None
  /\ IF initOn = "pending"
     THEN /\ step' = "done" /\ tryTimer' = "off" /\ initOn' = "no"
          /\ interval' = TRUE
          /\ IF interval THEN UNCHANGED polls ELSE AskPoll(1)
     ELSE /\ initOn' = IF initOn = "finish" THEN "pending" ELSE initOn
          /\ UNCHANGED <<step, tryTimer, interval, polls>>
  /\ UNCHANGED <<pollLastData, debouncing, pins, count>>

(* The write is refused, or given up: what is queued is dropped.  A try of *)
(* initIc() is repeated at once if its time is over, or else then.         *)
WriteFails ==
  /\ IsWriting /\ ~writing.taken
  /\ Counted("fails", MaxFails)
  /\ queued' = FALSE
  /\ IF initOn # "no" /\ tryTimer = "over"
     THEN /\ writing' = [byte |-> currentState, taken |-> FALSE]
          /\ buffer' = currentState
          /\ step' = "trying" /\ tryTimer' = "armed" /\ initOn' = "pending"
     ELSE /\ writing' = None /\ buffer' = None
          /\ step' = IF initOn # "no" THEN "failed" ELSE step
          /\ initOn' = "no"
          /\ UNCHANGED tryTimer
  /\ UNCHANGED <<currentState, input, pins, reverted>>

(* A mutant: the end of the time of a try that failed starts no other.     *)
TryTimeIsOverOnly ==
  /\ tryTimer = "armed"
  /\ tryTimer' = "over"
  /\ UNCHANGED <<step, initOn, currentState, output, input, pins, reverted, count>>

(* The timer of a try fires; if the try has failed the next one starts.    *)
TryTimeIsOver ==
  /\ tryTimer = "armed"
  /\ IF step = "failed" THEN Try
     ELSE tryTimer' = "over" /\ UNCHANGED <<step, initOn, output>>
  /\ UNCHANGED <<currentState, input, pins, reverted, count>>

-----------------------------------------------------------------------------
(* Polling.                                                                *)

IntervalFires(s) ==
  /\ interval /\ IsFree(s)
  /\ AskPoll(s)
  /\ UNCHANGED <<init, currentState, output, interval, pollLastData, debouncing,
                 pins, reverted, count>>

ChipIsRead(s) ==
  /\ polls[s].at = "asked"
  /\ polls' = [polls EXCEPT ![s] = [at |-> "read", byte |-> pins]]
  /\ UNCHANGED <<init, currentState, output, interval, pollLastData, debouncing,
                 pins, reverted, count>>

PollFails(s) ==
  /\ polls[s].at = "asked"
  /\ Counted("fails", MaxFails)
  /\ polls' = [polls EXCEPT ![s] = NoPoll]
  /\ UNCHANGED <<init, currentState, output, interval, pollLastData, debouncing,
                 pins, reverted>>

(* handleIncomeData, handleIcStateChange, incomeState: what equals the     *)
(* data of the last poll is dropped; a new level is taken over, or starts  *)
(* the debounce of the pin.                                                *)
PollReturns(s) ==
  /\ polls[s].at = "read"
  /\ LET byte == polls[s].byte
         now == IF byte = pollLastData THEN {} ELSE New(byte) \ Debounced
     IN /\ pollLastData' = byte
        /\ currentState' = [p \in Pins |-> IF p \in now THEN byte[p]
                                           ELSE currentState[p]]
        /\ debouncing' = IF byte = pollLastData THEN debouncing
                         ELSE debouncing \cup (New(byte) \cap Debounced)
        /\ reverted' = reverted \ now
  /\ polls' = [polls EXCEPT ![s] = NoPoll]
  /\ UNCHANGED <<init, output, interval, pins, count>>

(* handleEndOfDebounce: a poll is started, unless the chip is being set up *)
(* anew.  Nothing has been polled when setFinalState looks for it.         *)
DebounceEnds(p) ==
  /\ p \in debouncing
  /\ debouncing' = debouncing \ {p}
  /\ IF WasInitialized
     THEN \E s \in Slots : IsFree(s) /\ Restart(s)
     ELSE UNCHANGED <<polls, interval>>
  /\ UNCHANGED <<init, currentState, output, pollLastData, pins, reverted, count>>

(* The level at an input changes.                                          *)
PinChanges(p) ==
  /\ Counted("changes", MaxChanges)
  /\ pins' = [pins EXCEPT ![p] = ~@]
  /\ UNCHANGED <<init, currentState, output, input, reverted>>

-----------------------------------------------------------------------------
Init ==
  /\ step = "setup" /\ tryTimer = "off" /\ initOn = "no"
  /\ currentState = [p \in Pins |-> FALSE]
  /\ writing = None /\ buffer = None /\ queued = FALSE
  /\ interval = FALSE
  /\ pins \in Bytes
  /\ polls = [s \in Slots |-> NoPoll]
  /\ pollLastData = None
  /\ debouncing = {}
  /\ reverted = {}
  /\ count = [what \in {"inits", "writes", "reads", "fails", "changes"} |-> 0]

Next ==
  \/ \E p \in Outputs, level \in BOOLEAN : SetUpLevel(p, level) \/ Write(p, level)
  \/ \E levels \in [Outputs -> BOOLEAN] : WriteState(levels)
  \/ InitIc
  \/ ChipTakes \/ WriteSucceeds \/ WriteFails \/ TryTimeIsOver
  \/ \E s \in Slots : \/ PollOnce(s) \/ IntervalFires(s) \/ ChipIsRead(s)
                      \/ PollFails(s) \/ PollReturns(s)
  \/ \E p \in Inputs : DebounceEnds(p) \/ PinChanges(p)

Spec == Init /\ [][Next]_vars

(* Timers fire, and the bus answers or fails: a write and a poll have a    *)
(* timeout of the queue and of the sender.                                 *)
FairSpec ==
  /\ Spec
  /\ WF_vars(ChipTakes) /\ WF_vars(WriteSucceeds) /\ WF_vars(TryTimeIsOver)
  /\ \A s \in Slots : /\ SF_vars(IntervalFires(s))
                      /\ WF_vars(ChipIsRead(s)) /\ WF_vars(PollReturns(s))
  /\ \A p \in Inputs : SF_vars(DebounceEnds(p))

-----------------------------------------------------------------------------
(* Properties.                                                             *)

(* Type invariant.                                                         *)
TypeOK ==
  /\ step \in {"setup", "trying", "failed", "done"}
  /\ tryTimer \in {"off", "armed", "over"}
  /\ initOn \in {"no", "pending", "finish"}
  /\ currentState \in Bytes /\ pins \in Bytes
  /\ writing \in Writes \cup {None}
  /\ buffer \in Bytes \cup {None}
  /\ queued \in BOOLEAN /\ interval \in BOOLEAN
  /\ polls \in [Slots -> [at : {"no", "asked", "read"}, byte : Bytes]]
  /\ pollLastData \in Bytes \cup {None}
  /\ debouncing \subseteq Debounced
  /\ reverted \subseteq Inputs
  /\ count \in [{"inits", "writes", "reads", "fails", "changes"} -> Nat]

(* Polls and writes share currentState and overlap; still, when nothing is *)
(* being written, it holds what the chip drives at its outputs: no poll    *)
(* that was under way meanwhile has put an older level back.               *)
OutputsAreKnown ==
  WasInitialized /\ ~IsWriting =>
    \A p \in Outputs : currentState[p] = pins[p]

(* A change that was polled is not lost: the level of an input without a   *)
(* debounce is the one last polled, unless the end of a write that began   *)
(* before has set it back.                                                 *)
InputsFollowPolls ==
  pollLastData # None =>
    \A p \in Inputs \ (Debounced \cup reverted) :
      currentState[p] = pollLastData[p]

(* The chip is set up as soon as the bus lets it: every initIc() ends,     *)
(* however many tries fail, and before or after their time is over.        *)
InitIcEnds == (step \in {"trying", "failed"}) ~> WasInitialized

(* Once an input has settled, the driver comes to know its level, unless   *)
(* the end of a write has set it back.                                     *)
CatchesUp(p) == <>[](WasInitialized /\ p \notin reverted => currentState[p] = pins[p])

(* Inputs without a debounce do, whatever polls fail or overlap.           *)
InputsCatchUp == \A p \in Inputs \ Debounced : CatchesUp(p)

(* read(): "Asks IC and returns the current value of a pin", so once an     *)
(* input without a debounce has settled read() must come to tell its level. *)
(* It does not: a level that the end of a write has set back stays so, for  *)
(* what later polls bring is what the last one brought, and dropped.        *)
ReadTellsTheLevel ==
  \A p \in Inputs \ Debounced : <>[](WasInitialized => currentState[p] = pins[p])
=============================================================================
