---------------------------- MODULE Pcf8574Proofs ----------------------------
(***************************************************************************)
(* Safety of Pcf8574 for any set of pins and any number of polls under     *)
(* way: writes, polls and tries of initIc() share currentState, and yet    *)
(* it holds what the chip drives and what was polled last.                 *)
(*                                                                         *)
(* What makes it inductive: a write that the chip has taken, and no other, *)
(* is ahead of currentState (Ahead); and the buffer is there exactly       *)
(* during a write, so that a queued write finds what to send (Buffered).   *)
(***************************************************************************)
EXTENDS Pcf8574, TLAPS

Buffered == IsWriting <=> buffer # None

Ahead ==
  /\ IsWriting /\ writing.taken => \A p \in Outputs : pins[p] = writing.byte[p]
  /\ WasInitialized /\ ~(IsWriting /\ writing.taken) =>
       \A p \in Outputs : currentState[p] = pins[p]

(* Only a try under way waits for a write.                                 *)
Tries == initOn # "no" => ~WasInitialized

IInv == TypeOK /\ Buffered /\ Ahead /\ Tries /\ InputsFollowPolls

LEMMA PinSets == Inputs \subseteq Pins /\ Outputs \subseteq Pins
BY DEF Pins

(* TypeOK with its sets named.                                             *)
Kinds == {"inits", "writes", "reads", "fails", "changes"}
Polls == [at : {"no", "asked", "read"}, byte : Bytes]

-----------------------------------------------------------------------------
(* Helpers.                                                                *)
LEMMA CountedType ==
  ASSUME TypeOK, NEW what \in Kinds, NEW max, Counted(what, max)
  PROVE  count' \in [Kinds -> Nat]
<1>1. count \in [Kinds -> Nat]
  BY DEF TypeOK, Kinds
<1>2. count' = [count EXCEPT ![what] = count[what] + 1]
  BY DEF Counted
<1> QED
  BY <1>1, <1>2

LEMMA SetLevel ==
  ASSUME NEW byte \in Bytes, NEW p \in Pins, NEW level \in BOOLEAN
  PROVE  /\ [byte EXCEPT ![p] = level] \in Bytes
         /\ \A q \in Pins \ {p} : [byte EXCEPT ![p] = level][q] = byte[q]
BY DEF Bytes

(* Sending does not take anything back: the write under way goes on.       *)
LEMMA SendKeeps ==
  ASSUME TypeOK, NEW byte \in Bytes, Send(byte)
  PROVE  /\ writing' \in Writes \cup {None} /\ buffer' \in Bytes \cup {None}
         /\ queued' \in BOOLEAN
         /\ writing' # None /\ buffer' # None
         /\ IsWriting => writing' = writing
         /\ ~IsWriting => ~writing'.taken
<1>1. buffer' = byte /\ byte # None
  BY NoneAssumption DEF Send
<1>2. CASE IsWriting
  BY <1>1, <1>2 DEF Send, TypeOK, IsWriting
<1>3. CASE ~IsWriting
  <2>1. writing' = [byte |-> byte, taken |-> FALSE] /\ queued' = queued
    BY <1>3 DEF Send
  <2>2. [byte |-> byte, taken |-> FALSE] \in Writes
    BY DEF Writes
  <2> QED
    BY <1>1, <1>3, <2>1, <2>2, NoneAssumption DEF TypeOK
<1> QED
  BY <1>2, <1>3

LEMMA NoDataType == NoData \in Bytes /\ NoPoll \in Polls
BY DEF NoData, NoPoll, Bytes, Polls

LEMMA AskPollType ==
  ASSUME TypeOK, NEW s \in Slots, AskPoll(s)
  PROVE  polls' \in [Slots -> Polls]
<1>1. polls \in [Slots -> Polls]
  BY DEF TypeOK, Polls
<1>2. [at |-> "asked", byte |-> NoData] \in Polls
  BY NoDataType DEF Polls
<1> QED
  BY <1>1, <1>2 DEF AskPoll

(* What no action that leaves levels and writes alone can disturb.         *)
LEMMA NothingMoves ==
  ASSUME IInv,
         UNCHANGED <<step, initOn, writing, buffer, currentState, pollLastData, reverted, pins>>
  PROVE  Buffered' /\ Ahead' /\ Tries' /\ InputsFollowPolls'
BY DEF IInv, Buffered, Ahead, Tries, InputsFollowPolls, IsWriting, WasInitialized

(* The write that goes on, or a new one that the chip has not taken.       *)
LEMMA SendMoves ==
  ASSUME IInv, NEW byte \in Bytes, Send(byte),
         UNCHANGED <<currentState, pollLastData, reverted, pins>>,
         WasInitialized' => WasInitialized, initOn' # "no" => ~WasInitialized'
  PROVE  Buffered' /\ Ahead' /\ Tries' /\ InputsFollowPolls'
<1>0. TypeOK /\ Ahead /\ InputsFollowPolls
  BY DEF IInv
<1>1. /\ writing' # None /\ buffer' # None
      /\ IsWriting => writing' = writing
      /\ ~IsWriting => ~writing'.taken
  BY <1>0, SendKeeps
<1>2. Buffered'
  BY <1>1 DEF Buffered, IsWriting
<1>3. Ahead'
  BY <1>0, <1>1 DEF Ahead, IsWriting
<1>4. Tries' /\ InputsFollowPolls'
  BY <1>0 DEF Tries, InputsFollowPolls
<1> QED
  BY <1>2, <1>3, <1>4

-----------------------------------------------------------------------------
(* The API.                                                                *)
LEMMA SetUpLevelKeeps ==
  ASSUME IInv, NEW p \in Outputs, NEW level \in BOOLEAN, SetUpLevel(p, level)
  PROVE  IInv'
<1>0. TypeOK /\ Buffered /\ Ahead /\ Tries /\ InputsFollowPolls
  BY DEF IInv
<1>1. /\ step = "setup" /\ Counted("writes", MaxWrites)
      /\ currentState' = [currentState EXCEPT ![p] = level]
      /\ UNCHANGED <<step, tryTimer, initOn, writing, buffer, queued, interval, polls,
                     pollLastData, debouncing, pins, reverted>>
  BY DEF SetUpLevel, init, output, input
<1>2. /\ currentState' \in Bytes
      /\ \A q \in Pins \ {p} : currentState'[q] = currentState[q]
  <2>1. currentState \in Bytes /\ p \in Pins
    BY <1>0, PinSets DEF TypeOK
  <2> QED
    BY <1>1, <2>1 DEF Bytes
<1>3. count' \in [Kinds -> Nat]
  BY <1>0, <1>1, CountedType DEF Kinds
<1>4. TypeOK'
  BY <1>0, <1>1, <1>2, <1>3 DEF TypeOK, Kinds
<1>5. Buffered' /\ Tries' /\ Ahead'
  BY <1>0, <1>1 DEF Buffered, Tries, Ahead, IsWriting, WasInitialized
<1>6. InputsFollowPolls'
  <2>1. \A q \in Inputs : q \in Pins \ {p}
    BY PinsAssumption, PinSets
  <2> QED
    BY <1>0, <1>1, <1>2, <2>1 DEF InputsFollowPolls
<1> QED
  BY <1>4, <1>5, <1>6 DEF IInv

LEMMA TryKeeps ==
  ASSUME IInv, Try, UNCHANGED <<currentState, input, pins, reverted>>,
         count' \in [Kinds -> Nat]
  PROVE  IInv'
<1>0. TypeOK /\ currentState \in Bytes
  BY DEF IInv, TypeOK
<1>1. /\ step' = "trying" /\ tryTimer' = "armed"
      /\ initOn' \in {"finish", "pending"} /\ Send(currentState)
      /\ UNCHANGED <<currentState, interval, polls, pollLastData, debouncing, pins, reverted>>
  BY DEF Try, input
<1>2. /\ writing' \in Writes \cup {None} /\ buffer' \in Bytes \cup {None}
      /\ queued' \in BOOLEAN
  BY <1>0, <1>1, SendKeeps
<1>3. TypeOK'
  BY <1>0, <1>1, <1>2 DEF TypeOK, Kinds
<1>4. Buffered' /\ Ahead' /\ Tries' /\ InputsFollowPolls'
  BY <1>0, <1>1, SendMoves DEF WasInitialized
<1> QED
  BY <1>3, <1>4 DEF IInv

LEMMA InitIcKeeps ==
  ASSUME IInv, InitIc
  PROVE  IInv'
<1>1. TypeOK
  BY DEF IInv
<1>2. count' \in [Kinds -> Nat]
  BY <1>1, CountedType DEF InitIc, Kinds
<1> QED
  BY <1>2, TryKeeps DEF InitIc

(* write() and writeState() after initIc()                                 *)
LEMMA WriteStepKeeps ==
  ASSUME IInv, NEW byte \in Bytes, Send(byte), Counted("writes", MaxWrites),
         UNCHANGED <<init, currentState, input, pins, reverted>>
  PROVE  IInv'
<1>0. TypeOK /\ Tries
  BY DEF IInv
<1>1. UNCHANGED <<step, tryTimer, initOn, currentState, interval, polls, pollLastData,
                  debouncing, pins, reverted>>
  BY DEF init, input
<1>2. /\ writing' \in Writes \cup {None} /\ buffer' \in Bytes \cup {None}
      /\ queued' \in BOOLEAN
  BY <1>0, SendKeeps
<1>3. count' \in [Kinds -> Nat]
  BY <1>0, CountedType DEF Kinds
<1>4. TypeOK'
  BY <1>0, <1>1, <1>2, <1>3 DEF TypeOK, Kinds
<1>5. (WasInitialized' => WasInitialized) /\ (initOn' # "no" => ~WasInitialized')
  BY <1>0, <1>1 DEF Tries, WasInitialized
<1>6. Buffered' /\ Ahead' /\ Tries' /\ InputsFollowPolls'
  BY <1>1, <1>5, SendMoves
<1> QED
  BY <1>4, <1>6 DEF IInv

LEMMA WriteKeeps ==
  ASSUME IInv, NEW p \in Outputs, NEW level \in BOOLEAN, Write(p, level)
  PROVE  IInv'
<1> DEFINE base == IF IsWriting THEN buffer ELSE currentState
<1>1. base \in Bytes /\ p \in Pins
  BY PinSets DEF IInv, TypeOK, Buffered
<1>2. Send([base EXCEPT ![p] = level])
  BY DEF Write
<1> HIDE DEF base
<1>3. [base EXCEPT ![p] = level] \in Bytes
  BY <1>1, SetLevel
<1> QED
  BY <1>2, <1>3, WriteStepKeeps DEF Write

LEMMA WriteStateKeeps ==
  ASSUME IInv, NEW levels \in [Outputs -> BOOLEAN], WriteState(levels)
  PROVE  IInv'
<1> DEFINE byte == [p \in Pins |-> IF p \in Outputs THEN levels[p] ELSE currentState[p]]
<1>1. byte \in Bytes
  BY DEF IInv, TypeOK, Bytes
<1>2. Send(byte)
  BY DEF WriteState
<1> HIDE DEF byte
<1> QED
  BY <1>1, <1>2, WriteStepKeeps DEF WriteState

(* A poll that is asked for, by pollOnce(), the interval or a debounce.    *)
LEMMA AskingKeeps ==
  ASSUME IInv, NEW s \in Slots, AskPoll(s) \/ UNCHANGED polls,
         UNCHANGED <<init, currentState, output, interval, pollLastData, pins, reverted>>,
         debouncing' \subseteq debouncing, count' \in [Kinds -> Nat]
  PROVE  IInv'
<1>0. TypeOK
  BY DEF IInv
<1>1. UNCHANGED <<step, tryTimer, initOn, writing, buffer, queued, currentState, interval,
                  pollLastData, pins, reverted>>
  BY DEF init, output
<1>2. polls' \in [Slots -> Polls]
  BY <1>0, AskPollType DEF TypeOK, Polls
<1>3. TypeOK'
  BY <1>0, <1>1, <1>2 DEF TypeOK, Kinds, Polls
<1>4. Buffered' /\ Ahead' /\ Tries' /\ InputsFollowPolls'
  BY <1>1, NothingMoves
<1> QED
  BY <1>3, <1>4 DEF IInv

-----------------------------------------------------------------------------
(* The bus and the end of a write.                                         *)
LEMMA ChipTakesKeeps ==
  ASSUME IInv, ChipTakes
  PROVE  IInv'
<1>0. TypeOK /\ Buffered /\ Ahead /\ Tries /\ InputsFollowPolls
  BY DEF IInv
<1>1. /\ IsWriting /\ writing \in Writes
      /\ writing' = [writing EXCEPT !.taken = TRUE]
      /\ pins' = [p \in Pins |-> IF p \in Outputs THEN writing.byte[p] ELSE pins[p]]
      /\ UNCHANGED <<step, tryTimer, initOn, currentState, buffer, queued, interval, polls,
                     pollLastData, debouncing, reverted, count>>
  BY <1>0 DEF ChipTakes, IsWriting, TypeOK, init, input
<1>2. writing' \in Writes /\ writing'.taken /\ writing'.byte = writing.byte
  BY <1>1 DEF Writes
<1>3. writing.byte \in Bytes /\ pins \in Bytes
  BY <1>0, <1>1 DEF Writes, TypeOK
<1>4. pins' \in Bytes /\ \A p \in Outputs : pins'[p] = writing.byte[p]
  BY <1>1, <1>3, PinSets DEF Bytes
<1>5. TypeOK'
  BY <1>0, <1>1, <1>2, <1>4 DEF TypeOK
<1>6. Buffered'
  BY <1>0, <1>1, <1>2, NoneAssumption DEF Buffered, IsWriting
<1>7. Ahead'
  BY <1>2, <1>4, NoneAssumption DEF Ahead, IsWriting
<1>8. Tries' /\ InputsFollowPolls'
  BY <1>0, <1>1 DEF Tries, InputsFollowPolls, WasInitialized
<1> QED
  BY <1>5, <1>6, <1>7, <1>8 DEF IInv

LEMMA WriteSucceedsKeeps ==
  ASSUME IInv, WriteSucceeds
  PROVE  IInv'
<1>0. TypeOK /\ Buffered /\ Ahead /\ Tries /\ InputsFollowPolls
  BY DEF IInv
<1>1. /\ IsWriting /\ writing.taken /\ writing \in Writes
      /\ currentState' = writing.byte
      /\ reverted' = reverted \cup {p \in Inputs : currentState'[p] # currentState[p]}
      /\ queued' = FALSE
      /\ UNCHANGED <<pollLastData, debouncing, pins, count>>
  BY <1>0 DEF WriteSucceeds, StateAfterWrite, IsWriting, TypeOK
<1>2. currentState' \in Bytes /\ \A p \in Outputs : currentState'[p] = pins'[p]
  BY <1>0, <1>1 DEF Ahead, Writes
<1>3. /\ writing' \in Writes \cup {None} /\ buffer' \in Bytes \cup {None}
      /\ writing' # None <=> buffer' # None
      /\ writing' # None => ~writing'.taken
  <2>1. CASE queued
    <3>1. writing' = [byte |-> buffer, taken |-> FALSE] /\ buffer' = buffer
      BY <2>1 DEF WriteSucceeds
    <3>2. buffer \in Bytes
      BY <1>0, <1>1 DEF Buffered, TypeOK
    <3>3. writing' \in Writes /\ ~writing'.taken
      BY <3>1, <3>2 DEF Writes
    <3> QED
      BY <3>1, <3>2, <3>3, NoneAssumption
  <2>2. CASE ~queued
    BY <2>2 DEF WriteSucceeds
  <2> QED
    BY <2>1, <2>2
<1>4. /\ step' \in {"setup", "trying", "failed", "done"}
      /\ tryTimer' \in {"off", "armed", "over"}
      /\ initOn' \in {"no", "pending", "finish"}
      /\ interval' \in BOOLEAN
      /\ initOn' # "no" => step' # "done"
  <2>1. CASE initOn = "pending"
    <3>1. step' = "done" /\ tryTimer' = "off" /\ initOn' = "no" /\ interval' = TRUE
      BY <2>1 DEF WriteSucceeds
    <3> QED
      BY <3>1
  <2>2. CASE initOn # "pending"
    <3>1. /\ initOn' = IF initOn = "finish" THEN "pending" ELSE initOn
          /\ UNCHANGED <<step, tryTimer, interval>>
      BY <2>2 DEF WriteSucceeds
    <3> QED
      BY <1>0, <3>1 DEF TypeOK, Tries, WasInitialized
  <2> QED
    BY <2>1, <2>2
<1>5. polls' \in [Slots -> Polls]
  <2>1. polls \in [Slots -> Polls]
    BY <1>0 DEF TypeOK, Polls
  <2>2. AskPoll(1) => polls' \in [Slots -> Polls]
    <3>1. [at |-> "asked", byte |-> NoData] \in Polls
      BY NoDataType DEF Polls
    <3> QED
      BY <2>1, <3>1 DEF AskPoll
  <2> QED
    BY <2>1, <2>2 DEF WriteSucceeds
<1>6. reverted' \subseteq Inputs
  BY <1>0, <1>1 DEF TypeOK
<1>7. TypeOK'
  BY <1>0, <1>1, <1>2, <1>3, <1>4, <1>5, <1>6 DEF TypeOK, Kinds, Polls
<1>8. Buffered' /\ Ahead' /\ Tries'
  BY <1>2, <1>3, <1>4 DEF Buffered, Ahead, Tries, IsWriting, WasInitialized
<1>9. InputsFollowPolls'
  BY <1>0, <1>1 DEF InputsFollowPolls
<1> QED
  BY <1>7, <1>8, <1>9 DEF IInv

LEMMA WriteFailsKeeps ==
  ASSUME IInv, WriteFails
  PROVE  IInv'
<1>0. TypeOK /\ Buffered /\ Ahead /\ Tries /\ InputsFollowPolls
  BY DEF IInv
<1>1. /\ ~writing.taken
      /\ Counted("fails", MaxFails) /\ queued' = FALSE
      /\ UNCHANGED <<currentState, interval, polls, pollLastData, debouncing, pins, reverted>>
  BY DEF WriteFails, input
<1>2. /\ writing' \in Writes \cup {None} /\ buffer' \in Bytes \cup {None}
      /\ writing' # None <=> buffer' # None
      /\ writing' # None => ~writing'.taken
      /\ step' \in {"trying", "failed", step} /\ tryTimer' \in {"armed", tryTimer}
      /\ initOn' \in {"no", "pending"}
      /\ initOn' # "no" => step' # "done"
      /\ step' = "done" => step = "done"
  <2>1. CASE initOn # "no" /\ tryTimer = "over"
    <3>1. /\ writing' = [byte |-> currentState, taken |-> FALSE] /\ buffer' = currentState
          /\ step' = "trying" /\ tryTimer' = "armed" /\ initOn' = "pending"
      BY <2>1 DEF WriteFails
    <3>2. currentState \in Bytes
      BY <1>0 DEF TypeOK
    <3>3. writing' \in Writes /\ ~writing'.taken
      BY <3>1, <3>2 DEF Writes
    <3> QED
      BY <3>1, <3>2, <3>3, NoneAssumption
  <2>2. CASE ~(initOn # "no" /\ tryTimer = "over")
    <3>1. /\ writing' = None /\ buffer' = None
          /\ step' = IF initOn # "no" THEN "failed" ELSE step
          /\ initOn' = "no" /\ tryTimer' = tryTimer
      BY <2>2 DEF WriteFails
    <3> QED
      BY <3>1
  <2> QED
    BY <2>1, <2>2
<1>3. count' \in [Kinds -> Nat]
  BY <1>0, <1>1, CountedType DEF Kinds
<1>4. TypeOK'
  BY <1>0, <1>1, <1>2, <1>3 DEF TypeOK, Kinds
<1>5. Buffered' /\ Tries'
  BY <1>2 DEF Buffered, Tries, IsWriting, WasInitialized
<1>6. Ahead'
  BY <1>0, <1>1, <1>2 DEF Ahead, IsWriting, WasInitialized
<1>7. InputsFollowPolls'
  BY <1>0, <1>1 DEF InputsFollowPolls
<1> QED
  BY <1>4, <1>5, <1>6, <1>7 DEF IInv

LEMMA TryTimeKeeps ==
  ASSUME IInv, TryTimeIsOver
  PROVE  IInv'
<1>0. TypeOK
  BY DEF IInv
<1>1. UNCHANGED <<currentState, input, pins, reverted, count>>
  BY DEF TryTimeIsOver
<1>2. CASE step = "failed"
  BY <1>0, <1>1, <1>2, TryKeeps DEF TryTimeIsOver, TypeOK, Kinds
<1>3. CASE step # "failed"
  <2>1. /\ tryTimer' = "over"
        /\ UNCHANGED <<step, initOn, writing, buffer, queued, currentState, interval, polls,
                       pollLastData, debouncing, pins, reverted, count>>
    BY <1>1, <1>3 DEF TryTimeIsOver, output, input
  <2>2. TypeOK'
    BY <1>0, <2>1 DEF TypeOK
  <2>3. Buffered' /\ Ahead' /\ Tries' /\ InputsFollowPolls'
    BY <2>1, NothingMoves
  <2> QED
    BY <2>2, <2>3 DEF IInv
<1> QED
  BY <1>2, <1>3

-----------------------------------------------------------------------------
(* Polling.                                                                *)
LEMMA PollEndsKeeps ==
  ASSUME IInv, NEW s \in Slots, ChipIsRead(s) \/ PollFails(s)
  PROVE  IInv'
<1>0. TypeOK /\ pins \in Bytes
  BY DEF IInv, TypeOK
<1>1. UNCHANGED <<step, tryTimer, initOn, writing, buffer, queued, currentState, interval,
                  pollLastData, debouncing, pins, reverted>>
  BY DEF ChipIsRead, PollFails, init, output
<1>2. polls' \in [Slots -> Polls]
  <2>1. polls \in [Slots -> Polls]
    BY <1>0 DEF TypeOK, Polls
  <2>2. [at |-> "read", byte |-> pins] \in Polls
    BY <1>0 DEF Polls
  <2> QED
    BY <2>1, <2>2, NoDataType DEF ChipIsRead, PollFails
<1>3. count' \in [Kinds -> Nat]
  BY <1>0, CountedType DEF ChipIsRead, PollFails, Kinds, TypeOK
<1>4. TypeOK'
  BY <1>0, <1>1, <1>2, <1>3 DEF TypeOK, Kinds, Polls
<1>5. Buffered' /\ Ahead' /\ Tries' /\ InputsFollowPolls'
  BY <1>1, NothingMoves
<1> QED
  BY <1>4, <1>5 DEF IInv

LEMMA PollReturnsKeeps ==
  ASSUME IInv, NEW s \in Slots, PollReturns(s)
  PROVE  IInv'
<1>0. TypeOK /\ Buffered /\ Ahead /\ Tries /\ InputsFollowPolls
  BY DEF IInv
<1> DEFINE byte == polls[s].byte
           now == IF byte = pollLastData THEN {} ELSE New(byte) \ Debounced
<1>1. /\ pollLastData' = byte
      /\ currentState' = [p \in Pins |-> IF p \in now THEN byte[p] ELSE currentState[p]]
      /\ reverted' = reverted \ now
      /\ polls' = [polls EXCEPT ![s] = NoPoll]
      /\ UNCHANGED <<step, tryTimer, initOn, writing, buffer, queued, interval, pins, count>>
  BY DEF PollReturns, init, output
<1>2. debouncing' \subseteq Debounced
  BY <1>0 DEF PollReturns, TypeOK
<1>3. byte \in Bytes /\ currentState \in Bytes /\ polls \in [Slots -> Polls]
  BY <1>0 DEF TypeOK, Polls
<1>4. /\ now \subseteq Inputs
      /\ byte # pollLastData => \A p \in Inputs \ now : p \notin Debounced => byte[p] = currentState[p]
      /\ byte = pollLastData => now = {}
  BY DEF New, Heeded
<1> HIDE DEF byte, now
<1>5. /\ currentState' \in Bytes
      /\ \A p \in Pins : currentState'[p] = IF p \in now THEN byte[p] ELSE currentState[p]
  BY <1>1, <1>3 DEF Bytes
<1>6. polls' \in [Slots -> Polls]
  BY <1>1, <1>3, NoDataType
<1>7. TypeOK'
  BY <1>0, <1>1, <1>2, <1>3, <1>5, <1>6 DEF TypeOK, Kinds, Polls
<1>8. Buffered' /\ Tries'
  BY <1>0, <1>1 DEF Buffered, Tries, IsWriting, WasInitialized
<1>9. Ahead'
  <2>1. \A p \in Outputs : currentState'[p] = currentState[p]
    BY <1>4, <1>5, PinSets, PinsAssumption
  <2> QED
    BY <1>0, <1>1, <2>1 DEF Ahead, IsWriting, WasInitialized
<1>10. InputsFollowPolls'
  <2> SUFFICES ASSUME NEW p \in Inputs \ (Debounced \cup reverted')
               PROVE  currentState'[p] = byte[p]
    BY <1>1 DEF InputsFollowPolls
  <2>1. CASE p \in now
    BY <1>5, <2>1, PinSets
  <2>2. CASE p \notin now /\ byte # pollLastData
    BY <1>4, <1>5, <2>2, PinSets
  <2>3. CASE p \notin now /\ byte = pollLastData
    <3>1. p \notin reverted /\ pollLastData # None
      BY <1>1, <1>3, <2>3, NoneAssumption
    <3> QED
      BY <1>0, <1>5, <2>3, <3>1, PinSets DEF InputsFollowPolls
  <2> QED
    BY <2>1, <2>2, <2>3
<1> QED
  BY <1>7, <1>8, <1>9, <1>10 DEF IInv

LEMMA PinChangesKeeps ==
  ASSUME IInv, NEW p \in Inputs, PinChanges(p)
  PROVE  IInv'
<1>0. TypeOK /\ Buffered /\ Ahead /\ Tries /\ InputsFollowPolls
  BY DEF IInv
<1>1. /\ pins' = [pins EXCEPT ![p] = ~pins[p]]
      /\ Counted("changes", MaxChanges)
      /\ UNCHANGED <<step, tryTimer, initOn, writing, buffer, queued, currentState, interval,
                     polls, pollLastData, debouncing, reverted>>
  BY DEF PinChanges, init, output, input
<1>2. pins \in [Pins -> BOOLEAN]
  BY <1>0 DEF TypeOK, Bytes
<1>3. pins' \in Bytes
  BY <1>1, <1>2, Zenon DEF Bytes
<1>4. \A q \in Outputs : pins'[q] = pins[q]
  BY <1>1, <1>2, PinSets, PinsAssumption
<1>5. count' \in [Kinds -> Nat]
  BY <1>0, <1>1, CountedType DEF Kinds
<1>6. TypeOK'
  BY <1>0, <1>1, <1>3, <1>5 DEF TypeOK, Kinds
<1>7. Buffered' /\ Tries' /\ InputsFollowPolls'
  BY <1>0, <1>1 DEF Buffered, Tries, InputsFollowPolls, IsWriting, WasInitialized
<1>8. Ahead'
  BY <1>0, <1>1, <1>4 DEF Ahead, IsWriting, WasInitialized
<1> QED
  BY <1>6, <1>7, <1>8 DEF IInv

-----------------------------------------------------------------------------
(* The inductive invariant.                                                *)
LEMMA InitHolds ==
  ASSUME Init
  PROVE  IInv
<1>1. currentState \in Bytes /\ pins \in Bytes
  BY DEF Init, Bytes
<1>2. polls \in [Slots -> Polls]
  BY NoDataType DEF Init
<1>3. count \in [Kinds -> Nat]
  BY DEF Init, Kinds
<1>4. TypeOK
  BY <1>1, <1>2, <1>3 DEF Init, TypeOK, Kinds, Polls
<1>5. Buffered /\ Ahead /\ Tries /\ InputsFollowPolls
  BY DEF Init, Buffered, Ahead, Tries, InputsFollowPolls, IsWriting, WasInitialized
<1> QED
  BY <1>4, <1>5 DEF IInv

LEMMA StepKeeps ==
  ASSUME IInv, [Next]_vars
  PROVE  IInv'
<1>0. count \in [Kinds -> Nat] /\ TypeOK
  BY DEF IInv, TypeOK, Kinds
<1>1. CASE UNCHANGED vars
  <2>1. UNCHANGED <<step, tryTimer, initOn, writing, buffer, queued, currentState, interval,
                    polls, pollLastData, debouncing, pins, reverted, count>>
    BY <1>1 DEF vars, init, output, input
  <2>2. TypeOK'
    BY <1>0, <2>1 DEF TypeOK
  <2> QED
    BY <2>1, <2>2, NothingMoves DEF IInv
<1>2. ASSUME NEW s \in Slots, PollOnce(s)
      PROVE  IInv'
  <2>1. /\ AskPoll(s) /\ Counted("reads", MaxReads)
        /\ UNCHANGED <<init, currentState, output, interval, pollLastData, debouncing, pins, reverted>>
    BY <1>2 DEF PollOnce, Restart
  <2>2. count' \in [Kinds -> Nat]
    BY <1>0, <2>1, CountedType DEF Kinds
  <2> QED
    BY <2>1, <2>2, AskingKeeps
<1>3. ASSUME NEW s \in Slots, IntervalFires(s)
      PROVE  IInv'
  BY <1>0, <1>3, AskingKeeps DEF IntervalFires
<1>4. ASSUME NEW p \in Inputs, DebounceEnds(p)
      PROVE  IInv'
  <2>1. /\ debouncing' \subseteq debouncing
        /\ UNCHANGED <<init, currentState, output, interval, pollLastData, pins, reverted, count>>
    BY <1>4 DEF DebounceEnds, Restart
  <2>2. CASE \E s \in Slots : AskPoll(s)
    BY <1>0, <2>1, <2>2, AskingKeeps
  <2>3. CASE UNCHANGED polls
    <3>1. UNCHANGED <<step, tryTimer, initOn, writing, buffer, queued, currentState, interval,
                      polls, pollLastData, pins, reverted, count>>
      BY <2>1, <2>3 DEF init, output
    <3>2. TypeOK'
      BY <1>0, <2>1, <3>1 DEF TypeOK
    <3> QED
      BY <3>1, <3>2, NothingMoves DEF IInv
  <2> QED
    BY <1>4, <2>2, <2>3 DEF DebounceEnds, Restart
<1>5. ASSUME NEW s \in Slots, ChipIsRead(s) \/ PollFails(s) \/ PollReturns(s)
      PROVE  IInv'
  BY <1>5, PollEndsKeeps, PollReturnsKeeps
<1>6. ASSUME NEW p \in Outputs, NEW level \in BOOLEAN, SetUpLevel(p, level) \/ Write(p, level)
      PROVE  IInv'
  BY <1>6, SetUpLevelKeeps, WriteKeeps
<1>7. ASSUME NEW levels \in [Outputs -> BOOLEAN], WriteState(levels)
      PROVE  IInv'
  BY <1>7, WriteStateKeeps
<1>8. ASSUME InitIc \/ ChipTakes \/ WriteSucceeds \/ WriteFails \/ TryTimeIsOver
      PROVE  IInv'
  BY <1>8, InitIcKeeps, ChipTakesKeeps, WriteSucceedsKeeps, WriteFailsKeeps, TryTimeKeeps
<1>9. ASSUME NEW p \in Inputs, PinChanges(p)
      PROVE  IInv'
  BY <1>9, PinChangesKeeps
<1> QED
  BY <1>1, <1>2, <1>3, <1>4, <1>5, <1>6, <1>7, <1>8, <1>9 DEF Next

LEMMA Inductive == Spec => []IInv
<1>1. Init => IInv
  BY InitHolds
<1>2. IInv /\ [Next]_vars => IInv'
  BY StepKeeps
<1> QED
  BY <1>1, <1>2, PTL DEF Spec

-----------------------------------------------------------------------------
(* Every variable keeps its type; a queued write finds a byte to send.     *)
THEOREM TypeCorrect == Spec => []TypeOK
<1>1. IInv => TypeOK
  BY DEF IInv
<1> QED
  BY <1>1, Inductive, PTL

(* Between writes the driver knows the outputs, however many polls were    *)
(* under way during the writes and however often initIc() was tried.       *)
THEOREM OutputsKnown == Spec => []OutputsAreKnown
<1>1. IInv => OutputsAreKnown
  BY DEF IInv, Ahead, OutputsAreKnown
<1> QED
  BY <1>1, Inductive, PTL

(* A level that was polled at an input without a debounce is taken over,   *)
(* and only the end of a write sets it back.                               *)
THEOREM PollsAreFollowed == Spec => []InputsFollowPolls
<1>1. IInv => InputsFollowPolls
  BY DEF IInv
<1> QED
  BY <1>1, Inductive, PTL
=============================================================================
