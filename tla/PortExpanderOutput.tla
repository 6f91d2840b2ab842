------------------------- MODULE PortExpanderOutput -------------------------
(***************************************************************************)
(* system/lib/logic/DigitalPortExpanderOutputLogic.ts over QueueOverride   *)
(* and DebounceCall: the output pins of a chip that are written together.  *)
(* Levels asked for are collected in a buffer before a write (while the    *)
(* debounce lasts) and in another during a write; the latter is what the   *)
(* next write sends.                                                       *)
(*                                                                         *)
(* A byte is a function from the pins to levels.  A step is one macrotask  *)
(* with its promise reactions: the reactions of a write that was answered  *)
(* are the only ones of their macrotask, so no caller comes between them.  *)
(* The chip and its bus are external: a write is sent, taken by the chip   *)
(* and answered, or fails, or is never answered.                           *)
(***************************************************************************)
EXTENDS Naturals, FiniteSets, QueueOverride

CONSTANTS
  Pins,
  Users,       \* callers of write() and writeState()
  None,        \* undefined, as a buffer
  MaxRequests, \* bound: calls of write() and writeState()
  MaxCancels,  \* bound: calls of cancel()
  InitialBytes \* what the chip may hold at first

ASSUME BoundsAssumption == MaxRequests \in Nat /\ MaxCancels \in Nat

Bytes == [Pins -> BOOLEAN]

ASSUME InitialAssumption == InitialBytes \subseteq Bytes
ASSUME NoneAssumption == None \notin Bytes

VARIABLES
  buffered,            \* whether writeBufferMs is set
  currentState,        \* what getState returns and setState sets
  beforeWritingBuffer, \* a byte or None
  writingTimeBuffer,   \* a byte or None
  debouncing,          \* the debounce has an item, and its timer is armed
  queue,               \* the QueueOverride
  calls,               \* calls of doWriteCb that go on: [n, byte, at]
  lastCall,            \* number of the last of them
  chip,                \* what the chip holds
  user,                \* by user: what its promise waits for, and for which of
                       \* the pins nobody has asked for another level since
  requests, cancels,   \* how many there were
  asked,               \* history: the level last asked for, by pin; what was
                       \* refused or given up is not asked for any more
  givenUp              \* history: a write has been given up on

vars == <<buffered, currentState, beforeWritingBuffer, writingTimeBuffer,
          debouncing, queue, calls, lastCall, chip, user, requests, cancels,
          asked, givenUp>>

-----------------------------------------------------------------------------
(* A call of doWriteCb sends what the buffer holds now.                    *)
Call(n, byte) == [n |-> n, byte |-> byte, at |-> "sent"]

Waiting == {"debounce", "pending", "finish"}

Told(result) == [on |-> result, pins |-> {}]

(* The promises on `on` are settled.                                       *)
Settle(on, result) ==
  [u \in Users |-> IF user[u].on \in on THEN Told(result) ELSE user[u]]

(* A mutant: who waits for the queued callback is told with the first one. *)
AllSucceed == Settle({"pending", "finish"}, "resolved")

(* The item's promise is resolved.  startQueue makes the promise of the    *)
(* queued callback depend on that of the call it starts.                   *)
PendingSucceeds ==
  [u \in Users |->
     CASE user[u].on = "pending" -> Told("resolved")
       [] user[u].on = "finish" /\ HasQueue(queue) ->
            [user[u] EXCEPT !.on = "pending"]
       [] OTHER -> user[u]]

(* startWriting, and queue.add of the bound doWriteCb                      *)
AddDoWriteCb(byte) ==
  /\ queue' = AddCb(queue, lastCall + 1)
  /\ IF IsPending(queue) THEN UNCHANGED <<calls, lastCall>>
     ELSE /\ lastCall' = lastCall + 1
          /\ calls' = calls \cup {Call(lastCall', byte)}

-----------------------------------------------------------------------------
(* The API.                                                                *)

(* Of what the others wait for, the pins that user u asks for anew.        *)
Overridden(w, pins) == [w EXCEPT !.pins = @ \ pins]

Asks(u, pins, on) ==
  /\ user[u].on \notin Waiting \cup {"lost"}
  /\ requests < MaxRequests
  /\ requests' = requests + 1
  /\ user' = [v \in Users |-> IF v = u THEN [on |-> on, pins |-> pins]
                             ELSE Overridden(user[v], pins)]

QueuedOrPending == IF IsPending(queue) THEN "finish" ELSE "pending"

Set(byte, p, level) == [byte EXCEPT ![p] = level]

(* A mutant: a level asked for during a write starts from the current one. *)
BufferFromState == currentState

(* What the levels of a writing request are added to.                      *)
WriteBase == IF IsPending(queue) THEN writingTimeBuffer ELSE currentState

(* write() during a write, or without buffering.  invokeAtWritingTime      *)
(* throws if there is no buffer.                                           *)
WritePin(u, p, level) ==
  /\ IsPending(queue) \/ ~buffered
  /\ IF WriteBase = None
     THEN /\ Asks(u, {}, "rejected")
          /\ UNCHANGED <<writingTimeBuffer, queue, calls, lastCall, asked>>
     ELSE /\ Asks(u, {p}, QueuedOrPending)
          /\ writingTimeBuffer' = Set(WriteBase, p, level)
          /\ AddDoWriteCb(writingTimeBuffer')
          /\ asked' = Set(asked, p, level)
  /\ UNCHANGED <<buffered, currentState, beforeWritingBuffer, debouncing, chip,
                 cancels, givenUp>>

(* write() with buffering: invokeBuffering, DebounceCall.invoke            *)
BufferPin(u, p, level) ==
  /\ ~IsPending(queue) /\ buffered
  /\ Asks(u, {p}, "debounce")
  /\ beforeWritingBuffer' =
       Set(IF beforeWritingBuffer = None THEN currentState
           ELSE beforeWritingBuffer, p, level)
  /\ debouncing' = TRUE
  /\ asked' = Set(asked, p, level)
  /\ UNCHANGED <<buffered, currentState, writingTimeBuffer, queue, calls,
                 lastCall, chip, cancels, givenUp>>

(* DebounceCall.clear loses the promise of the debounce.                   *)
Lost(w) == IF w.on = "debounce" THEN Told("lost") ELSE w

WriteState(u, byte) ==
  /\ user[u].on \notin Waiting \cup {"lost"}
  /\ requests < MaxRequests
  /\ requests' = requests + 1
  /\ user' = [v \in Users |->
                IF v = u THEN [on |-> QueuedOrPending, pins |-> Pins]
                ELSE IF beforeWritingBuffer # None THEN Lost(user[v])
                ELSE Overridden(user[v], Pins)]
  /\ beforeWritingBuffer' = None
  /\ debouncing' = (debouncing /\ beforeWritingBuffer = None)
  /\ writingTimeBuffer' = byte
  /\ AddDoWriteCb(byte)
  /\ asked' = byte
  /\ UNCHANGED <<buffered, currentState, chip, cancels, givenUp>>

(* cancel(): the promises of the queue are resolved.                       *)
Cancel ==
  /\ cancels < MaxCancels
  /\ cancels' = cancels + 1
  /\ beforeWritingBuffer' = None
  /\ writingTimeBuffer' = None
  /\ debouncing' = FALSE
  /\ queue' = EndItem(queue)
  /\ user' = [u \in Users |->
                IF user[u].on \in {"pending", "finish"}
                THEN Told("resolved") ELSE Lost(user[u])]
  /\ asked' = chip
  /\ givenUp' = (givenUp \/ calls # {})
  /\ UNCHANGED <<buffered, currentState, calls, lastCall, chip, requests>>

-----------------------------------------------------------------------------
(* Timers, the chip and its answers.                                       *)

(* The debounce is over: DebounceCall.callCb, startWriting. Its promise is *)
(* resolved when the write starts.                                         *)
DebounceEnds ==
  /\ debouncing
  /\ debouncing' = FALSE
  /\ user' = Settle({"debounce"}, "resolved")
  /\ beforeWritingBuffer' = None
  /\ IF beforeWritingBuffer = None
     THEN UNCHANGED <<writingTimeBuffer, queue, calls, lastCall>>
     ELSE /\ writingTimeBuffer' = beforeWritingBuffer
          /\ AddDoWriteCb(beforeWritingBuffer)
  /\ UNCHANGED <<buffered, currentState, chip, requests, cancels, asked,
                 givenUp>>

(* Timer t of a call fires.  The call itself goes on.                      *)
Timeout(t) ==
  /\ t \in queue.armed
  /\ queue' = HandleJobTimeout(queue, t)
  /\ user' = Settle({"pending", "finish"}, "rejected")
  /\ asked' = chip
  /\ givenUp' = TRUE
  /\ UNCHANGED <<buffered, currentState, beforeWritingBuffer, writingTimeBuffer,
                 debouncing, calls, lastCall, chip, requests, cancels>>

ChipTakes(c) ==
  /\ c.at = "sent"
  /\ chip' = c.byte
  /\ calls' = (calls \ {c}) \cup {[c EXCEPT !.at = "taken"]}
  /\ UNCHANGED <<buffered, currentState, beforeWritingBuffer, writingTimeBuffer,
                 debouncing, queue, lastCall, user, requests, cancels, asked,
                 givenUp>>

(* doWriteCb ends, then handleCbSuccess calls what is queued, which sends  *)
(* what the buffer holds.                                                  *)
WriteSucceeds(c) ==
  /\ c.at = "taken"
  /\ currentState' = c.byte
  /\ queue' = HandleCbSuccess(queue, lastCall + 1)
  /\ user' = PendingSucceeds
  /\ IF HasQueue(queue)
     THEN /\ lastCall' = lastCall + 1
          /\ calls' = (calls \ {c}) \cup {Call(lastCall', writingTimeBuffer)}
          /\ UNCHANGED writingTimeBuffer
     ELSE /\ calls' = calls \ {c}
          /\ writingTimeBuffer' = None
          /\ UNCHANGED lastCall
  /\ UNCHANGED <<buffered, beforeWritingBuffer, debouncing, chip, requests,
                 cancels, asked, givenUp>>

(* The write was refused: doWriteCb throws, handleCbError.                 *)
WriteFails(c) ==
  /\ c.at = "sent"
  /\ calls' = calls \ {c}
  /\ writingTimeBuffer' = None
  /\ queue' = EndItem(queue)
  /\ user' = Settle({"pending", "finish"}, "rejected")
  /\ asked' = IF IsPending(queue) THEN chip ELSE asked
  /\ UNCHANGED <<buffered, currentState, beforeWritingBuffer, debouncing,
                 lastCall, chip, requests, cancels, givenUp>>

-----------------------------------------------------------------------------
(* The driver has written its state to the chip before anyone may write.   *)
Init ==
  /\ buffered \in BOOLEAN
  /\ currentState \in InitialBytes
  /\ chip = currentState
  /\ beforeWritingBuffer = None
  /\ writingTimeBuffer = None
  /\ debouncing = FALSE
  /\ queue = NoItems
  /\ calls = {}
  /\ lastCall = 0
  /\ user = [u \in Users |-> Told("idle")]
  /\ requests = 0
  /\ cancels = 0
  /\ asked = currentState
  /\ givenUp = FALSE

Next ==
  \/ \E u \in Users, p \in Pins, level \in BOOLEAN :
       WritePin(u, p, level) \/ BufferPin(u, p, level)
  \/ \E u \in Users, byte \in Bytes : WriteState(u, byte)
  \/ Cancel
  \/ DebounceEnds
  \/ \E t \in queue.armed : Timeout(t)
  \/ \E c \in calls : ChipTakes(c) \/ WriteSucceeds(c) \/ WriteFails(c)

Spec == Init /\ [][Next]_vars

(* Timers fire; neither the chip nor the callers have to do anything.      *)
FairSpec ==
  /\ Spec
  /\ WF_vars(DebounceEnds)
  /\ WF_vars(\E t \in queue.armed : Timeout(t))

-----------------------------------------------------------------------------
(* Properties.                                                             *)

(* Type invariant.  A call always finds a buffer to send.                  *)
TypeOK ==
  /\ buffered \in BOOLEAN
  /\ currentState \in Bytes
  /\ beforeWritingBuffer \in Bytes \cup {None}
  /\ writingTimeBuffer \in Bytes \cup {None}
  /\ debouncing \in BOOLEAN
  /\ queue \in [item : {"none", "pending", "queued"}, handle : Nat, armed : SUBSET Nat]
  /\ calls \in SUBSET [n : Nat, byte : Bytes, at : {"sent", "taken"}]
  /\ lastCall \in Nat
  /\ chip \in Bytes
  /\ user \in [Users -> [on : Waiting \cup {"idle", "resolved", "rejected", "lost"},
                         pins : SUBSET Pins]]
  /\ requests \in Nat /\ cancels \in Nat
  /\ asked \in Bytes
  /\ givenUp \in BOOLEAN

(* One timer is armed while a callback is pending, and its handle is kept; *)
(* otherwise none is: no call is left without a timeout, and no timer of a *)
(* call that has ended gives up on a later one.                            *)
ItemHasItsTimer ==
  /\ queue.armed = IF IsPending(queue) THEN {queue.handle} ELSE {}
  /\ IsPending(queue) => queue.handle # 0

(* Nothing that was asked for is lost, and nothing that was refused comes  *)
(* back: until a write is given up on, the levels last asked for are those *)
(* being collected, or those the pending or the queued write will leave,   *)
(* or those the chip holds; and getState then tells what the chip holds.   *)
NothingIsLost ==
  ~givenUp =>
    IF IsPending(queue)
    THEN writingTimeBuffer = asked /\ ~debouncing
    ELSE /\ asked = IF debouncing THEN beforeWritingBuffer ELSE chip
         /\ currentState = chip

(* Whose promise a step resolves.                                          *)
Resolves(u) == user'[u].on = "resolved" /\ user[u].on # "resolved"

(* A call of doWriteCb that the queue has given up on is under way beside  *)
(* that of the pending item.                                               *)
LateCall == \E c, d \in calls : c # d

(* When the promise of a pending or queued write is resolved, and not by   *)
(* cancel(), the chip holds the levels it asked for, unless somebody has   *)
(* asked for other ones since.                                             *)
ToldWhenWritten ==
  \A u \in Users :
    (Resolves(u) /\ user[u].on \in {"pending", "finish"} /\ UNCHANGED cancels)
    => \A p \in user[u].pins : chip[p] = asked[p]

(* When the promise of a buffered write is resolved, the write is not done *)
(* but starts, with the levels it asked for (DebounceCall resolves when    *)
(* its callback has been called, and that does not wait for startWriting,  *)
(* lines 113-125).                                                         *)
ToldWhenStarted ==
  \A u \in Users :
    (Resolves(u) /\ user[u].on = "debounce")
    => \E c \in calls' : /\ c.n = lastCall' /\ c.n # lastCall
                         /\ \A p \in user[u].pins : c.byte[p] = asked[p]

(* What a resolved promise tells: of a buffered write that its levels are  *)
(* being sent, of any other that the chip has them.  This holds over       *)
(* timeouts, failures and cancels too, as long as no call that was given   *)
(* up on is still under way when the promise is resolved; what such a call *)
(* does is LateAnswerIsIgnored.                                            *)
ResolvedMeansWritten == [][(LateCall \/ ToldWhenWritten) /\ ToldWhenStarted]_vars

(* "return a promise that will be resolved after cb is finished"           *)
(* (QueueOverride.ts:99): a call that was given up on and is answered      *)
(* later does not resolve the promise of another one.                      *)
LateAnswerIsIgnored == [][ToldWhenWritten]_vars

(* Every promise of a write is settled, even if the chip never answers, or *)
(* is lost by a cancel() or writeState() during the debounce.              *)
PromisesSettle ==
  \A u \in Users :
    user[u].on \in Waiting ~> user[u].on \notin Waiting

(* "no writingTimeBuffer": a write during a write finds its buffer, and so *)
(* does the queued callback: a call that was given up on and is answered   *)
(* after all deletes the buffer only together with the queue's item.       *)
WriteFindsItsBuffer == IsPending(queue) => writingTimeBuffer # None
=============================================================================
