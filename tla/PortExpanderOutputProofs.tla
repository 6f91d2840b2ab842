----------------------- MODULE PortExpanderOutputProofs -----------------------
(***************************************************************************)
(* Safety of PortExpanderOutput for any number of pins and users: each     *)
(* call has its timer, nothing that was asked for is lost, and a promise   *)
(* that is resolved tells of its own write.                                *)
(*                                                                         *)
(* That nothing is lost holds until a write is given up on.  Until then    *)
(* there is exactly one call while the queue has an item (Running), and    *)
(* what it sends is what was asked for unless another one is queued.  What *)
(* promises tell holds also later, whenever no call that was given up on   *)
(* is under way (PInv).                                                    *)
(***************************************************************************)
EXTENDS PortExpanderOutput, TLAPS

(* The debounce and its buffer come and go together.                       *)
Debounce ==
  /\ debouncing <=> beforeWritingBuffer # None
  /\ debouncing => buffered

(* The call under way, and what it will leave in the chip.                 *)
Running ==
  ~givenUp =>
    /\ IsPending(queue) <=> calls # {}
    /\ \A c, d \in calls : c = d
    /\ \A c \in calls : c.at = "sent" => currentState = chip
    /\ \A c \in calls : c.at = "taken" => chip = c.byte
    /\ ~HasQueue(queue) => \A c \in calls : c.byte = asked

IInv ==
  /\ TypeOK
  /\ ItemHasItsTimer
  /\ WriteFindsItsBuffer
  /\ Debounce
  /\ Running
  /\ NothingIsLost

States == Waiting \cup {"idle", "resolved", "rejected", "lost"}
UserType == [on : States, pins : SUBSET Pins]
CallType == [n : Nat, byte : Bytes, at : {"sent", "taken"}]
QueueType == [item : {"none", "pending", "queued"}, handle : Nat, armed : SUBSET Nat]

(* TypeOK with its sets named.                                             *)
Typed ==
  /\ buffered \in BOOLEAN /\ currentState \in Bytes
  /\ beforeWritingBuffer \in Bytes \cup {None} /\ writingTimeBuffer \in Bytes \cup {None}
  /\ debouncing \in BOOLEAN /\ queue \in QueueType
  /\ calls \in SUBSET CallType /\ lastCall \in Nat
  /\ chip \in Bytes /\ user \in [Users -> UserType]
  /\ requests \in Nat /\ cancels \in Nat
  /\ asked \in Bytes /\ givenUp \in BOOLEAN

LEMMA TypedIs == (TypeOK <=> Typed) /\ (TypeOK' <=> Typed')
BY DEF TypeOK, Typed, UserType, QueueType, CallType, States

-----------------------------------------------------------------------------
(* The queue of one id.                                                    *)
Timed(oq) ==
  /\ oq.armed = IF IsPending(oq) THEN {oq.handle} ELSE {}
  /\ IsPending(oq) => oq.handle # 0

LEMMA AddCbKeeps ==
  ASSUME NEW oq \in QueueType, Timed(oq), NEW n \in Nat \ {0}
  PROVE  /\ AddCb(oq, n) \in QueueType /\ Timed(AddCb(oq, n))
         /\ IsPending(AddCb(oq, n))
         /\ HasQueue(AddCb(oq, n)) <=> IsPending(oq)
BY DEF QueueType, Timed, IsPending, HasQueue, AddCb, StartCb

LEMMA SuccessKeeps ==
  ASSUME NEW oq \in QueueType, Timed(oq), NEW n \in Nat \ {0}
  PROVE  /\ HandleCbSuccess(oq, n) \in QueueType /\ Timed(HandleCbSuccess(oq, n))
         /\ IsPending(HandleCbSuccess(oq, n)) <=> HasQueue(oq)
         /\ ~HasQueue(HandleCbSuccess(oq, n))
BY DEF QueueType, Timed, IsPending, HasQueue, HandleCbSuccess, StartCb, ClearTimeout, DeleteItem

LEMMA EndItemKeeps ==
  ASSUME NEW oq \in QueueType, Timed(oq)
  PROVE  /\ EndItem(oq) \in QueueType /\ Timed(EndItem(oq))
         /\ ~IsPending(EndItem(oq)) /\ ~HasQueue(EndItem(oq))
BY DEF QueueType, Timed, IsPending, HasQueue, EndItem, ClearTimeout, DeleteItem

LEMMA TimeoutKeeps ==
  ASSUME NEW oq \in QueueType, Timed(oq), NEW t \in oq.armed
  PROVE  HandleJobTimeout(oq, t) \in QueueType /\ Timed(HandleJobTimeout(oq, t))
BY DEF QueueType, Timed, IsPending, HandleJobTimeout, DeleteItem

LEMMA PendingIfQueued ==
  ASSUME NEW oq, HasQueue(oq)
  PROVE  IsPending(oq)
BY DEF HasQueue, IsPending

-----------------------------------------------------------------------------
(* Records of users and of calls.                                          *)
LEMMA ToldType ==
  ASSUME NEW how \in States
  PROVE  Told(how) \in UserType /\ Told(how).on = how /\ Told(how).pins = {}
BY DEF Told, UserType

LEMMA SettleType ==
  ASSUME TypeOK, NEW on, NEW how \in States
  PROVE  /\ Settle(on, how) \in [Users -> UserType]
         /\ \A u \in Users : Settle(on, how)[u] = IF user[u].on \in on THEN Told(how) ELSE user[u]
<1>1. user \in [Users -> UserType]
  BY DEF TypeOK, UserType, States
<1> QED
  BY <1>1, ToldType DEF Settle

LEMMA CallIs ==
  ASSUME NEW n \in Nat, NEW byte \in Bytes
  PROVE  /\ Call(n, byte) \in CallType
         /\ Call(n, byte).at = "sent" /\ Call(n, byte).byte = byte
BY DEF Call, CallType

LEMMA SetType ==
  ASSUME NEW byte \in Bytes, NEW p \in Pins, NEW level \in BOOLEAN
  PROVE  /\ Set(byte, p, level) \in Bytes
         /\ \A q \in Pins \ {p} : Set(byte, p, level)[q] = byte[q]
BY DEF Set, Bytes

(* What a request does to those who wait.                                  *)
LEMMA AsksKeeps ==
  ASSUME TypeOK, NEW u \in Users, NEW pins \in SUBSET Pins, NEW on \in States, Asks(u, pins, on)
  PROVE  /\ user' \in [Users -> UserType]
         /\ user[u].on \notin Waiting
         /\ user'[u].on = on /\ user'[u].pins = pins
         /\ \A v \in Users \ {u} : /\ user'[v].on = user[v].on
                                   /\ user'[v].pins = user[v].pins \ pins
         /\ requests' \in Nat
<1>1. user \in [Users -> UserType] /\ requests \in Nat
  BY DEF TypeOK, UserType, States
<1>2. user' = [v \in Users |-> IF v = u THEN [on |-> on, pins |-> pins]
                             ELSE [user[v] EXCEPT !.pins = @ \ pins]]
  BY DEF Asks, Overridden
<1>3. [on |-> on, pins |-> pins] \in UserType
  BY DEF UserType
<1>4. ASSUME NEW v \in Users
      PROVE  /\ [user[v] EXCEPT !.pins = @ \ pins] \in UserType
             /\ [user[v] EXCEPT !.pins = @ \ pins].on = user[v].on
             /\ [user[v] EXCEPT !.pins = @ \ pins].pins = user[v].pins \ pins
  <2>1. user[v] \in UserType
    BY <1>1
  <2> QED
    BY <2>1 DEF UserType
<1>5. user' \in [Users -> UserType]
  BY <1>2, <1>3, <1>4
<1>6. user'[u] = [on |-> on, pins |-> pins]
  BY <1>2
<1>7. \A v \in Users \ {u} : user'[v] = [user[v] EXCEPT !.pins = @ \ pins]
  BY <1>2
<1>8. user[u].on \notin Waiting /\ requests' \in Nat
  BY <1>1 DEF Asks
<1>9. user'[u].on = on /\ user'[u].pins = pins
  BY <1>6
<1>10. \A v \in Users \ {u} : user'[v].on = user[v].on /\ user'[v].pins = user[v].pins \ pins
  BY <1>4, <1>7
<1> QED
  BY <1>5, <1>8, <1>9, <1>10

(* A callback is added to the queue: it is called, or waits.               *)
LEMMA AddDoWriteCbKeeps ==
  ASSUME TypeOK, ItemHasItsTimer, NEW byte \in Bytes, AddDoWriteCb(byte)
  PROVE  /\ queue' \in QueueType /\ Timed(queue')
         /\ IsPending(queue') /\ (HasQueue(queue') <=> IsPending(queue))
         /\ calls' \in SUBSET CallType /\ lastCall' \in Nat
         /\ IsPending(queue) => calls' = calls
         /\ ~IsPending(queue) => calls' = calls \cup {Call(lastCall + 1, byte)}
<1>1. queue \in QueueType /\ Timed(queue) /\ lastCall \in Nat /\ calls \in SUBSET CallType
  BY DEF TypeOK, QueueType, CallType, ItemHasItsTimer, Timed
<1>2. lastCall + 1 \in Nat \ {0}
  BY <1>1
<1>3. queue' = AddCb(queue, lastCall + 1)
  BY DEF AddDoWriteCb
<1>4. Call(lastCall + 1, byte) \in CallType
  BY <1>2, CallIs
<1>5. /\ queue' \in QueueType /\ Timed(queue')
      /\ IsPending(queue') /\ (HasQueue(queue') <=> IsPending(queue))
  BY <1>1, <1>2, <1>3, AddCbKeeps
<1>6. CASE IsPending(queue)
  BY <1>1, <1>5, <1>6 DEF AddDoWriteCb
<1>7. CASE ~IsPending(queue)
  <2>1. lastCall' = lastCall + 1 /\ calls' = calls \cup {Call(lastCall + 1, byte)}
    BY <1>7 DEF AddDoWriteCb
  <2> QED
    BY <1>1, <1>2, <1>4, <1>5, <1>7, <2>1
<1> QED
  BY <1>6, <1>7

-----------------------------------------------------------------------------
(* One lemma per action.                                                   *)
LEMMA Types ==
  ASSUME TypeOK
  PROVE  /\ user \in [Users -> UserType] /\ queue \in QueueType
         /\ calls \in SUBSET CallType /\ lastCall \in Nat
         /\ \A c \in calls : c \in CallType /\ c.byte \in Bytes /\ c.n \in Nat
BY DEF TypeOK, UserType, QueueType, CallType, States

LEMMA WritePinKeeps ==
  ASSUME IInv, NEW u \in Users, NEW p \in Pins, NEW level \in BOOLEAN, WritePin(u, p, level)
  PROVE  IInv'
<1> USE NoneAssumption
<1>0. TypeOK /\ ItemHasItsTimer /\ WriteFindsItsBuffer /\ Debounce
  BY DEF IInv
<1>1. WriteBase # None /\ WriteBase \in Bytes
  BY <1>0 DEF WriteBase, WriteFindsItsBuffer, TypeOK
<1>2. QueuedOrPending \in States
  BY DEF QueuedOrPending, States, Waiting
<1>3. /\ Asks(u, {p}, QueuedOrPending)
      /\ writingTimeBuffer' = Set(WriteBase, p, level)
      /\ AddDoWriteCb(writingTimeBuffer')
      /\ asked' = Set(asked, p, level)
      /\ UNCHANGED <<buffered, currentState, beforeWritingBuffer, debouncing, chip,
                     cancels, givenUp>>
  BY <1>1 DEF WritePin
<1>4. writingTimeBuffer' \in Bytes /\ asked' \in Bytes
  BY <1>0, <1>1, <1>3, SetType DEF TypeOK
<1>5. /\ user' \in [Users -> UserType]
      /\ user[u].on \notin Waiting
      /\ user'[u].on = QueuedOrPending /\ user'[u].pins = {p}
      /\ \A v \in Users \ {u} : /\ user'[v].on = user[v].on
                                /\ user'[v].pins = user[v].pins \ {p}
      /\ requests' \in Nat
  BY <1>0, <1>2, <1>3, AsksKeeps
<1>6. /\ queue' \in QueueType /\ Timed(queue')
      /\ IsPending(queue') /\ (HasQueue(queue') <=> IsPending(queue))
      /\ calls' \in SUBSET CallType /\ lastCall' \in Nat
      /\ IsPending(queue) => calls' = calls
      /\ ~IsPending(queue) => calls' = calls \cup {Call(lastCall + 1, writingTimeBuffer')}
  BY <1>0, <1>3, <1>4, AddDoWriteCbKeeps
<1>7. TypeOK'
  BY <1>0, <1>3, <1>4, <1>5, <1>6, TypedIs DEF Typed
<1>8. ItemHasItsTimer' /\ WriteFindsItsBuffer' /\ Debounce'
  BY <1>0, <1>3, <1>4, <1>6 DEF ItemHasItsTimer, Timed, WriteFindsItsBuffer, Debounce
<1>9. ASSUME ~givenUp PROVE Running' /\ NothingIsLost'
  <2>0. Running /\ NothingIsLost /\ ~givenUp'
    BY <1>3, <1>9 DEF IInv
  <2>2. ~debouncing
    <3>1. IsPending(queue) \/ ~buffered
      BY DEF WritePin
    <3>2. CASE IsPending(queue)
      BY <1>9, <2>0, <3>2 DEF NothingIsLost
    <3>3. CASE ~buffered
      BY <1>0, <3>3 DEF Debounce
    <3> QED
      BY <3>1, <3>2, <3>3
  <2>3. WriteBase = asked
    <3>1. CASE IsPending(queue)
      BY <1>9, <2>0, <3>1 DEF NothingIsLost, WriteBase
    <3>2. CASE ~IsPending(queue)
      BY <1>9, <2>0, <2>2, <3>2 DEF NothingIsLost, WriteBase
    <3> QED
      BY <3>1, <3>2
  <2>30. writingTimeBuffer' = asked'
    BY <1>3, <2>3
  <2>4. NothingIsLost'
    BY <1>3, <1>6, <2>0, <2>2, <2>30 DEF NothingIsLost
  <2>5. CASE IsPending(queue)
    <3>1. calls' = calls /\ HasQueue(queue') /\ QueuedOrPending = "finish"
      BY <1>6, <2>5 DEF QueuedOrPending
    <3>2. Running'
      BY <1>3, <1>6, <1>9, <2>0, <2>5, <3>1 DEF Running
    <3> QED
      BY <2>4, <3>2
  <2>6. CASE ~IsPending(queue)
    <3>1. calls = {}
      BY <1>9, <2>0, <2>6 DEF Running
    <3> DEFINE c == Call(lastCall + 1, writingTimeBuffer')
    <3>2. calls' = {c}
      BY <1>6, <2>6, <3>1
    <3>3. c.at = "sent" /\ c.byte = asked'
      BY <1>0, <1>4, <2>30, CallIs DEF TypeOK
    <3>4. currentState' = chip'
      BY <1>3, <1>9, <2>0, <2>2, <2>6 DEF NothingIsLost
    <3> HIDE DEF c
    <3>5. Running'
      BY <1>6, <3>2, <3>3, <3>4 DEF Running
    <3> QED
      BY <2>4, <3>5
  <2> QED
    BY <2>5, <2>6
<1>10. ASSUME givenUp PROVE Running' /\ NothingIsLost'
  BY <1>3, <1>10 DEF Running, NothingIsLost
<1> QED
  BY <1>7, <1>8, <1>9, <1>10 DEF IInv

LEMMA BufferPinKeeps ==
  ASSUME IInv, NEW u \in Users, NEW p \in Pins, NEW level \in BOOLEAN, BufferPin(u, p, level)
  PROVE  IInv'
<1> USE NoneAssumption
<1>0. TypeOK /\ ItemHasItsTimer /\ WriteFindsItsBuffer /\ Debounce
  BY DEF IInv
<1> DEFINE base == IF beforeWritingBuffer = None THEN currentState ELSE beforeWritingBuffer
<1>1. base \in Bytes
  BY <1>0 DEF TypeOK
<1>2. /\ ~IsPending(queue) /\ buffered
      /\ Asks(u, {p}, "debounce")
      /\ beforeWritingBuffer' = Set(base, p, level)
      /\ debouncing' = TRUE
      /\ asked' = Set(asked, p, level)
      /\ UNCHANGED <<buffered, currentState, writingTimeBuffer, queue, calls,
                     lastCall, chip, cancels, givenUp>>
  BY DEF BufferPin
<1> HIDE DEF base
<1>3. beforeWritingBuffer' \in Bytes /\ asked' \in Bytes
  BY <1>0, <1>1, <1>2, SetType DEF TypeOK
<1>4. "debounce" \in States
  BY DEF States, Waiting
<1>5. /\ user' \in [Users -> UserType]
      /\ user'[u].on = "debounce"
      /\ \A v \in Users \ {u} : user'[v].on = user[v].on
      /\ requests' \in Nat
  <2> DEFINE pins == {p}
             on == "debounce"
  <2>1. Asks(u, pins, on) /\ pins \in SUBSET Pins /\ on \in States /\ TypeOK
    BY <1>0, <1>2, <1>4
  <2> HIDE DEF pins, on
  <2>2. /\ user' \in [Users -> UserType]
        /\ user[u].on \notin Waiting
        /\ user'[u].on = on /\ user'[u].pins = pins
        /\ \A v \in Users \ {u} : /\ user'[v].on = user[v].on
                                  /\ user'[v].pins = user[v].pins \ pins
        /\ requests' \in Nat
    BY <2>1, AsksKeeps
  <2> QED
    BY <2>2 DEF on
<1>6. TypeOK'
  BY <1>0, <1>2, <1>3, <1>5, TypedIs DEF Typed
<1>7. ItemHasItsTimer' /\ WriteFindsItsBuffer' /\ Debounce'
  BY <1>0, <1>2, <1>3 DEF ItemHasItsTimer, WriteFindsItsBuffer, Debounce
<1>8. ASSUME ~givenUp PROVE Running' /\ NothingIsLost'
  <2>0. Running /\ NothingIsLost
    BY DEF IInv
  <2>1. calls = {}
    BY <1>2, <1>8, <2>0 DEF Running
  <2>2. Running'
    BY <1>2, <2>1 DEF Running
  <2>5. base = asked /\ currentState = chip
    BY <1>0, <1>2, <1>8, <2>0 DEF NothingIsLost, Debounce, base
  <2>6. NothingIsLost'
    BY <1>2, <2>5 DEF NothingIsLost
  <2> QED
    BY <2>2, <2>6
<1>9. ASSUME givenUp PROVE Running' /\ NothingIsLost'
  BY <1>2, <1>9 DEF Running, NothingIsLost
<1> QED
  BY <1>6, <1>7, <1>8, <1>9 DEF IInv

LEMMA LostType ==
  ASSUME NEW w \in UserType
  PROVE  /\ Lost(w) \in UserType
         /\ w.on # "debounce" => Lost(w) = w
         /\ w.on \in {"pending", "finish"} <=> Lost(w).on \in {"pending", "finish"}
BY ToldType DEF Lost, Told, UserType, States, Waiting

LEMMA WriteStateKeeps ==
  ASSUME IInv, NEW u \in Users, NEW byte \in Bytes, WriteState(u, byte)
  PROVE  IInv'
<1> USE NoneAssumption
<1>0. TypeOK /\ ItemHasItsTimer /\ WriteFindsItsBuffer /\ Debounce
  BY DEF IInv
<1>1. /\ requests' = requests + 1
      /\ user' = [v \in Users |->
                    IF v = u THEN [on |-> QueuedOrPending, pins |-> Pins]
                    ELSE IF beforeWritingBuffer # None THEN Lost(user[v])
                    ELSE Overridden(user[v], Pins)]
      /\ beforeWritingBuffer' = None
      /\ debouncing' = (debouncing /\ beforeWritingBuffer = None)
      /\ writingTimeBuffer' = byte
      /\ AddDoWriteCb(byte)
      /\ asked' = byte
      /\ UNCHANGED <<buffered, currentState, chip, cancels, givenUp>>
  BY DEF WriteState
<1>2. user \in [Users -> UserType] /\ requests \in Nat
  BY <1>0, Types DEF TypeOK
<1>3. [on |-> QueuedOrPending, pins |-> Pins] \in UserType
  BY DEF UserType, QueuedOrPending, States, Waiting
<1>4. \A v \in Users : Lost(user[v]) \in UserType
  BY <1>2, LostType
<1>5. \A v \in Users : /\ Overridden(user[v], Pins) \in UserType
                      /\ Overridden(user[v], Pins).pins = {}
                      /\ Overridden(user[v], Pins).on = user[v].on
  <2> SUFFICES ASSUME NEW v \in Users
               PROVE  /\ Overridden(user[v], Pins) \in UserType
                      /\ Overridden(user[v], Pins).pins = {}
                      /\ Overridden(user[v], Pins).on = user[v].on
    OBVIOUS
  <2>1. user[v] \in UserType
    BY <1>2
  <2> QED
    BY <2>1 DEF UserType, Overridden
<1>6. user' \in [Users -> UserType]
  BY <1>1, <1>3, <1>4, <1>5
<1>7. ~debouncing'
  BY <1>0, <1>1 DEF Debounce
<1>8. /\ queue' \in QueueType /\ Timed(queue')
      /\ IsPending(queue') /\ (HasQueue(queue') <=> IsPending(queue))
      /\ calls' \in SUBSET CallType /\ lastCall' \in Nat
      /\ IsPending(queue) => calls' = calls
      /\ ~IsPending(queue) => calls' = calls \cup {Call(lastCall + 1, byte)}
  BY <1>0, <1>1, AddDoWriteCbKeeps
<1>9. debouncing' \in BOOLEAN
  BY <1>1, Zenon
<1>10. TypeOK'
  BY <1>0, <1>1, <1>2, <1>6, <1>8, <1>9, TypedIs DEF Typed
<1>11. ItemHasItsTimer' /\ WriteFindsItsBuffer' /\ Debounce'
  BY <1>1, <1>7, <1>8 DEF ItemHasItsTimer, Timed, WriteFindsItsBuffer, Debounce
<1>12. ASSUME ~givenUp PROVE Running' /\ NothingIsLost'
  <2>0. Running /\ NothingIsLost
    BY DEF IInv
  <2>1. NothingIsLost'
    BY <1>1, <1>7, <1>8 DEF NothingIsLost
  <2>3. CASE IsPending(queue)
    <3>1. /\ calls' = calls /\ HasQueue(queue') /\ QueuedOrPending = "finish"
          /\ beforeWritingBuffer = None
      BY <1>0, <1>8, <1>12, <2>0, <2>3 DEF QueuedOrPending, NothingIsLost, Debounce
    <3>2. Running'
      BY <1>1, <1>8, <1>12, <2>0, <2>3, <3>1 DEF Running
    <3> QED
      BY <2>1, <3>2
  <2>4. CASE ~IsPending(queue)
    <3>1. calls = {} /\ currentState' = chip' /\ QueuedOrPending = "pending"
      BY <1>1, <1>12, <2>0, <2>4 DEF Running, NothingIsLost, QueuedOrPending
    <3> DEFINE c == Call(lastCall + 1, byte)
    <3>2. calls' = {c}
      BY <1>8, <2>4, <3>1
    <3>3. c.at = "sent" /\ c.byte = asked'
      BY <1>0, <1>1, CallIs DEF TypeOK
    <3> HIDE DEF c
    <3>4. Running'
      BY <1>8, <3>1, <3>2, <3>3 DEF Running
    <3> QED
      BY <2>1, <3>4
  <2> QED
    BY <2>3, <2>4
<1>13. ASSUME givenUp PROVE Running' /\ NothingIsLost'
  BY <1>1, <1>13 DEF Running, NothingIsLost
<1> QED
  BY <1>10, <1>11, <1>12, <1>13 DEF IInv

LEMMA CancelKeeps ==
  ASSUME IInv, Cancel
  PROVE  IInv'
<1> USE NoneAssumption
<1>0. TypeOK /\ ItemHasItsTimer /\ WriteFindsItsBuffer /\ Debounce
  BY DEF IInv
<1>1. /\ cancels' = cancels + 1
      /\ beforeWritingBuffer' = None
      /\ writingTimeBuffer' = None
      /\ debouncing' = FALSE
      /\ queue' = EndItem(queue)
      /\ user' = [v \in Users |->
                    IF user[v].on \in {"pending", "finish"}
                    THEN Told("resolved") ELSE Lost(user[v])]
      /\ asked' = chip
      /\ givenUp' = (givenUp \/ calls # {})
      /\ UNCHANGED <<buffered, currentState, calls, lastCall, chip, requests>>
  BY DEF Cancel
<1>2. user \in [Users -> UserType] /\ queue \in QueueType /\ Timed(queue)
  BY <1>0, Types DEF ItemHasItsTimer, Timed
<1>3. /\ queue' \in QueueType /\ Timed(queue')
      /\ ~IsPending(queue') /\ ~HasQueue(queue')
  BY <1>1, <1>2, EndItemKeeps
<1>4. \A v \in Users : user'[v] \in UserType /\ user'[v].on \notin {"pending", "finish"}
  <2> SUFFICES ASSUME NEW v \in Users
               PROVE  user'[v] \in UserType /\ user'[v].on \notin {"pending", "finish"}
    OBVIOUS
  <2>1. user'[v] = IF user[v].on \in {"pending", "finish"}
                   THEN Told("resolved") ELSE Lost(user[v])
    BY <1>1
  <2>2. Told("resolved") \in UserType /\ Told("resolved").on = "resolved"
    BY ToldType DEF States
  <2>3. /\ Lost(user[v]) \in UserType
        /\ user[v].on \in {"pending", "finish"} <=> Lost(user[v]).on \in {"pending", "finish"}
    BY <1>2, LostType
  <2> QED
    BY <2>1, <2>2, <2>3
<1>5. user' \in [Users -> UserType]
  BY <1>1, <1>4
<1>6. givenUp' \in BOOLEAN
  BY <1>1, Zenon
<1>7. TypeOK'
  <2>1. cancels' \in Nat
    BY <1>0, <1>1 DEF TypeOK
  <2>2. asked' \in Bytes /\ debouncing' \in BOOLEAN
    BY <1>0, <1>1, Zenon DEF TypeOK
  <2> QED
    BY <1>0, <1>1, <1>3, <1>5, <1>6, <2>1, <2>2, TypedIs DEF Typed
<1>8. ItemHasItsTimer' /\ WriteFindsItsBuffer' /\ Debounce'
  BY <1>1, <1>3 DEF ItemHasItsTimer, Timed, WriteFindsItsBuffer, Debounce
<1>10. ASSUME ~givenUp' PROVE Running' /\ NothingIsLost'
  <2>1. ~givenUp /\ calls = {} /\ Running /\ NothingIsLost
    BY <1>1, <1>10 DEF IInv
  <2>2. ~IsPending(queue) /\ currentState = chip
    BY <2>1 DEF Running, NothingIsLost
  <2> QED
    BY <1>1, <1>3, <2>1, <2>2 DEF Running, NothingIsLost
<1>11. ASSUME givenUp' PROVE Running' /\ NothingIsLost'
  BY <1>11 DEF Running, NothingIsLost
<1> QED
  BY <1>7, <1>8, <1>10, <1>11 DEF IInv

LEMMA DebounceEndsKeeps ==
  ASSUME IInv, DebounceEnds
  PROVE  IInv'
<1> USE NoneAssumption
<1>0. TypeOK /\ ItemHasItsTimer /\ WriteFindsItsBuffer /\ Debounce
  BY DEF IInv
<1>1. debouncing /\ beforeWritingBuffer \in Bytes
  BY <1>0 DEF DebounceEnds, Debounce, TypeOK
<1>2. /\ debouncing' = FALSE
      /\ user' = Settle({"debounce"}, "resolved")
      /\ beforeWritingBuffer' = None
      /\ writingTimeBuffer' = beforeWritingBuffer
      /\ AddDoWriteCb(beforeWritingBuffer)
      /\ UNCHANGED <<buffered, currentState, chip, requests, cancels, asked, givenUp>>
  BY <1>1 DEF DebounceEnds
<1>3. /\ queue' \in QueueType /\ Timed(queue')
      /\ IsPending(queue') /\ (HasQueue(queue') <=> IsPending(queue))
      /\ calls' \in SUBSET CallType /\ lastCall' \in Nat
      /\ ~IsPending(queue) => calls' = calls \cup {Call(lastCall + 1, beforeWritingBuffer)}
  BY <1>0, <1>1, <1>2, AddDoWriteCbKeeps
<1>4. /\ user' \in [Users -> UserType]
      /\ \A v \in Users : user'[v] = IF user[v].on \in {"debounce"} THEN Told("resolved") ELSE user[v]
  BY <1>0, <1>2, SettleType DEF States
<1>5. TypeOK'
  BY <1>0, <1>1, <1>2, <1>3, <1>4, TypedIs DEF Typed
<1>6. ItemHasItsTimer' /\ WriteFindsItsBuffer' /\ Debounce'
  BY <1>1, <1>2, <1>3 DEF ItemHasItsTimer, Timed, WriteFindsItsBuffer, Debounce
<1>7. ASSUME ~givenUp PROVE Running' /\ NothingIsLost'
  <2>0. Running /\ NothingIsLost
    BY DEF IInv
  <2>1. ~IsPending(queue) /\ beforeWritingBuffer = asked /\ currentState = chip
    BY <1>1, <1>7, <2>0 DEF NothingIsLost
  <2>2. calls = {}
    BY <1>7, <2>0, <2>1 DEF Running
  <2> DEFINE c == Call(lastCall + 1, beforeWritingBuffer)
  <2>3. calls' = {c}
    BY <1>3, <2>1, <2>2
  <2>4. c.at = "sent" /\ c.byte = asked'
    BY <1>0, <1>1, <1>2, <2>1, CallIs DEF TypeOK
  <2> HIDE DEF c
  <2>5. Running'
    BY <1>2, <1>3, <2>1, <2>3, <2>4 DEF Running
  <2>8. NothingIsLost'
    BY <1>2, <1>3, <2>1 DEF NothingIsLost
  <2> QED
    BY <2>5, <2>8
<1>8. ASSUME givenUp PROVE Running' /\ NothingIsLost'
  BY <1>2, <1>8 DEF Running, NothingIsLost
<1> QED
  BY <1>5, <1>6, <1>7, <1>8 DEF IInv

(* A settled promise is not waited for.                                    *)
LEMMA SettledAll ==
  ASSUME TypeOK, NEW how \in {"resolved", "rejected"},
         user' = Settle({"pending", "finish"}, how)
  PROVE  /\ user' \in [Users -> UserType]
         /\ \A v \in Users : user'[v].on \notin {"pending", "finish"}
<1>1. how \in States
  BY DEF States
<1>2. /\ user' \in [Users -> UserType]
      /\ \A v \in Users : user'[v] = IF user[v].on \in {"pending", "finish"}
                                     THEN Told(how) ELSE user[v]
  BY <1>1, SettleType
<1>3. Told(how).on = how
  BY <1>1, ToldType
<1> QED
  BY <1>2, <1>3

LEMMA TimeoutStepKeeps ==
  ASSUME IInv, NEW t \in queue.armed, Timeout(t)
  PROVE  IInv'
<1>0. TypeOK /\ ItemHasItsTimer /\ WriteFindsItsBuffer /\ Debounce
  BY DEF IInv
<1>1. /\ queue' = HandleJobTimeout(queue, t)
      /\ user' = Settle({"pending", "finish"}, "rejected")
      /\ asked' = chip
      /\ givenUp' = TRUE
      /\ UNCHANGED <<buffered, currentState, beforeWritingBuffer, writingTimeBuffer,
                     debouncing, calls, lastCall, chip, requests, cancels>>
  BY DEF Timeout
<1>2. queue \in QueueType /\ Timed(queue)
  BY <1>0, Types DEF ItemHasItsTimer, Timed
<1>3. queue' \in QueueType /\ Timed(queue') /\ ~IsPending(queue')
  BY <1>1, <1>2, TimeoutKeeps DEF HandleJobTimeout, IsPending, DeleteItem, QueueType
<1>4. user' \in [Users -> UserType]
  BY <1>0, <1>1, SettledAll
<1>5. TypeOK'
  BY <1>0, <1>1, <1>3, <1>4, TypedIs DEF Typed
<1>6. ItemHasItsTimer' /\ WriteFindsItsBuffer' /\ Debounce'
  BY <1>0, <1>1, <1>3 DEF ItemHasItsTimer, Timed, WriteFindsItsBuffer, Debounce
<1>7. Running' /\ NothingIsLost'
  BY <1>1 DEF Running, NothingIsLost
<1> QED
  BY <1>5, <1>6, <1>7 DEF IInv

LEMMA ChipTakesKeeps ==
  ASSUME IInv, NEW c \in calls, ChipTakes(c)
  PROVE  IInv'
<1> USE NoneAssumption
<1>0. TypeOK /\ ItemHasItsTimer /\ WriteFindsItsBuffer /\ Debounce
  BY DEF IInv
<1> DEFINE d == [c EXCEPT !.at = "taken"]
<1>1. /\ c.at = "sent"
      /\ chip' = c.byte
      /\ calls' = (calls \ {c}) \cup {d}
      /\ UNCHANGED <<buffered, currentState, beforeWritingBuffer, writingTimeBuffer,
                     debouncing, queue, lastCall, user, requests, cancels, asked,
                     givenUp>>
  BY DEF ChipTakes
<1>2. c \in CallType /\ calls \in SUBSET CallType
  BY <1>0, Types
<1>3. d \in CallType /\ d.at = "taken" /\ d.byte = c.byte
  BY <1>2 DEF CallType
<1> HIDE DEF d
<1>4. chip' \in Bytes /\ calls' \in SUBSET CallType
  BY <1>1, <1>2, <1>3 DEF CallType
<1>5. TypeOK'
  BY <1>0, <1>1, <1>4, TypedIs DEF Typed
<1>6. ItemHasItsTimer' /\ WriteFindsItsBuffer' /\ Debounce'
  BY <1>0, <1>1 DEF ItemHasItsTimer, WriteFindsItsBuffer, Debounce
<1>7. ASSUME ~givenUp PROVE Running' /\ NothingIsLost'
  <2>0. Running /\ NothingIsLost
    BY DEF IInv
  <2>1. calls = {c} /\ calls' = {d} /\ IsPending(queue)
    BY <1>1, <1>7, <2>0 DEF Running
  <2>2. Running'
    BY <1>1, <1>3, <1>7, <2>0, <2>1 DEF Running
  <2>4. NothingIsLost'
    BY <1>1, <1>7, <2>0, <2>1 DEF NothingIsLost
  <2> QED
    BY <2>2, <2>4
<1>8. ASSUME givenUp PROVE Running' /\ NothingIsLost'
  BY <1>1, <1>8 DEF Running, NothingIsLost
<1> QED
  BY <1>5, <1>6, <1>7, <1>8 DEF IInv

LEMMA WriteFailsKeeps ==
  ASSUME IInv, NEW c \in calls, WriteFails(c)
  PROVE  IInv'
<1> USE NoneAssumption
<1>0. TypeOK /\ ItemHasItsTimer /\ WriteFindsItsBuffer /\ Debounce
  BY DEF IInv
<1>1. /\ c.at = "sent"
      /\ calls' = calls \ {c}
      /\ writingTimeBuffer' = None
      /\ queue' = EndItem(queue)
      /\ user' = Settle({"pending", "finish"}, "rejected")
      /\ asked' = IF IsPending(queue) THEN chip ELSE asked
      /\ UNCHANGED <<buffered, currentState, beforeWritingBuffer, debouncing,
                     lastCall, chip, requests, cancels, givenUp>>
  BY DEF WriteFails
<1>2. queue \in QueueType /\ Timed(queue) /\ calls \in SUBSET CallType
  BY <1>0, Types DEF ItemHasItsTimer, Timed
<1>3. queue' \in QueueType /\ Timed(queue') /\ ~IsPending(queue') /\ ~HasQueue(queue')
  BY <1>1, <1>2, EndItemKeeps
<1>4. /\ user' \in [Users -> UserType]
      /\ \A v \in Users : user'[v].on \notin {"pending", "finish"}
  BY <1>0, <1>1, SettledAll
<1>5. calls' \in SUBSET CallType
  BY <1>1, <1>2
<1>6. TypeOK'
  BY <1>0, <1>1, <1>3, <1>4, <1>5, TypedIs DEF Typed
<1>7. ItemHasItsTimer' /\ WriteFindsItsBuffer' /\ Debounce'
  BY <1>0, <1>1, <1>3 DEF ItemHasItsTimer, Timed, WriteFindsItsBuffer, Debounce
<1>9. ASSUME ~givenUp PROVE Running' /\ NothingIsLost'
  <2>1. Running /\ NothingIsLost
    BY DEF IInv
  <2>2. calls' = {} /\ currentState = chip /\ ~debouncing /\ asked' = chip
    BY <1>1, <1>9, <2>1 DEF Running, NothingIsLost
  <2> QED
    BY <1>1, <1>3, <2>2 DEF Running, NothingIsLost
<1>10. ASSUME givenUp PROVE Running' /\ NothingIsLost'
  BY <1>1, <1>10 DEF Running, NothingIsLost
<1> QED
  BY <1>6, <1>7, <1>9, <1>10 DEF IInv

LEMMA PendingSucceedsIs ==
  ASSUME TypeOK, user' = PendingSucceeds
  PROVE  /\ user' \in [Users -> UserType]
         /\ \A v \in Users :
              /\ user[v].on = "pending" => user'[v].on = "resolved"
              /\ user[v].on = "finish" /\ HasQueue(queue) =>
                   user'[v].on = "pending" /\ user'[v].pins = user[v].pins
              /\ user[v].on # "pending" /\ ~(user[v].on = "finish" /\ HasQueue(queue)) =>
                   user'[v] = user[v]
<1>1. user \in [Users -> UserType]
  BY Types
<1>2. ASSUME NEW v \in Users
      PROVE  /\ user'[v] \in UserType
             /\ user[v].on = "pending" => user'[v].on = "resolved"
             /\ user[v].on = "finish" /\ HasQueue(queue) =>
                  user'[v].on = "pending" /\ user'[v].pins = user[v].pins
             /\ user[v].on # "pending" /\ ~(user[v].on = "finish" /\ HasQueue(queue)) =>
                  user'[v] = user[v]
  <2>1. user[v] \in UserType
    BY <1>1
  <2>2. Told("resolved") \in UserType /\ Told("resolved").on = "resolved"
    BY ToldType DEF States
  <2>3. CASE user[v].on = "pending"
    <3>1. user'[v] = Told("resolved")
      BY <2>3 DEF PendingSucceeds
    <3> QED
      BY <2>2, <2>3, <3>1
  <2>4. CASE user[v].on = "finish" /\ HasQueue(queue)
    <3>1. user'[v] = [user[v] EXCEPT !.on = "pending"]
      BY <2>4 DEF PendingSucceeds
    <3> QED
      BY <2>1, <2>4, <3>1 DEF UserType, States, Waiting
  <2>5. CASE user[v].on # "pending" /\ ~(user[v].on = "finish" /\ HasQueue(queue))
    <3>1. user'[v] = user[v]
      BY <2>5 DEF PendingSucceeds
    <3> QED
      BY <2>1, <2>5, <3>1
  <2> QED
    BY <2>3, <2>4, <2>5
<1>3. user' = [v \in Users |-> user'[v]]
  BY DEF PendingSucceeds
<1> QED
  BY <1>2, <1>3

LEMMA WriteSucceedsKeeps ==
  ASSUME IInv, NEW c \in calls, WriteSucceeds(c)
  PROVE  IInv'
<1> USE NoneAssumption
<1>0. TypeOK /\ ItemHasItsTimer /\ WriteFindsItsBuffer /\ Debounce
  BY DEF IInv
<1>1. /\ c.at = "taken"
      /\ currentState' = c.byte
      /\ queue' = HandleCbSuccess(queue, lastCall + 1)
      /\ user' = PendingSucceeds
      /\ UNCHANGED <<buffered, beforeWritingBuffer, debouncing, chip, requests,
                     cancels, asked, givenUp>>
  BY DEF WriteSucceeds
<1>2. /\ queue \in QueueType /\ Timed(queue) /\ calls \in SUBSET CallType
      /\ lastCall \in Nat /\ lastCall + 1 \in Nat \ {0} /\ c.byte \in Bytes
  BY <1>0, Types DEF ItemHasItsTimer, Timed
<1>3. /\ queue' \in QueueType /\ Timed(queue')
      /\ IsPending(queue') <=> HasQueue(queue)
      /\ ~HasQueue(queue')
  BY <1>1, <1>2, SuccessKeeps
<1>4. /\ user' \in [Users -> UserType]
      /\ \A v \in Users :
           /\ user[v].on = "pending" => user'[v].on = "resolved"
           /\ user[v].on = "finish" /\ HasQueue(queue) =>
                user'[v].on = "pending" /\ user'[v].pins = user[v].pins
           /\ user[v].on # "pending" /\ ~(user[v].on = "finish" /\ HasQueue(queue)) =>
                user'[v] = user[v]
  BY <1>0, <1>1, PendingSucceedsIs
<1> DEFINE next == Call(lastCall + 1, writingTimeBuffer)
<1>5. ASSUME HasQueue(queue)
      PROVE  /\ lastCall' = lastCall + 1 /\ calls' = (calls \ {c}) \cup {next}
             /\ writingTimeBuffer' = writingTimeBuffer
             /\ writingTimeBuffer \in Bytes
             /\ next \in CallType /\ next.at = "sent" /\ next.byte = writingTimeBuffer
  <2>1. writingTimeBuffer \in Bytes
    BY <1>0, <1>5, PendingIfQueued DEF WriteFindsItsBuffer, TypeOK
  <2>2. next \in CallType /\ next.at = "sent" /\ next.byte = writingTimeBuffer
    BY <1>2, <2>1, CallIs
  <2> QED
    BY <1>5, <2>1, <2>2 DEF WriteSucceeds
<1>6. ASSUME ~HasQueue(queue)
      PROVE  calls' = calls \ {c} /\ writingTimeBuffer' = None /\ lastCall' = lastCall
  BY <1>6 DEF WriteSucceeds
<1> HIDE DEF next
<1>7. calls' \in SUBSET CallType /\ lastCall' \in Nat /\ writingTimeBuffer' \in Bytes \cup {None}
  BY <1>2, <1>5, <1>6
<1>8. TypeOK'
  BY <1>0, <1>1, <1>2, <1>3, <1>4, <1>7, TypedIs DEF Typed
<1>9. ItemHasItsTimer' /\ WriteFindsItsBuffer' /\ Debounce'
  BY <1>0, <1>1, <1>3, <1>5 DEF ItemHasItsTimer, Timed, WriteFindsItsBuffer, Debounce
<1>10. ASSUME ~givenUp PROVE Running' /\ NothingIsLost'
  <2>0. Running /\ NothingIsLost
    BY DEF IInv
  <2>1. /\ calls = {c} /\ IsPending(queue) /\ chip = c.byte
        /\ writingTimeBuffer = asked /\ ~debouncing
        /\ ~HasQueue(queue) => c.byte = asked
    BY <1>1, <1>10, <2>0 DEF Running, NothingIsLost
  <2>2. CASE HasQueue(queue)
    <3>1. calls' = {next} /\ next.at = "sent" /\ next.byte = asked'
      BY <1>1, <1>5, <2>1, <2>2
    <3>2. Running'
      BY <1>1, <1>3, <2>1, <2>2, <3>1 DEF Running
    <3>3. NothingIsLost'
      BY <1>1, <1>3, <1>5, <2>1, <2>2 DEF NothingIsLost
    <3> QED
      BY <3>2, <3>3
  <2>3. CASE ~HasQueue(queue)
    <3>1. calls' = {} /\ ~IsPending(queue')
      BY <1>3, <1>6, <2>1, <2>3
    <3>2. Running'
      BY <1>3, <3>1 DEF Running
    <3>3. NothingIsLost'
      BY <1>1, <2>1, <2>3, <3>1 DEF NothingIsLost
    <3> QED
      BY <3>2, <3>3
  <2> QED
    BY <2>2, <2>3
<1>11. ASSUME givenUp PROVE Running' /\ NothingIsLost'
  BY <1>1, <1>11 DEF Running, NothingIsLost
<1> QED
  BY <1>8, <1>9, <1>10, <1>11 DEF IInv

-----------------------------------------------------------------------------
(* The inductive invariant.                                                *)
LEMMA InitHolds ==
  ASSUME Init
  PROVE  IInv
<1>1. currentState \in Bytes
  BY InitialAssumption DEF Init
<1>2. Told("idle") \in UserType /\ Told("idle").on = "idle"
  BY ToldType DEF States
<1>3. user \in [Users -> UserType] /\ \A v \in Users : user[v].on = "idle"
  BY <1>2 DEF Init
<1>4. queue \in QueueType /\ Timed(queue) /\ ~IsPending(queue) /\ ~HasQueue(queue)
  BY DEF Init, NoItems, QueueType, Timed, IsPending, HasQueue
<1>5. TypeOK
  BY <1>1, <1>3, <1>4 DEF Init, TypeOK, UserType, QueueType, States
<1>6. ItemHasItsTimer /\ WriteFindsItsBuffer /\ Debounce
  BY <1>4 DEF Init, ItemHasItsTimer, Timed, WriteFindsItsBuffer, Debounce
<1>7. Running /\ NothingIsLost
  BY <1>4 DEF Init, Running, NothingIsLost
<1> QED
  BY <1>5, <1>6, <1>7 DEF IInv

LEMMA StutterKeeps ==
  ASSUME IInv, UNCHANGED vars
  PROVE  IInv'
BY DEF vars, IInv, TypeOK, ItemHasItsTimer, WriteFindsItsBuffer, Debounce, Running,
       NothingIsLost, IsPending, HasQueue

LEMMA StepKeeps ==
  ASSUME IInv, [Next]_vars
  PROVE  IInv'
<1>1. CASE UNCHANGED vars
  BY <1>1, StutterKeeps
<1>2. ASSUME NEW u \in Users, NEW p \in Pins, NEW level \in BOOLEAN,
             WritePin(u, p, level) \/ BufferPin(u, p, level)
      PROVE  IInv'
  BY <1>2, WritePinKeeps, BufferPinKeeps
<1>3. ASSUME NEW u \in Users, NEW byte \in Bytes, WriteState(u, byte)
      PROVE  IInv'
  BY <1>3, WriteStateKeeps
<1>4. CASE Cancel
  BY <1>4, CancelKeeps
<1>5. CASE DebounceEnds
  BY <1>5, DebounceEndsKeeps
<1>6. ASSUME NEW t \in queue.armed, Timeout(t)
      PROVE  IInv'
  BY <1>6, TimeoutStepKeeps
<1>7. ASSUME NEW c \in calls, ChipTakes(c) \/ WriteSucceeds(c) \/ WriteFails(c)
      PROVE  IInv'
  BY <1>7, ChipTakesKeeps, WriteSucceedsKeeps, WriteFailsKeeps
<1> QED
  BY <1>1, <1>2, <1>3, <1>4, <1>5, <1>6, <1>7 DEF Next

LEMMA Inductive == Spec => []IInv
<1>1. Init => IInv
  BY InitHolds
<1>2. IInv /\ [Next]_vars => IInv'
  BY StepKeeps
<1> QED
  BY <1>1, <1>2, PTL DEF Spec

-----------------------------------------------------------------------------
(* Every variable keeps its type; a call of doWriteCb sends a byte, never  *)
(* a missing buffer.                                                       *)
THEOREM TypeCorrect == Spec => []TypeOK
<1>1. IInv => TypeOK
  BY DEF IInv
<1> QED
  BY <1>1, Inductive, PTL

(* A pending callback of the queue has exactly its own timer, and no timer *)
(* outlives it.                                                            *)
THEOREM CallsAreTimed == Spec => []ItemHasItsTimer
<1>1. IInv => ItemHasItsTimer
  BY DEF IInv
<1> QED
  BY <1>1, Inductive, PTL

(* The error "no writingTimeBuffer" is unreachable, given up or not.       *)
THEOREM BufferIsFound == Spec => []WriteFindsItsBuffer
<1>1. IInv => WriteFindsItsBuffer
  BY DEF IInv
<1> QED
  BY <1>1, Inductive, PTL

(* Until a write is given up on, every level that was asked for is on its  *)
(* way to the chip or there, through buffering, queueing and cancels.      *)
THEOREM LevelsAreKept == Spec => []NothingIsLost
<1>1. IInv => NothingIsLost
  BY DEF IInv
<1> QED
  BY <1>1, Inductive, PTL

-----------------------------------------------------------------------------
(* What promises tell.  A second invariant, over given-up calls too: a     *)
(* call that was given up on is beside that of the pending item (LateCall) *)
(* or alone without one, so without LateCall the call of a pending item    *)
(* has been alone since it was started, and sends what its waiters want.   *)

(* Calls have numbers of their own.                                        *)
Numbered ==
  \A c, d \in calls : c.n <= lastCall /\ (c.n = d.n => c = d)

SomeCall == IsPending(queue) => calls # {}

(* Who waits for the queue's item.                                         *)
Waits ==
  \A u \in Users :
    /\ user[u].on = "pending" \/ user[u].on = "finish" => IsPending(queue)
    /\ user[u].on = "finish" => HasQueue(queue)

(* Who waits for the debounce finds its levels in the buffer.              *)
Buffering ==
  /\ debouncing => ~IsPending(queue)
  /\ \A u \in Users : user[u].on = "debounce" =>
       debouncing /\ \A p \in user[u].pins : beforeWritingBuffer[p] = asked[p]

(* What the one call of a pending item sends, and what the next will.      *)
Sends ==
  IsPending(queue) /\ ~LateCall =>
    /\ \A c \in calls : c.at = "taken" => chip = c.byte
    /\ \A u \in Users : \A p \in user[u].pins :
         /\ user[u].on = "pending" => \A c \in calls : c.byte[p] = asked[p]
         /\ user[u].on = "finish" => writingTimeBuffer[p] = asked[p]

PInv == Numbered /\ SomeCall /\ Waits /\ Buffering /\ Sends

(* What ResolvedMeansWritten says of one step.                             *)
TellsTheTruth == (LateCall \/ ToldWhenWritten) /\ ToldWhenStarted

(* A call that is added has a number of its own, and is alone if no other  *)
(* goes on.                                                                *)
LEMMA OneMoreCall ==
  ASSUME TypeOK, Numbered, NEW byte \in Bytes, NEW gone, gone \subseteq calls,
         calls' = (calls \ gone) \cup {Call(lastCall + 1, byte)}, lastCall' = lastCall + 1
  PROVE  /\ Numbered' /\ calls' # {}
         /\ ~LateCall' => calls' = {Call(lastCall + 1, byte)} /\ calls = gone
<1> DEFINE new == Call(lastCall + 1, byte)
<1>1. /\ \A c \in calls : c.n \in Nat /\ c.n <= lastCall /\ \A d \in calls : c.n = d.n => c = d
      /\ lastCall \in Nat /\ new.n = lastCall + 1
  BY Types DEF Numbered, Call
<1>2. new \in calls' /\ \A c \in calls' : c = new \/ (c \in calls \ gone)
  OBVIOUS
<1> HIDE DEF new
<1>3. \A c \in calls : c.n # new.n /\ c # new /\ c.n <= lastCall + 1
  BY <1>1
<1>4. Numbered'
  BY <1>1, <1>2, <1>3 DEF Numbered
<1>5. ~LateCall' => calls \ gone = {}
  <2> SUFFICES ASSUME NEW c \in calls \ gone
               PROVE  LateCall'
    OBVIOUS
  <2>1. c \in calls' /\ new \in calls' /\ c # new
    BY <1>2, <1>3
  <2> QED
    BY <2>1 DEF LateCall
<1>6. ~LateCall' => calls' = {Call(lastCall + 1, byte)} /\ calls = gone
  BY <1>5
<1> QED
  BY <1>2, <1>4, <1>6

(* A writing request: its promise, what is sent and what will be.          *)
LEMMA RequestKeeps ==
  ASSUME IInv, PInv, NEW u \in Users, NEW pins \in SUBSET Pins, NEW byte \in Bytes,
         user' \in [Users -> UserType],
         user[u].on \notin Waiting,
         user'[u].on = QueuedOrPending, user'[u].pins = pins,
         \A v \in Users \ {u} :
           /\ user'[v].on = user[v].on \/ (user[v].on = "debounce" /\ user'[v].on = "lost")
           /\ user'[v].pins \subseteq user[v].pins
           /\ user'[v].on \in Waiting => user'[v].pins \cap pins = {},
         ~debouncing', \A v \in Users : user'[v].on # "debounce",
         writingTimeBuffer' = byte, AddDoWriteCb(byte),
         \A p \in pins : byte[p] = asked'[p],
         \A p \in Pins \ pins : asked'[p] = asked[p],
         IsPending(queue) => \A p \in Pins \ pins : byte[p] = writingTimeBuffer[p],
         UNCHANGED chip
  PROVE  PInv' /\ TellsTheTruth
<1>0. TypeOK /\ ItemHasItsTimer /\ Numbered /\ SomeCall /\ Waits /\ Buffering /\ Sends
  BY DEF IInv, PInv
<1>1. /\ IsPending(queue') /\ (HasQueue(queue') <=> IsPending(queue))
      /\ IsPending(queue) => calls' = calls /\ lastCall' = lastCall
      /\ ~IsPending(queue) => /\ calls' = calls \cup {Call(lastCall + 1, byte)}
                              /\ lastCall' = lastCall + 1
  BY <1>0, AddDoWriteCbKeeps DEF AddDoWriteCb
<1>2. user \in [Users -> UserType]
  BY <1>0, Types
<1>3. TellsTheTruth
  <2>1. QueuedOrPending # "resolved"
    BY DEF QueuedOrPending
  <2>2. \A v \in Users : ~Resolves(v)
    BY <2>1 DEF Resolves
  <2> QED
    BY <2>2 DEF TellsTheTruth, ToldWhenWritten, ToldWhenStarted
<1>4. Buffering'
  BY DEF Buffering
<1>5. ASSUME NEW v \in Users \ {u}, NEW p \in user'[v].pins, user'[v].on \in {"pending", "finish"}
      PROVE  /\ p \in Pins \ pins /\ p \in user[v].pins
             /\ user[v].on = user'[v].on
             /\ asked'[p] = asked[p]
  <2>1. user'[v].pins \subseteq user[v].pins /\ user[v].pins \subseteq Pins
    BY <1>2 DEF UserType
  <2>2. user'[v].pins \cap pins = {}
    BY <1>5 DEF Waiting
  <2> QED
    BY <1>5, <2>1, <2>2
<1>6. CASE IsPending(queue)
  <2>1. calls' = calls /\ lastCall' = lastCall /\ HasQueue(queue') /\ QueuedOrPending = "finish"
    BY <1>1, <1>6 DEF QueuedOrPending
  <2>2. Numbered' /\ SomeCall' /\ Waits'
    BY <1>0, <1>1, <1>6, <2>1 DEF Numbered, SomeCall, Waits
  <2>3. ASSUME ~LateCall'
        PROVE  Sends'
    <3>1. ~LateCall
      BY <2>1, <2>3 DEF LateCall
    <3>2. /\ \A c \in calls : c.at = "taken" => chip = c.byte
          /\ \A v \in Users : \A p \in user[v].pins :
               /\ user[v].on = "pending" => \A c \in calls : c.byte[p] = asked[p]
               /\ user[v].on = "finish" => writingTimeBuffer[p] = asked[p]
      BY <1>0, <1>6, <3>1 DEF Sends
    <3>3. ASSUME NEW v \in Users, NEW p \in user'[v].pins
          PROVE  /\ user'[v].on = "pending" => \A c \in calls : c.byte[p] = asked'[p]
                 /\ user'[v].on = "finish" => byte[p] = asked'[p]
      <4>1. CASE v = u
        BY <2>1, <3>3, <4>1
      <4>2. CASE v # u
        BY <1>5, <1>6, <3>2, <3>3, <4>2
      <4> QED
        BY <4>1, <4>2
    <3> QED
      BY <2>1, <3>2, <3>3 DEF Sends
  <2>4. Sends'
    BY <2>3 DEF Sends
  <2> QED
    BY <1>3, <1>4, <2>2, <2>4 DEF PInv
<1>7. CASE ~IsPending(queue)
  <2>1. calls' = (calls \ {}) \cup {Call(lastCall + 1, byte)} /\ lastCall' = lastCall + 1
    BY <1>1, <1>7
  <2>2. /\ Numbered' /\ calls' # {}
        /\ ~LateCall' => calls' = {Call(lastCall + 1, byte)}
    <3> DEFINE gone == {}
    <3>1. gone \subseteq calls /\ calls' = (calls \ gone) \cup {Call(lastCall + 1, byte)}
      BY <2>1
    <3> HIDE DEF gone
    <3> QED
      BY <1>0, <2>1, <3>1, OneMoreCall
  <2>3. Call(lastCall + 1, byte).at = "sent" /\ Call(lastCall + 1, byte).byte = byte
    BY DEF Call
  <2>4. QueuedOrPending = "pending"
    BY <1>7 DEF QueuedOrPending
  <2>5. \A v \in Users \ {u} : user'[v].on \notin {"pending", "finish"}
    BY <1>0, <1>7 DEF Waits
  <2>6. SomeCall' /\ Waits'
    BY <1>1, <2>2, <2>4, <2>5 DEF SomeCall, Waits
  <2>7. ASSUME ~LateCall'
        PROVE  Sends'
    <3>1. \A c \in calls' : c.at = "sent" /\ c.byte = byte
      BY <2>2, <2>3, <2>7
    <3>2. ASSUME NEW v \in Users, NEW p \in user'[v].pins
          PROVE  /\ user'[v].on = "pending" => \A c \in calls' : c.byte[p] = asked'[p]
                 /\ user'[v].on # "finish"
      <4>1. CASE v = u
        BY <2>4, <3>1, <3>2, <4>1
      <4>2. CASE v # u
        BY <2>5, <4>2
      <4> QED
        BY <4>1, <4>2
    <3> QED
      BY <3>1, <3>2 DEF Sends
  <2>8. Sends'
    BY <2>7 DEF Sends
  <2> QED
    BY <1>3, <1>4, <2>2, <2>6, <2>8 DEF PInv
<1> QED
  BY <1>6, <1>7

(* Nobody asks for a buffered write while one is pending.                  *)
LEMMA NoDebounce ==
  ASSUME IInv, PInv, IsPending(queue) \/ ~buffered
  PROVE  ~debouncing /\ \A u \in Users : user[u].on # "debounce"
BY DEF IInv, PInv, Debounce, Buffering

LEMMA WritePinTells ==
  ASSUME IInv, PInv, NEW u \in Users, NEW p \in Pins, NEW level \in BOOLEAN,
         WritePin(u, p, level)
  PROVE  PInv' /\ TellsTheTruth
<1> USE NoneAssumption
<1>0. TypeOK /\ WriteFindsItsBuffer
  BY DEF IInv
<1>1. WriteBase # None /\ WriteBase \in Bytes
  BY <1>0 DEF WriteBase, WriteFindsItsBuffer, TypeOK
<1>2. QueuedOrPending \in States
  BY DEF QueuedOrPending, States, Waiting
<1>3. /\ Asks(u, {p}, QueuedOrPending)
      /\ writingTimeBuffer' = Set(WriteBase, p, level)
      /\ AddDoWriteCb(writingTimeBuffer')
      /\ asked' = Set(asked, p, level)
      /\ UNCHANGED <<debouncing, chip>>
  BY <1>1 DEF WritePin
<1> DEFINE byte == Set(WriteBase, p, level)
           pins == {p}
<1>4. /\ byte \in Bytes /\ byte[p] = level /\ asked'[p] = level
      /\ \A q \in Pins \ {p} : byte[q] = WriteBase[q] /\ asked'[q] = asked[q]
  BY <1>0, <1>1, <1>3 DEF TypeOK, Bytes, Set
<1>5. ~debouncing /\ \A v \in Users : user[v].on # "debounce"
  BY NoDebounce DEF WritePin
<1>6. /\ user' \in [Users -> UserType]
      /\ user[u].on \notin Waiting
      /\ user'[u].on = QueuedOrPending /\ user'[u].pins = {p}
      /\ \A v \in Users \ {u} : /\ user'[v].on = user[v].on
                                /\ user'[v].pins = user[v].pins \ {p}
  <2> DEFINE asks == {p}
  <2>1. /\ asks \in SUBSET Pins /\ Asks(u, asks, QueuedOrPending)
        /\ QueuedOrPending \in States /\ TypeOK
    BY <1>0, <1>2, <1>3
  <2>2. /\ user' \in [Users -> UserType]
        /\ user[u].on \notin Waiting
        /\ user'[u].on = QueuedOrPending /\ user'[u].pins = asks
        /\ \A v \in Users \ {u} : /\ user'[v].on = user[v].on
                                  /\ user'[v].pins = user[v].pins \ asks
        /\ requests' \in Nat
    <3> HIDE DEF asks
    <3> QED
      BY <2>1, AsksKeeps
  <2> QED
    BY <2>2
<1>7. \A v \in Users : user'[v].on # "debounce"
  BY <1>5, <1>6 DEF QueuedOrPending
<1>8. IsPending(queue) => WriteBase = writingTimeBuffer
  BY DEF WriteBase
<1>9. pins \in SUBSET Pins /\ writingTimeBuffer' = byte /\ AddDoWriteCb(byte)
  BY <1>3
<1> HIDE DEF byte
<1>10. /\ \A q \in pins : byte[q] = asked'[q]
       /\ \A q \in Pins \ pins : asked'[q] = asked[q]
       /\ IsPending(queue) => \A q \in Pins \ pins : byte[q] = writingTimeBuffer[q]
  BY <1>4, <1>8
<1>11. \A v \in Users \ {u} :
         /\ user'[v].on = user[v].on \/ (user[v].on = "debounce" /\ user'[v].on = "lost")
         /\ user'[v].pins \subseteq user[v].pins
         /\ user'[v].on \in Waiting => user'[v].pins \cap pins = {}
  BY <1>6
<1>12. user'[u].pins = pins
  BY <1>6
<1> HIDE DEF pins
<1> QED
  BY <1>3, <1>4, <1>5, <1>6, <1>7, <1>9, <1>10, <1>11, <1>12, RequestKeeps

LEMMA WriteStateTells ==
  ASSUME IInv, PInv, NEW u \in Users, NEW byte \in Bytes, WriteState(u, byte)
  PROVE  PInv' /\ TellsTheTruth
<1> USE NoneAssumption
<1>0. TypeOK /\ Debounce /\ Buffering
  BY DEF IInv, PInv
<1>1. /\ user[u].on \notin Waiting
      /\ user' = [v \in Users |->
                    IF v = u THEN [on |-> QueuedOrPending, pins |-> Pins]
                    ELSE IF beforeWritingBuffer # None THEN Lost(user[v])
                    ELSE Overridden(user[v], Pins)]
      /\ debouncing' = (debouncing /\ beforeWritingBuffer = None)
      /\ writingTimeBuffer' = byte
      /\ AddDoWriteCb(byte)
      /\ asked' = byte
      /\ UNCHANGED chip
  BY DEF WriteState
<1>2. user \in [Users -> UserType]
  BY <1>0, Types
<1>3. ~debouncing'
  BY <1>0, <1>1 DEF Debounce
<1>4. IInv'
  BY WriteStateKeeps
<1>5. user' \in [Users -> UserType]
  BY <1>4, TypedIs DEF IInv, Typed
<1>6. user'[u].on = QueuedOrPending /\ user'[u].pins = Pins
  BY <1>1
<1>7. ASSUME NEW v \in Users \ {u}
      PROVE  /\ user'[v].on = user[v].on \/ (user[v].on = "debounce" /\ user'[v].on = "lost")
             /\ user'[v].pins \subseteq user[v].pins
             /\ user'[v].on \in Waiting => user'[v].pins \cap Pins = {}
             /\ user'[v].on # "debounce"
  <2>1. user[v] \in UserType /\ Told("lost").on = "lost" /\ Told("lost").pins = {}
    BY <1>2, ToldType DEF States
  <2>2. CASE beforeWritingBuffer # None
    <3>1. user'[v] = Lost(user[v])
      BY <1>1, <2>2
    <3>2. ~IsPending(queue)
      BY <1>0, <2>2 DEF Debounce, Buffering
    <3>3. user[v].on \notin {"pending", "finish"}
      BY <3>2 DEF PInv, Waits
    <3>4. CASE user[v].on = "debounce"
      BY <2>1, <3>1, <3>4 DEF Lost, Waiting
    <3>5. CASE user[v].on # "debounce"
      BY <2>1, <3>1, <3>3, <3>5 DEF Lost, Waiting
    <3> QED
      BY <3>4, <3>5
  <2>3. CASE beforeWritingBuffer = None
    <3>1. user'[v] = Overridden(user[v], Pins)
      BY <1>1, <2>3
    <3>2. Overridden(user[v], Pins).on = user[v].on /\ Overridden(user[v], Pins).pins = {}
      BY <2>1 DEF Overridden, UserType
    <3>3. user[v].on # "debounce"
      BY <1>0, <2>3 DEF Debounce, Buffering
    <3> QED
      BY <3>1, <3>2, <3>3
  <2> QED
    BY <2>2, <2>3
<1>8. \A v \in Users : user'[v].on # "debounce"
  BY <1>6, <1>7 DEF QueuedOrPending
<1> DEFINE pins == Pins
<1>9. /\ pins \in SUBSET Pins
      /\ \A p \in pins : byte[p] = asked'[p]
      /\ \A p \in Pins \ pins : asked'[p] = asked[p]
      /\ IsPending(queue) => \A p \in Pins \ pins : byte[p] = writingTimeBuffer[p]
      /\ user'[u].pins = pins
      /\ \A v \in Users \ {u} :
           /\ user'[v].on = user[v].on \/ (user[v].on = "debounce" /\ user'[v].on = "lost")
           /\ user'[v].pins \subseteq user[v].pins
           /\ user'[v].on \in Waiting => user'[v].pins \cap pins = {}
  BY <1>1, <1>6, <1>7
<1> HIDE DEF pins
<1> QED
  BY <1>1, <1>3, <1>5, <1>6, <1>8, <1>9, RequestKeeps

LEMMA BufferPinTells ==
  ASSUME IInv, PInv, NEW u \in Users, NEW p \in Pins, NEW level \in BOOLEAN,
         BufferPin(u, p, level)
  PROVE  PInv' /\ TellsTheTruth
<1> USE NoneAssumption
<1>0. TypeOK /\ Debounce /\ Numbered /\ SomeCall /\ Waits /\ Buffering
  BY DEF IInv, PInv
<1> DEFINE base == IF beforeWritingBuffer = None THEN currentState ELSE beforeWritingBuffer
           on == "debounce"
<1>1. base \in Bytes /\ (debouncing => base = beforeWritingBuffer)
  BY <1>0 DEF TypeOK, Debounce
<1>2. /\ ~IsPending(queue)
      /\ Asks(u, {p}, on)
      /\ beforeWritingBuffer' = Set(base, p, level)
      /\ debouncing'
      /\ asked' = Set(asked, p, level)
      /\ UNCHANGED <<queue, calls, lastCall>>
  BY DEF BufferPin
<1> HIDE DEF base
<1>3. /\ beforeWritingBuffer'[p] = asked'[p]
      /\ \A q \in Pins \ {p} : beforeWritingBuffer'[q] = base[q] /\ asked'[q] = asked[q]
  BY <1>0, <1>1, <1>2 DEF TypeOK, Bytes, Set
<1>4. on \in States /\ on # "resolved" /\ on = "debounce"
  BY DEF States, Waiting
<1> HIDE DEF on
<1>5. /\ user[u].on \notin Waiting
      /\ user'[u].on = on /\ user'[u].pins = {p}
      /\ \A v \in Users \ {u} : /\ user'[v].on = user[v].on
                                /\ user'[v].pins = user[v].pins \ {p}
  <2> DEFINE asks == {p}
  <2>1. asks \in SUBSET Pins /\ Asks(u, asks, on) /\ on \in States /\ TypeOK
    BY <1>0, <1>2, <1>4
  <2>2. /\ user' \in [Users -> UserType]
        /\ user[u].on \notin Waiting
        /\ user'[u].on = on /\ user'[u].pins = asks
        /\ \A v \in Users \ {u} : /\ user'[v].on = user[v].on
                                  /\ user'[v].pins = user[v].pins \ asks
        /\ requests' \in Nat
    <3> HIDE DEF asks
    <3> QED
      BY <2>1, AsksKeeps
  <2> QED
    BY <2>2
<1>6. TellsTheTruth
  <2>1. \A v \in Users : ~Resolves(v)
    BY <1>4, <1>5 DEF Resolves
  <2> QED
    BY <2>1 DEF TellsTheTruth, ToldWhenWritten, ToldWhenStarted
<1>7. Numbered' /\ SomeCall' /\ Sends'
  BY <1>0, <1>2 DEF Numbered, SomeCall, Sends
<1>8. Waits'
  BY <1>0, <1>2, <1>4, <1>5 DEF Waits
<1>9. ASSUME NEW v \in Users, user'[v].on = "debounce", NEW q \in user'[v].pins
      PROVE  beforeWritingBuffer'[q] = asked'[q]
  <2>1. CASE v = u
    BY <1>3, <1>5, <1>9, <2>1
  <2>2. CASE v # u
    <3>1. user[v].on = "debounce" /\ q \in user[v].pins /\ q # p
      BY <1>5, <1>9, <2>2
    <3>2. q \in Pins
      BY <1>0, <3>1, Types DEF UserType
    <3>3. debouncing /\ beforeWritingBuffer[q] = asked[q]
      BY <1>0, <3>1 DEF Buffering
    <3> QED
      BY <1>1, <1>3, <3>1, <3>2, <3>3
  <2> QED
    BY <2>1, <2>2
<1>10. Buffering'
  BY <1>2, <1>9 DEF Buffering
<1> QED
  BY <1>6, <1>7, <1>8, <1>10 DEF PInv

(* Nobody waits for the queue after this.                                  *)
LEMMA NobodyWaits ==
  ASSUME ~IsPending(queue'), \A v \in Users : user'[v].on \notin {"pending", "finish"}
  PROVE  SomeCall' /\ Waits' /\ Sends'
BY DEF SomeCall, Waits, Sends

LEMMA CancelTells ==
  ASSUME IInv, PInv, Cancel
  PROVE  PInv' /\ TellsTheTruth
<1>0. TypeOK /\ ItemHasItsTimer /\ Numbered
  BY DEF IInv, PInv
<1>1. /\ cancels' = cancels + 1
      /\ debouncing' = FALSE
      /\ queue' = EndItem(queue)
      /\ user' = [v \in Users |->
                    IF user[v].on \in {"pending", "finish"}
                    THEN Told("resolved") ELSE Lost(user[v])]
      /\ UNCHANGED <<calls, lastCall>>
  BY DEF Cancel
<1>2. user \in [Users -> UserType] /\ queue \in QueueType /\ Timed(queue)
  BY <1>0, Types DEF ItemHasItsTimer, Timed
<1>3. ~IsPending(queue')
  BY <1>1, <1>2, EndItemKeeps
<1>4. ASSUME NEW v \in Users
      PROVE  /\ user'[v].on \notin Waiting
             /\ user[v].on = "debounce" => user'[v].on = "lost"
  <2>1. user[v] \in UserType /\ Told("resolved").on = "resolved" /\ Told("lost").on = "lost"
    BY <1>2, ToldType DEF States
  <2>2. user'[v] = IF user[v].on \in {"pending", "finish"}
                   THEN Told("resolved") ELSE Lost(user[v])
    BY <1>1
  <2> QED
    BY <2>1, <2>2 DEF Lost, Waiting
<1>5. SomeCall' /\ Waits' /\ Sends'
  BY <1>3, <1>4, NobodyWaits DEF Waiting
<1>6. Buffering' /\ Numbered'
  BY <1>0, <1>1, <1>4 DEF Buffering, Numbered, Waiting
<1>7. TellsTheTruth
  <2>1. cancels' # cancels
    BY <1>0, <1>1 DEF TypeOK
  <2> QED
    BY <1>4, <2>1 DEF TellsTheTruth, ToldWhenWritten, ToldWhenStarted, Resolves
<1> QED
  BY <1>5, <1>6, <1>7 DEF PInv

LEMMA DebounceEndsTells ==
  ASSUME IInv, PInv, DebounceEnds
  PROVE  PInv' /\ TellsTheTruth
<1> USE NoneAssumption
<1>0. TypeOK /\ ItemHasItsTimer /\ Debounce /\ Numbered /\ SomeCall /\ Waits /\ Buffering
  BY DEF IInv, PInv
<1>1. debouncing /\ beforeWritingBuffer \in Bytes /\ ~IsPending(queue)
  BY <1>0 DEF DebounceEnds, Debounce, TypeOK, Buffering
<1>2. /\ debouncing' = FALSE
      /\ user' = Settle({"debounce"}, "resolved")
      /\ AddDoWriteCb(beforeWritingBuffer)
      /\ UNCHANGED <<asked>>
  BY <1>1 DEF DebounceEnds
<1> DEFINE byte == beforeWritingBuffer
<1>3. /\ calls' = (calls \ {}) \cup {Call(lastCall + 1, byte)}
      /\ lastCall' = lastCall + 1
  BY <1>1, <1>2 DEF AddDoWriteCb
<1>4. /\ Numbered' /\ calls' # {}
      /\ ~LateCall' => calls' = {Call(lastCall + 1, byte)}
  <2> DEFINE gone == {}
  <2>1. gone \subseteq calls /\ calls' = (calls \ gone) \cup {Call(lastCall + 1, byte)}
    BY <1>3
  <2> HIDE DEF gone
  <2> QED
    BY <1>0, <1>1, <1>3, <2>1, OneMoreCall
<1>5. \A v \in Users : user'[v] = IF user[v].on \in {"debounce"} THEN Told("resolved") ELSE user[v]
  BY <1>0, <1>2, SettleType DEF States
<1>6. Told("resolved").on = "resolved"
  BY ToldType DEF States
<1>7. \A v \in Users : user[v].on \notin {"pending", "finish"}
  BY <1>0, <1>1 DEF Waits
<1>8. \A v \in Users : user'[v].on \notin Waiting
  BY <1>5, <1>6, <1>7 DEF Waiting
<1>9. SomeCall' /\ Waits' /\ Buffering'
  BY <1>2, <1>4, <1>8 DEF SomeCall, Waits, Buffering, Waiting
<1>10. Call(lastCall + 1, byte).at = "sent" /\ Call(lastCall + 1, byte).n = lastCall + 1
       /\ Call(lastCall + 1, byte).byte = byte
  BY DEF Call
<1>11. Sends'
  <2> SUFFICES ASSUME ~LateCall'
               PROVE  \A c \in calls' : c.at # "taken"
    BY <1>8 DEF Sends, Waiting
  <2>1. calls' = {Call(lastCall + 1, byte)}
    BY <1>4
  <2> QED
    BY <1>10, <2>1
<1>12. ToldWhenWritten
  BY <1>7 DEF ToldWhenWritten
<1>13. ToldWhenStarted
  <2> SUFFICES ASSUME NEW v \in Users, user[v].on = "debounce"
               PROVE  \E c \in calls' : /\ c.n = lastCall' /\ c.n # lastCall
                                        /\ \A p \in user[v].pins : c.byte[p] = asked[p]
    BY DEF ToldWhenStarted
  <2>1. Call(lastCall + 1, byte) \in calls' /\ lastCall + 1 # lastCall
    BY <1>0, <1>3 DEF TypeOK
  <2>2. \A p \in user[v].pins : byte[p] = asked[p]
    BY <1>0 DEF Buffering
  <2> QED
    BY <1>3, <1>10, <2>1, <2>2
<1> QED
  BY <1>4, <1>9, <1>11, <1>12, <1>13 DEF PInv, TellsTheTruth

(* The end of an item that rejects everybody who waits for it.             *)
LEMMA RejectedTells ==
  ASSUME IInv, PInv, user' = Settle({"pending", "finish"}, "rejected"),
         ~IsPending(queue'), IsPending(queue) \/ asked' = asked,
         calls' \subseteq calls, UNCHANGED <<lastCall, debouncing, beforeWritingBuffer>>
  PROVE  PInv' /\ TellsTheTruth
<1>0. TypeOK /\ Numbered /\ Buffering
  BY DEF IInv, PInv
<1>1. /\ \A v \in Users : user'[v] = IF user[v].on \in {"pending", "finish"}
                                     THEN Told("rejected") ELSE user[v]
      /\ Told("rejected").on = "rejected"
  BY <1>0, SettleType, ToldType DEF States
<1>2. \A v \in Users : user'[v].on \notin {"pending", "finish"} /\ ~Resolves(v)
  BY <1>1 DEF Resolves
<1>3. SomeCall' /\ Waits' /\ Sends'
  BY <1>2, NobodyWaits
<1>4. Numbered'
  BY <1>0 DEF Numbered
<1>5. Buffering'
  <2>1. \A v \in Users : user'[v].on = "debounce" => user[v] = user'[v]
    BY <1>1
  <2>2. IsPending(queue) => \A v \in Users : user[v].on # "debounce"
    BY <1>0 DEF Buffering
  <2> QED
    BY <1>0, <2>1, <2>2 DEF Buffering
<1> QED
  BY <1>2, <1>3, <1>4, <1>5 DEF PInv, TellsTheTruth, ToldWhenWritten, ToldWhenStarted

LEMMA TimeoutTells ==
  ASSUME IInv, PInv, NEW t \in queue.armed, Timeout(t)
  PROVE  PInv' /\ TellsTheTruth
<1>1. queue \in QueueType /\ ItemHasItsTimer
  BY Types DEF IInv
<1>2. IsPending(queue)
  BY <1>1 DEF ItemHasItsTimer
<1>3. ~IsPending(queue')
  BY <1>1 DEF Timeout, HandleJobTimeout, IsPending, DeleteItem, QueueType
<1> QED
  BY <1>2, <1>3, RejectedTells DEF Timeout

LEMMA WriteFailsTells ==
  ASSUME IInv, PInv, NEW c \in calls, WriteFails(c)
  PROVE  PInv' /\ TellsTheTruth
<1>1. queue \in QueueType /\ Timed(queue)
  BY Types DEF IInv, ItemHasItsTimer, Timed
<1>2. ~IsPending(queue')
  BY <1>1, EndItemKeeps DEF WriteFails
<1> QED
  BY <1>2, RejectedTells DEF WriteFails

LEMMA ChipTakesTells ==
  ASSUME IInv, PInv, NEW c \in calls, ChipTakes(c)
  PROVE  PInv' /\ TellsTheTruth
<1>0. TypeOK /\ Numbered /\ SomeCall /\ Waits /\ Buffering /\ Sends
  BY DEF IInv, PInv
<1> DEFINE d == [c EXCEPT !.at = "taken"]
<1>1. /\ chip' = c.byte
      /\ calls' = (calls \ {c}) \cup {d}
      /\ UNCHANGED <<beforeWritingBuffer, writingTimeBuffer, debouncing, queue, lastCall,
                     user, asked>>
  BY DEF ChipTakes
<1>2. d.at = "taken" /\ d.byte = c.byte /\ d.n = c.n
  BY <1>0, Types DEF CallType
<1> HIDE DEF d
<1>3. Numbered' /\ SomeCall' /\ Waits' /\ Buffering'
  BY <1>0, <1>1, <1>2 DEF Numbered, SomeCall, Waits, Buffering
<1>4. ASSUME IsPending(queue), ~LateCall'
      PROVE  Sends'
  <2>1. \A e \in calls : e = c
    <3> SUFFICES ASSUME NEW e \in calls, e # c
                 PROVE  LateCall'
      BY <1>4
    <3>1. e.n # c.n
      BY <1>0 DEF Numbered
    <3>2. e \in calls' /\ d \in calls' /\ e # d
      BY <1>1, <1>2, <3>1
    <3> QED
      BY <3>2 DEF LateCall
  <2>2. ~LateCall /\ calls' = {d}
    BY <1>1, <2>1 DEF LateCall
  <2>3. \A v \in Users : \A p \in user[v].pins :
          /\ user[v].on = "pending" => c.byte[p] = asked[p]
          /\ user[v].on = "finish" => writingTimeBuffer[p] = asked[p]
    BY <1>0, <1>4, <2>2 DEF Sends
  <2> QED
    BY <1>1, <1>2, <2>2, <2>3 DEF Sends
<1>5. Sends'
  BY <1>1, <1>4 DEF Sends
<1>6. \A v \in Users : ~Resolves(v)
  BY <1>1 DEF Resolves
<1> QED
  BY <1>3, <1>5, <1>6 DEF PInv, TellsTheTruth, ToldWhenWritten, ToldWhenStarted

LEMMA WriteSucceedsTells ==
  ASSUME IInv, PInv, NEW c \in calls, WriteSucceeds(c)
  PROVE  PInv' /\ TellsTheTruth
<1> USE NoneAssumption
<1>0. /\ TypeOK /\ ItemHasItsTimer /\ WriteFindsItsBuffer
      /\ Numbered /\ SomeCall /\ Waits /\ Buffering /\ Sends
  BY DEF IInv, PInv
<1>1. /\ c.at = "taken"
      /\ queue' = HandleCbSuccess(queue, lastCall + 1)
      /\ user' = PendingSucceeds
      /\ UNCHANGED <<beforeWritingBuffer, debouncing, chip, asked>>
  BY DEF WriteSucceeds
<1>2. queue \in QueueType /\ Timed(queue) /\ lastCall \in Nat /\ lastCall + 1 \in Nat \ {0}
  BY <1>0, Types DEF ItemHasItsTimer, Timed
<1>3. (IsPending(queue') <=> HasQueue(queue)) /\ ~HasQueue(queue')
  BY <1>1, <1>2, SuccessKeeps
<1>4. \A v \in Users :
        /\ user[v].on = "pending" => user'[v].on = "resolved"
        /\ user[v].on = "finish" =>
             HasQueue(queue) /\ user'[v].on = "pending" /\ user'[v].pins = user[v].pins
        /\ user[v].on # "pending" /\ user[v].on # "finish" => user'[v] = user[v]
  BY <1>0, <1>1, PendingSucceedsIs DEF Waits
<1>5. Waits'
  BY <1>3, <1>4 DEF Waits
<1>6. Buffering'
  <2>1. \A v \in Users : user'[v].on = "debounce" => user'[v] = user[v]
    BY <1>4
  <2>2. IsPending(queue') => IsPending(queue)
    BY <1>3, PendingIfQueued
  <2> QED
    BY <1>0, <1>1, <2>1, <2>2 DEF Buffering
<1>7. TellsTheTruth
  <2>1. ToldWhenStarted
    BY <1>4 DEF ToldWhenStarted, Resolves
  <2>2. ASSUME ~LateCall
        PROVE  ToldWhenWritten
    <3> SUFFICES ASSUME NEW v \in Users, Resolves(v), user[v].on \in {"pending", "finish"},
                        NEW p \in user[v].pins
                 PROVE  chip[p] = asked[p]
      BY DEF ToldWhenWritten
    <3>1. user[v].on = "pending"
      BY <1>4 DEF Resolves
    <3>2. IsPending(queue)
      BY <1>0, <3>1 DEF Waits
    <3> QED
      BY <1>0, <1>1, <2>2, <3>1, <3>2 DEF Sends
  <2> QED
    BY <2>1, <2>2 DEF TellsTheTruth
<1>8. CASE HasQueue(queue)
  <2>1. /\ lastCall' = lastCall + 1
        /\ calls' = (calls \ {c}) \cup {Call(lastCall + 1, writingTimeBuffer)}
        /\ writingTimeBuffer' = writingTimeBuffer
        /\ writingTimeBuffer \in Bytes
    BY <1>0, <1>8, PendingIfQueued DEF WriteSucceeds, WriteFindsItsBuffer, TypeOK
  <2>2. /\ Numbered' /\ calls' # {}
        /\ ~LateCall' => calls' = {Call(lastCall + 1, writingTimeBuffer)} /\ calls = {c}
    <3> DEFINE gone == {c}
    <3>1. gone \subseteq calls /\ calls' = (calls \ gone) \cup {Call(lastCall + 1, writingTimeBuffer)}
      BY <2>1
    <3>2. /\ Numbered' /\ calls' # {}
          /\ ~LateCall' => calls' = {Call(lastCall + 1, writingTimeBuffer)} /\ calls = gone
      <4> HIDE DEF gone
      <4> QED
        BY <1>0, <2>1, <3>1, OneMoreCall
    <3> QED
      BY <3>2
  <2>3. /\ Call(lastCall + 1, writingTimeBuffer).at = "sent"
        /\ Call(lastCall + 1, writingTimeBuffer).byte = writingTimeBuffer
    BY DEF Call
  <2>4. ASSUME ~LateCall'
        PROVE  Sends'
    <3>1. ~LateCall /\ IsPending(queue)
      BY <1>8, <2>2, <2>4, PendingIfQueued DEF LateCall
    <3>2. \A v \in Users : \A p \in user[v].pins :
            user[v].on = "finish" => writingTimeBuffer[p] = asked[p]
      BY <1>0, <3>1 DEF Sends
    <3>3. \A v \in Users : user'[v].on # "finish"
      BY <1>4
    <3>4. \A v \in Users : user'[v].on = "pending" =>
            user[v].on = "finish" /\ user'[v].pins = user[v].pins
      BY <1>4
    <3> QED
      BY <1>1, <2>2, <2>3, <2>4, <3>2, <3>3, <3>4 DEF Sends
  <2>5. Sends' /\ SomeCall'
    BY <2>2, <2>4 DEF Sends, SomeCall
  <2> QED
    BY <1>5, <1>6, <1>7, <2>2, <2>5 DEF PInv
<1>9. CASE ~HasQueue(queue)
  <2>1. calls' = calls \ {c} /\ lastCall' = lastCall /\ ~IsPending(queue')
    BY <1>3, <1>9 DEF WriteSucceeds
  <2>2. Numbered' /\ SomeCall' /\ Sends'
    BY <1>0, <2>1 DEF Numbered, SomeCall, Sends
  <2> QED
    BY <1>5, <1>6, <1>7, <2>2 DEF PInv
<1> QED
  BY <1>8, <1>9

LEMMA StepTells ==
  ASSUME IInv, PInv, [Next]_vars
  PROVE  PInv' /\ (TellsTheTruth \/ UNCHANGED vars)
<1>1. CASE UNCHANGED vars
  <2>1. LateCall' <=> LateCall
    BY <1>1 DEF vars, LateCall
  <2> QED
    BY <1>1, <2>1 DEF vars, PInv, Numbered, SomeCall, Waits, Buffering, Sends
<1>2. ASSUME NEW u \in Users, NEW p \in Pins, NEW level \in BOOLEAN,
             WritePin(u, p, level) \/ BufferPin(u, p, level)
      PROVE  PInv' /\ TellsTheTruth
  BY <1>2, WritePinTells, BufferPinTells
<1>3. ASSUME NEW u \in Users, NEW byte \in Bytes, WriteState(u, byte)
      PROVE  PInv' /\ TellsTheTruth
  BY <1>3, WriteStateTells
<1>4. CASE Cancel
  BY <1>4, CancelTells
<1>5. CASE DebounceEnds
  BY <1>5, DebounceEndsTells
<1>6. ASSUME NEW t \in queue.armed, Timeout(t)
      PROVE  PInv' /\ TellsTheTruth
  BY <1>6, TimeoutTells
<1>7. ASSUME NEW c \in calls, ChipTakes(c) \/ WriteSucceeds(c) \/ WriteFails(c)
      PROVE  PInv' /\ TellsTheTruth
  BY <1>7, ChipTakesTells, WriteSucceedsTells, WriteFailsTells
<1> QED
  BY <1>1, <1>2, <1>3, <1>4, <1>5, <1>6, <1>7 DEF Next

LEMMA InitPromises ==
  ASSUME Init
  PROVE  PInv
<1>1. calls = {} /\ ~IsPending(queue) /\ ~debouncing
  BY DEF Init, NoItems, IsPending
<1>2. \A u \in Users : user[u].on = "idle"
  BY ToldType DEF Init, States
<1> QED
  BY <1>1, <1>2 DEF PInv, Numbered, SomeCall, Waits, Buffering, Sends

(* A promise of write() or writeState() that is resolved tells that the    *)
(* chip has the levels it asked for, or, after a debounce, that they are   *)
(* being sent: over timeouts, failures and cancels too, while no call that *)
(* was given up on is under way, and however requests were merged.         *)
THEOREM ResolvedIsWritten == Spec => ResolvedMeansWritten
<1>1. Init => IInv /\ PInv
  BY InitHolds, InitPromises
<1>2. IInv /\ PInv /\ [Next]_vars => IInv' /\ PInv' /\ [TellsTheTruth]_vars
  BY StepKeeps, StepTells
<1> QED
  BY <1>1, <1>2, PTL DEF Spec, ResolvedMeansWritten, TellsTheTruth
=============================================================================
