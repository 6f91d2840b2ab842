---------------------------- MODULE QueueOverride ----------------------------
(***************************************************************************)
(* system/lib/QueueOverride.ts: a callback that is called now, and at most *)
(* one that is called next, which a later one replaces.  The code keeps    *)
(* this per id; its only user, the logic of port expanders, has one id.    *)
(*                                                                         *)
(* The operators act on a record:                                          *)
(*   item    "none"; "pending", a callback was called; or "queued", one    *)
(*           more waits.  The queued callback and finishPromised are set   *)
(*           and deleted together;                                         *)
(*   handle  runningTimeout: the number of a timer, or 0;                  *)
(*   armed   the timers the event loop holds.                              *)
(* The timer of a call has the number of the call.                         *)
(***************************************************************************)
EXTENDS Naturals

NoItems == [item |-> "none", handle |-> 0, armed |-> {}]

IsPending(oq) == oq.item # "none"
HasQueue(oq) == oq.item = "queued"

(* A mutant: the handle is forgotten and the timer goes on.                *)
ForgetTimeout(oq) == [oq EXCEPT !.handle = 0]

(* clearTimeout *)
ClearTimeout(oq) == [oq EXCEPT !.handle = 0, !.armed = @ \ {oq.handle}]

(* A mutant: no timer is set.                                              *)
StartCbUntimed(oq, n) == oq

(* startCb: the timer is set; the callback is called by who uses this.     *)
StartCb(oq, n) == [oq EXCEPT !.handle = n, !.armed = @ \cup {n}]

(* add of a callback: call number n, or the one that waits.                *)
AddCb(oq, n) ==
  IF IsPending(oq) THEN [oq EXCEPT !.item = "queued"]
  ELSE StartCb([oq EXCEPT !.item = "pending"], n)

DeleteItem(oq) == [oq EXCEPT !.item = "none"]

(* handleCbSuccess, startNextStep, startQueue: call number n of what waits *)
HandleCbSuccess(oq, n) ==
  IF HasQueue(oq)
  THEN StartCb([ClearTimeout(oq) EXCEPT !.item = "pending"], n)
  ELSE IF IsPending(oq) THEN DeleteItem(ClearTimeout(oq)) ELSE oq

(* handleCbError, and stop()                                               *)
EndItem(oq) == IF IsPending(oq) THEN DeleteItem(ClearTimeout(oq)) ELSE oq

(* Timer t fires: handleJobTimeout deletes the item whose timer it may be. *)
HandleJobTimeout(oq, t) == DeleteItem([oq EXCEPT !.armed = @ \ {t}])
=============================================================================
