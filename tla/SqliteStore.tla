------------------------------ MODULE SqliteStore ------------------------------
(***************************************************************************)
(* SqliteStore as its callers see it: the pin and append calls of the       *)
(* routing hot path, the reads that flush first, the interval timer, close, *)
(* and the end of the process at any moment, after which the store is       *)
(* opened again on what the disk holds.                                     *)
(*                                                                          *)
(* Every call is synchronous on the event loop, so a call is one step; the  *)
(* interleavings are those of calls, timer ticks and process death.         *)
(***************************************************************************)
EXTENDS WriteQueue

VARIABLES
  store,    (* queue, disk and the bookkeeping the properties need          *)
  ticket,   (* write calls so far                                           *)
  want,     (* the last pin write each session's caller asked for           *)
  result    (* the last call and how it ended for its caller                *)

vars == <<store, ticket, want, result>>

(* Fields of store.  Queue: pending, closed and the statistics (the count   *)
(* of flush cycles is left out).  Disk: open, pins, rows.  Bookkeeping:     *)
(* threw (the last sink call failed), lost (ops drained and never written), *)
(* stale (sessions whose last pin write a failed sink call took), newest    *)
(* (last append to each table that the queue took and no failure lost),     *)
(* latest (last append the queue took), faulty (some sink call of this      *)
(* process failed).                                                         *)
Store ==
  [pending : Seq(WriteOp), closed : BOOLEAN,
   enqueued : Nat, dropped : Nat, flushed : Nat,
   open : BOOLEAN, pins : [Sessions -> PinRow], rows : [Tables -> SUBSET Ticket],
   threw : BOOLEAN, lost : Nat, stale : SUBSET Sessions,
   newest : [Tables -> Ticket], latest : Ticket, faulty : BOOLEAN]

Opened(pins, rows) ==
  [pending |-> <<>>, closed |-> FALSE,
   enqueued |-> 0, dropped |-> 0, flushed |-> 0,
   open |-> TRUE, pins |-> pins, rows |-> rows,
   threw |-> FALSE, lost |-> 0, stale |-> {},
   newest |-> [t \in Tables |-> 0], latest |-> 0, faulty |-> FALSE]

Calls == {"open", "putSessionPin", "deleteSessionPin", "append", "read", "interval", "close"}

(* resolved / rejected: the promise of an async call; returned / thrown: a  *)
(* synchronous call; warned: the interval timer's catch.                    *)
Outcomes == {"resolved", "rejected", "returned", "thrown", "warned"}

(* The sink can only succeed on an open database.                           *)
SinkOutcome == IF store.open THEN BOOLEAN ELSE {FALSE}

IO == [room : SinkOutcome, size : SinkOutcome, cut : Cutoffs]

Init ==
  /\ store = Opened([s \in Sessions |-> NoRow], [t \in Tables |-> {}])
  /\ ticket = 0
  /\ want = [s \in Sessions |-> NoRow]
  /\ result = [call |-> "open", outcome |-> "returned"]

-----------------------------------------------------------------------------
(* putSessionPin and deleteSessionPin are async functions around a          *)
(* synchronous enqueue: a throw inside becomes a rejected promise.  Until   *)
(* the queue holds the op, the session's last wish is nowhere but in the    *)
(* caller's memory.                                                         *)
WritePin(call, kind, s) ==
  /\ ticket < MaxTicket
  /\ ticket' = ticket + 1
  /\ \E io \in IO :
       LET op    == [kind |-> kind, key |-> s, ticket |-> ticket + 1]
           asked == [store EXCEPT !.stale = @ \cup {s}]
       IN  /\ store' = Enqueue(asked, op, io)
           /\ want' = [want EXCEPT ![s] = RowOf(op)]
  /\ result' = [call |-> call, outcome |-> IF store'.threw THEN "rejected" ELSE "resolved"]

PutSessionPin(s)    == WritePin("putSessionPin", "put-pin", s)
DeleteSessionPin(s) == WritePin("deleteSessionPin", "delete-pin", s)

(* appendTelemetry, appendDatasetRecord, appendOutcomeRecord: synchronous,  *)
(* a sink failure reaches the caller.                                       *)
AppendRecord(t) ==
  /\ ticket < MaxTicket
  /\ ticket' = ticket + 1
  /\ \E io \in IO :
       store' = Enqueue(store, [kind |-> "append", key |-> t, ticket |-> ticket + 1], io)
  /\ result' = [call |-> "append", outcome |-> IF store'.threw THEN "thrown" ELSE "returned"]
  /\ UNCHANGED want

(* getSessionPin, the list* readers and the two telemetry updates all flush *)
(* before they touch the database; a closed database makes them throw.      *)
FlushThenRead ==
  /\ \E io \in IO : store' = Flush(store, io.room, io.cut)
  /\ result' = [call |-> "read",
                outcome |-> IF store'.threw \/ ~store.open THEN "thrown" ELSE "returned"]
  /\ UNCHANGED <<ticket, want>>

(* Mutant: the timer waits for a full batch.                                *)
IntervalFlushFullBatch ==
  /\ ~store.closed
  /\ Len(store.pending) >= MaxBatchSize
  /\ \E io \in IO : store' = Flush(store, io.room, io.cut)
  /\ result' = [call |-> "interval", outcome |-> IF store'.threw THEN "warned" ELSE "returned"]
  /\ UNCHANGED <<ticket, want>>

(* The timer runs until close clears it; its catch turns a sink failure     *)
(* into a warning.                                                          *)
IntervalFlush ==
  /\ ~store.closed
  /\ \E io \in IO : store' = Flush(store, io.room, io.cut)
  /\ result' = [call |-> "interval", outcome |-> IF store'.threw THEN "warned" ELSE "returned"]
  /\ UNCHANGED <<ticket, want>>

(* close flushes, then closes the database; if the flush throws the         *)
(* database stays open behind a closed queue.                               *)
Close ==
  /\ \E io \in IO :
       LET drained == CloseQueue(store, io.room, io.cut)
       IN  store' = [drained EXCEPT !.open = @ /\ drained.threw]
  /\ result' = [call |-> "close", outcome |-> IF store'.threw THEN "thrown" ELSE "returned"]
  /\ UNCHANGED <<ticket, want>>

(* The process ends, killed or not, and a new one opens the same database:  *)
(* the buffer is gone and the disk is all the new process knows.            *)
Restart ==
  /\ store' = Opened(store.pins, store.rows)
  /\ want' = store.pins
  /\ result' = [call |-> "open", outcome |-> "returned"]
  /\ UNCHANGED ticket

Next ==
  \/ \E s \in Sessions : PutSessionPin(s) \/ DeleteSessionPin(s)
  \/ \E t \in Tables : AppendRecord(t)
  \/ FlushThenRead
  \/ IntervalFlush
  \/ Close
  \/ Restart

Spec == Init /\ [][Next]_vars

(* setInterval keeps firing while the process lives and the queue is open.  *)
FairSpec == Spec /\ WF_vars(IntervalFlush)

-----------------------------------------------------------------------------
(* What getSessionPin would return for each session if it were called now   *)
(* and its flush succeeded.                                                 *)
Visible == ApplyPins(store.pins, store.pending)

TypeOK ==
  /\ store \in Store
  /\ ticket \in Ticket
  /\ want \in [Sessions -> PinRow]
  /\ result \in [call : Calls, outcome : Outcomes]

(* Between calls the buffer is within capacity and below the size trigger.  *)
(* With MaxBatchSize <= Capacity, as the defaults 64 and 1024 have it, the  *)
(* buffer is never full when enqueue looks at it, so the backpressure       *)
(* branches of enqueue never run.                                           *)
PendingBounded ==
  /\ Len(store.pending) <= Capacity
  /\ Len(store.pending) < MaxBatchSize
  /\ store.closed => store.pending = <<>>

(* Under the default sizes the queue drops nothing while it is open: the    *)
(* only drops are appends made after close.                                 *)
NoBackpressureDrop ==
  MaxBatchSize <= Capacity /\ ~store.closed => store.dropped = 0

(* A session's visible pin is the last one asked for, through backpressure, *)
(* size-triggered, interval and read flushes, unless a failing transaction  *)
(* took that very request; and no request goes missing while every          *)
(* transaction commits.                                                     *)
ReadYourWrites ==
  /\ \A s \in Sessions \ store.stale : Visible[s] = want[s]
  /\ ~store.faulty => store.stale = {}

(* The statistics account for every accepted op of an open queue: written,  *)
(* dropped, still pending or lost to a failed transaction.                  *)
StatsBalance ==
  ~store.closed =>
    store.enqueued = store.flushed + store.dropped + Len(store.pending) + store.lost

(* The latest append the queue took is in the buffer or in its table:       *)
(* neither drop-oldest nor eviction takes the newest, which the telemetry   *)
(* updates that follow a route rely on.  Under the default sizes this holds *)
(* for each table; where backpressure can fire, an append to one table may  *)
(* push the newest row of another out, so it holds for the newest of all.   *)
NewestRowKept ==
  \A t \in Tables :
    /\ store.newest[t] # 0
    /\ MaxBatchSize <= Capacity \/ store.newest[t] = store.latest
    => store.newest[t] \in store.rows[t] \cup Appended(store.pending, t)

(* The buffer is in call order and entirely newer than the disk.            *)
FifoTickets ==
  LET p == store.pending
  IN  /\ \A i, j \in DOMAIN p : i < j => p[i].ticket < p[j].ticket
      /\ \A i \in DOMAIN p : p[i].ticket <= ticket
      /\ \A s \in Sessions : store.pins[s].ticket <= ticket
      /\ \A i \in DOMAIN p, s \in Sessions :
           WritesPin(p[i], s) => store.pins[s].ticket < p[i].ticket

(* No step replaces a pin row by an older one, nor brings back a row that a *)
(* later delete removed, crashes and failed transactions included.          *)
PinsMoveForward ==
  [][\A s \in Sessions : store'.pins[s].ticket >= store.pins[s].ticket]_vars

(* The pins as a write-behind map: what the store implements.               *)
PinMap == INSTANCE WriteBehind
            WITH Key <- Sessions, Value <- PinRow, Stamp <- [r \in PinRow |-> r.ticket],
                 visible <- Visible, durable <- store.pins

PinMapSpec == PinMap!Spec

(* Whatever the buffer holds leaves it, all at once and however fast new    *)
(* writes come: no accepted write stays in memory for ever while the        *)
(* process lives.                                                           *)
EverythingDrains == store.pending # <<>> ~> store.pending = <<>>

(* store-port.ts, caller contract 2: "Hot-path write promises MUST NOT      *)
(* reject asynchronously", which lets the pinner discard them with void.    *)
HotPathWritesNeverReject ==
  result.call \in {"putSessionPin", "deleteSessionPin"} => result.outcome # "rejected"
=============================================================================
