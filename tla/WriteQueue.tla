------------------------------ MODULE WriteQueue ------------------------------
(***************************************************************************)
(* The bounded in-memory write queue in front of SQLite                     *)
(* (infrastructure/persistence/write-queue.ts) and the batch sink it feeds  *)
(* (SqliteStore.applyWriteBatch).  Every operation of the class is a        *)
(* function from one store record to the next, so that SqliteStore can      *)
(* compose them exactly as the code does: an enqueue may flush, push and    *)
(* flush again inside one synchronous call.                                 *)
(*                                                                          *)
(* A write is named by its ticket, the position of the call among all write *)
(* calls; pin and row contents are abstracted to the ticket that wrote them.*)
(***************************************************************************)
EXTENDS Naturals, FiniteSets, Sequences, SequencesExt

CONSTANTS
  Sessions,      (* session ids that own a pin                              *)
  Tables,        (* append-only tables: telemetry, dataset, outcomes        *)
  MaxBatchSize,  (* size trigger of a flush                                 *)
  Capacity,      (* hard bound of the pending buffer                        *)
  RowLimit,      (* rows an append-only table keeps                         *)
  MaxTicket,     (* bound: write calls made in one behaviour                *)
  Cutoffs        (* bound: rows up to which ticket may have left the        *)
                 (* retention window when an eviction runs                  *)

ASSUME BatchAssumption    == MaxBatchSize \in Nat \ {0}
ASSUME CapacityAssumption == Capacity \in Nat \ {0}
ASSUME RowLimitAssumption == RowLimit \in Nat \ {0}
ASSUME MaxTicketAssumption == MaxTicket \in Nat
ASSUME CutoffsAssumption == Cutoffs \subseteq 0 .. MaxTicket /\ 0 \in Cutoffs

Ticket == 0 .. MaxTicket      (* 0: before the first call                   *)

DURABLE_OP_KINDS == {"put-pin", "delete-pin"}

WriteOp == [kind : DURABLE_OP_KINDS, key : Sessions, ticket : Ticket]
             \cup [kind : {"append"}, key : Tables, ticket : Ticket]

Durable(op) == op.kind \in DURABLE_OP_KINDS

(* What the pins table holds for a session: the write that last touched it  *)
(* and whether it left a row (the ticket of a deleted row is history).      *)
PinRow == [ticket : Ticket, live : BOOLEAN]
NoRow  == [ticket |-> 0, live |-> FALSE]

RowOf(op) == [ticket |-> op.ticket, live |-> op.kind = "put-pin"]

-----------------------------------------------------------------------------
(* The sink: one transaction applies a batch in FIFO order.                 *)

WritesPin(op, s) == Durable(op) /\ op.key = s

(* Position of the last pin write of s in a batch: empty or a singleton.    *)
LatestWrite(batch, s) ==
  {i \in DOMAIN batch :
     /\ WritesPin(batch[i], s)
     /\ \A j \in DOMAIN batch : j > i => ~WritesPin(batch[j], s)}

(* Upserts and deletes of one session overwrite each other, so the          *)
(* transaction leaves the row of the last one.                              *)
ApplyPins(pins, batch) ==
  [s \in Sessions |->
     LET last == LatestWrite(batch, s)
     IN  IF last = {} THEN pins[s] ELSE RowOf(batch[CHOOSE i \in last : TRUE])]

Appended(batch, t) ==
  {batch[i].ticket : i \in {j \in DOMAIN batch : ~Durable(batch[j]) /\ batch[j].key = t}}

(* Mutant: eviction deletes from the wrong end.                             *)
EvictNewest(rows, cut) ==
  LET fresh == {r \in rows : r > cut}
  IN  {r \in fresh : Cardinality({x \in fresh : x < r}) < RowLimit}

(* Rows a table keeps once eviction has run: rows older than the window     *)
(* (tickets up to cut) go first, then the oldest beyond RowLimit.           *)
Evict(rows, cut) ==
  LET fresh == {r \in rows : r > cut}
  IN  {r \in fresh : Cardinality({x \in fresh : x > r}) < RowLimit}

(* Eviction runs only for a table the batch touched.  The cut never reaches *)
(* a row of the batch itself: it was stamped within this flush interval.    *)
ApplyRows(rows, batch, cut) ==
  [t \in Tables |->
     LET new == Appended(batch, t)
     IN  IF new = {} THEN rows[t]
         ELSE Evict(rows[t] \cup new, IF \A n \in new : cut < n THEN cut ELSE 0)]

(* Mutant: ops are counted as flushed before the transaction runs.          *)
SinkCountsFirst(w, batch, ok, cut) ==
  IF ok
  THEN [w EXCEPT !.pins    = ApplyPins(@, batch),
                 !.rows    = ApplyRows(@, batch, cut),
                 !.flushed = @ + Len(batch),
                 !.threw   = FALSE]
  ELSE [w EXCEPT !.flushed = @ + Len(batch),
                 !.lost    = @ + Len(batch),
                 !.stale   = @ \cup {s \in Sessions : LatestWrite(batch, s) # {}},
                 !.newest  = [t \in Tables |-> IF @[t] \in Appended(batch, t)
                                               THEN 0 ELSE @[t]],
                 !.faulty  = TRUE,
                 !.threw   = TRUE]

(* Mutant: the ops of a batch are written outside a transaction, so that a  *)
(* failure leaves the first one on disk.                                    *)
SinkNotAtomic(w, batch, ok, cut) ==
  IF ok
  THEN [w EXCEPT !.pins    = ApplyPins(@, batch),
                 !.rows    = ApplyRows(@, batch, cut),
                 !.flushed = @ + Len(batch),
                 !.threw   = FALSE]
  ELSE [w EXCEPT !.pins   = ApplyPins(@, <<batch[1]>>),
                 !.lost   = @ + Len(batch),
                 !.stale  = @ \cup {s \in Sessions : LatestWrite(batch, s) # {}},
                 !.newest = [t \in Tables |-> 0],
                 !.faulty = TRUE,
                 !.threw  = TRUE]

(* One call of the sink.  A failed transaction writes nothing and the batch *)
(* is gone: the caller has already emptied the buffer.                      *)
Sink(w, batch, ok, cut) ==
  IF ok
  THEN [w EXCEPT !.pins    = ApplyPins(@, batch),
                 !.rows    = ApplyRows(@, batch, cut),
                 !.flushed = @ + Len(batch),
                 !.threw   = FALSE]
  ELSE [w EXCEPT !.lost   = @ + Len(batch),
                 !.stale  = @ \cup {s \in Sessions : LatestWrite(batch, s) # {}},
                 !.newest = [t \in Tables |-> IF @[t] \in Appended(batch, t)
                                              THEN 0 ELSE @[t]],
                 !.faulty = TRUE,
                 !.threw  = TRUE]

-----------------------------------------------------------------------------
(* BoundedWriteQueue.                                                       *)

Flush(w, ok, cut) ==
  IF w.pending = <<>>
  THEN [w EXCEPT !.threw = FALSE]
  ELSE Sink([w EXCEPT !.pending = <<>>], w.pending, ok, cut)

(* The first lossy op of the buffer: empty or a singleton.                  *)
OldestLossy(pending) ==
  {i \in DOMAIN pending :
     /\ ~Durable(pending[i])
     /\ \A j \in DOMAIN pending : j < i => Durable(pending[j])}

(* Mutants: the oldest op goes, whatever its kind; the buffer is taken for  *)
(* full one op late.                                                        *)
MakeRoomDropHead(w, op, ok, cut) ==
  IF Len(w.pending) < Capacity THEN [w EXCEPT !.threw = FALSE]
  ELSE IF Durable(op) THEN Flush(w, ok, cut)
  ELSE [w EXCEPT !.pending = Tail(@), !.dropped = @ + 1, !.threw = FALSE]

MakeRoomLate(w, op, ok, cut) ==
  LET oldest == OldestLossy(w.pending)
  IN  IF Len(w.pending) <= Capacity THEN [w EXCEPT !.threw = FALSE]
      ELSE IF Durable(op) \/ oldest = {} THEN Flush(w, ok, cut)
      ELSE [w EXCEPT !.pending = RemoveAt(@, CHOOSE i \in oldest : TRUE),
                     !.dropped = @ + 1,
                     !.threw   = FALSE]

(* Backpressure, applied only when the buffer is at capacity: a durable op, *)
(* or a buffer of durable ops only, flushes; otherwise the oldest lossy op  *)
(* is spliced out.                                                          *)
MakeRoom(w, op, ok, cut) ==
  LET oldest == OldestLossy(w.pending)
  IN  IF Len(w.pending) < Capacity THEN [w EXCEPT !.threw = FALSE]
      ELSE IF Durable(op) \/ oldest = {} THEN Flush(w, ok, cut)
      ELSE [w EXCEPT !.pending = RemoveAt(@, CHOOSE i \in oldest : TRUE),
                     !.dropped = @ + 1,
                     !.threw   = FALSE]

(* Mutant: the op goes to the front of the buffer.                          *)
PushFront(w, op) ==
  [w EXCEPT !.pending  = <<op>> \o @,
            !.enqueued = @ + 1,
            !.stale    = IF Durable(op) THEN @ \ {op.key} ELSE @,
            !.newest   = IF Durable(op) THEN @ ELSE [@ EXCEPT ![op.key] = op.ticket],
            !.latest   = IF Durable(op) THEN @ ELSE op.ticket]

Push(w, op) ==
  [w EXCEPT !.pending  = Append(@, op),
            !.enqueued = @ + 1,
            !.stale    = IF Durable(op) THEN @ \ {op.key} ELSE @,
            !.newest   = IF Durable(op) THEN @ ELSE [@ EXCEPT ![op.key] = op.ticket],
            !.latest   = IF Durable(op) THEN @ ELSE op.ticket]

(* Mutants: the size trigger is missing; a delete goes to the database past *)
(* the buffer.                                                              *)
EnqueueNeverTriggers(w, op, io) ==
  LET roomy == MakeRoom(w, op, io.room, io.cut)
  IN  IF roomy.threw THEN roomy ELSE Push(roomy, op)

EnqueueDeleteFirst(w, op, io) ==
  LET roomy == MakeRoom(w, op, io.room, io.cut)
      held  == Push(roomy, op)
  IN  IF op.kind = "delete-pin" THEN Sink(w, <<op>>, io.room, io.cut)
      ELSE IF roomy.threw THEN roomy
      ELSE IF Len(held.pending) >= MaxBatchSize THEN Flush(held, io.size, io.cut)
      ELSE held

(* Enqueue on an open queue.  io.room and io.size say whether the sink      *)
(* succeeds if backpressure, respectively the size trigger, calls it.  A    *)
(* throw while making room leaves the op unqueued.                          *)
EnqueueOpen(w, op, io) ==
  LET roomy == MakeRoom(w, op, io.room, io.cut)
      held  == Push(roomy, op)
  IN  IF roomy.threw THEN roomy
      ELSE IF Len(held.pending) >= MaxBatchSize THEN Flush(held, io.size, io.cut)
      ELSE held

(* Mutant: a lossy op after close is taken back from the dropped count.     *)
EnqueueClosedUncounts(w, op, io) ==
  LET written == Sink(w, <<op>>, io.room, io.cut)
  IN  IF ~Durable(op) THEN [w EXCEPT !.dropped = @ - 1, !.threw = FALSE]
      ELSE [written EXCEPT !.stale = IF written.threw THEN @ ELSE @ \ {op.key},
                           !.threw = FALSE]

(* Enqueue after close: a lossy op is dropped, a durable op gets one        *)
(* immediate write whose failure is swallowed.                              *)
EnqueueClosed(w, op, io) ==
  LET written == Sink(w, <<op>>, io.room, io.cut)
  IN  IF ~Durable(op) THEN [w EXCEPT !.dropped = @ + 1, !.threw = FALSE]
      ELSE [written EXCEPT !.stale = IF written.threw THEN @ ELSE @ \ {op.key},
                           !.threw = FALSE]

Enqueue(w, op, io) ==
  IF w.closed THEN EnqueueClosed(w, op, io) ELSE EnqueueOpen(w, op, io)

CloseQueue(w, ok, cut) ==
  IF w.closed THEN [w EXCEPT !.threw = FALSE]
  ELSE Flush([w EXCEPT !.closed = TRUE], ok, cut)
=============================================================================
