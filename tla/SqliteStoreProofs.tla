-------------------------- MODULE SqliteStoreProofs --------------------------
(***************************************************************************)
(* Proofs about SqliteStore for every set of sessions and tables, every     *)
(* batch size, capacity and row limit.  The lemmas come in the order of the *)
(* operators of WriteQueue: what a batch does to the pins, then what the    *)
(* sink, a flush, an enqueue and a close do to a store record.              *)
(***************************************************************************)
EXTENDS SqliteStore, SequenceTheorems, FiniteSetTheorems, TLAPS

-----------------------------------------------------------------------------
(* Batches.                                                                 *)

(* A batch maps pin rows to pin rows.                                       *)
LEMMA ApplyPinsType ==
  ASSUME NEW pins \in [Sessions -> PinRow], NEW batch \in Seq(WriteOp)
  PROVE  ApplyPins(pins, batch) \in [Sessions -> PinRow]
<1> SUFFICES ASSUME NEW s \in Sessions
             PROVE  ApplyPins(pins, batch)[s] \in PinRow
  BY DEF ApplyPins
<1>1. CASE LatestWrite(batch, s) = {}
  BY <1>1 DEF ApplyPins
<1>2. CASE LatestWrite(batch, s) # {}
  <2> DEFINE i == CHOOSE k \in LatestWrite(batch, s) : TRUE
  <2>1. i \in DOMAIN batch
    BY <1>2 DEF LatestWrite
  <2>2. batch[i] \in WriteOp
    BY <2>1
  <2>3. RowOf(batch[i]) \in PinRow
    BY <2>2 DEF RowOf, PinRow, WriteOp
  <2> QED BY <1>2, <2>3 DEF ApplyPins
<1> QED BY <1>1, <1>2

(* The empty batch changes nothing.                                         *)
LEMMA ApplyPinsEmpty ==
  ASSUME NEW pins \in [Sessions -> PinRow]
  PROVE  ApplyPins(pins, <<>>) = pins
<1>1. \A s \in Sessions : LatestWrite(<<>>, s) = {}
  BY DEF LatestWrite
<1> QED BY <1>1 DEF ApplyPins

(* There is at most one last write of a session in a batch.                 *)
LEMMA LatestWriteUnique ==
  ASSUME NEW batch \in Seq(WriteOp), NEW s \in Sessions,
         NEW i \in LatestWrite(batch, s)
  PROVE  LatestWrite(batch, s) = {i}
<1> DOMAIN batch \subseteq Int
  OBVIOUS
<1> QED BY DEF LatestWrite

(* The last write of a session decides its row.                             *)
LEMMA ApplyPinsAt ==
  ASSUME NEW pins, NEW batch \in Seq(WriteOp), NEW s \in Sessions,
         NEW i \in LatestWrite(batch, s)
  PROVE  ApplyPins(pins, batch)[s] = RowOf(batch[i])
<1>1. LatestWrite(batch, s) = {i}
  BY LatestWriteUnique
<1>2. (CHOOSE k \in {i} : TRUE) = i
  OBVIOUS
<1> QED BY <1>1, <1>2 DEF ApplyPins

(* Without a write of a session the batch leaves its row alone.             *)
LEMMA ApplyPinsSkip ==
  ASSUME NEW pins, NEW batch, NEW s \in Sessions, LatestWrite(batch, s) = {}
  PROVE  ApplyPins(pins, batch)[s] = pins[s]
BY DEF ApplyPins

(* Appending an op to a batch applies it after the batch.                   *)
LEMMA ApplyPinsAppend ==
  ASSUME NEW pins \in [Sessions -> PinRow], NEW batch \in Seq(WriteOp), NEW op \in WriteOp
  PROVE  ApplyPins(pins, Append(batch, op)) =
           IF Durable(op) THEN [ApplyPins(pins, batch) EXCEPT ![op.key] = RowOf(op)]
           ELSE ApplyPins(pins, batch)
<1> DEFINE longer == Append(batch, op)
<1>1. /\ longer \in Seq(WriteOp)
      /\ DOMAIN longer = 1 .. Len(batch) + 1
      /\ DOMAIN batch = 1 .. Len(batch)
      /\ Len(batch) \in Nat
      /\ longer[Len(batch) + 1] = op
      /\ \A i \in DOMAIN batch : longer[i] = batch[i]
  OBVIOUS
<1> HIDE DEF longer
<1>2. ASSUME NEW s \in Sessions, WritesPin(op, s)
      PROVE  ApplyPins(pins, longer)[s] = RowOf(op)
  <2>1. Len(batch) + 1 \in LatestWrite(longer, s)
    BY <1>1, <1>2 DEF LatestWrite
  <2>2. LatestWrite(longer, s) = {Len(batch) + 1}
    BY <1>1, <2>1, LatestWriteUnique
  <2> QED BY <1>1, <2>2 DEF ApplyPins
<1>3. ASSUME NEW s \in Sessions, ~WritesPin(op, s)
      PROVE  ApplyPins(pins, longer)[s] = ApplyPins(pins, batch)[s]
  <2>1. LatestWrite(longer, s) = LatestWrite(batch, s)
    BY <1>1, <1>3 DEF LatestWrite
  <2>2. CASE LatestWrite(batch, s) = {}
    BY <2>1, <2>2 DEF ApplyPins
  <2>3. CASE LatestWrite(batch, s) # {}
    <3> DEFINE i == CHOOSE k \in LatestWrite(batch, s) : TRUE
    <3>1. i \in DOMAIN batch
      BY <2>3 DEF LatestWrite
    <3> QED BY <1>1, <2>1, <2>3, <3>1 DEF ApplyPins
  <2> QED BY <2>2, <2>3
<1>4. op.key \in Sessions \/ ~Durable(op)
  BY DEF WriteOp, Durable, DURABLE_OP_KINDS
<1> QED BY <1>2, <1>3, <1>4 DEF ApplyPins, WritesPin, longer

(* Splicing out position k shifts what follows it by one.                   *)
LEMMA RemoveAtProperties ==
  ASSUME NEW S, NEW seq \in Seq(S), NEW k \in DOMAIN seq
  PROVE  /\ RemoveAt(seq, k) \in Seq(S)
         /\ Len(RemoveAt(seq, k)) = Len(seq) - 1
         /\ \A i \in 1 .. Len(seq) - 1 :
              RemoveAt(seq, k)[i] = IF i < k THEN seq[i] ELSE seq[i + 1]
<1> DEFINE front == SubSeq(seq, 1, k - 1)
           back  == SubSeq(seq, k + 1, Len(seq))
<1>1. /\ Len(seq) \in Nat /\ k \in 1 .. Len(seq) /\ DOMAIN seq = 1 .. Len(seq)
      /\ \A i \in 1 .. Len(seq) : seq[i] \in S
  OBVIOUS
<1>2. /\ front \in Seq(S) /\ Len(front) = k - 1
      /\ \A i \in 1 .. k - 1 : front[i] = seq[i]
  BY <1>1, SubSeqProperties
<1>3. /\ back \in Seq(S) /\ Len(back) = Len(seq) - k
      /\ \A i \in 1 .. Len(seq) - k : back[i] = seq[k + i]
  <2>1. /\ k + 1 \in Int /\ Len(seq) \in Int /\ \A i \in k + 1 .. Len(seq) : seq[i] \in S
    BY <1>1
  <2>2. /\ back \in Seq(S)
        /\ Len(back) = IF k + 1 <= Len(seq) THEN Len(seq) - (k + 1) + 1 ELSE 0
        /\ \A i \in 1 .. Len(seq) - (k + 1) + 1 : back[i] = seq[(k + 1) + i - 1]
    BY <2>1, SubSeqProperties
  <2>3. Len(seq) - (k + 1) + 1 = Len(seq) - k
    BY <1>1
  <2>4. \A i \in 1 .. Len(seq) - k : (k + 1) + i - 1 = k + i
    BY <1>1
  <2> HIDE DEF back
  <2> QED BY <1>1, <2>2, <2>3, <2>4
<1> HIDE DEF front, back
<1>4. Len(front) + Len(back) = Len(seq) - 1
  BY <1>1, <1>2, <1>3
<1>5. /\ front \o back \in Seq(S)
      /\ Len(front \o back) = Len(seq) - 1
      /\ \A i \in 1 .. Len(seq) - 1 :
           (front \o back)[i] = IF i <= Len(front) THEN front[i] ELSE back[i - Len(front)]
  <2>1. /\ front \o back \in Seq(S)
        /\ Len(front \o back) = Len(front) + Len(back)
        /\ \A i \in 1 .. Len(front) + Len(back) :
             (front \o back)[i] = IF i <= Len(front) THEN front[i] ELSE back[i - Len(front)]
    BY <1>2, <1>3, ConcatProperties, Zenon
  <2> QED BY <1>4, <2>1
<1>6. ASSUME NEW i \in 1 .. Len(seq) - 1
      PROVE  (front \o back)[i] = IF i < k THEN seq[i] ELSE seq[i + 1]
  <2>1. CASE i < k
    <3>1. i <= Len(front) /\ i \in 1 .. k - 1
      BY <1>1, <1>2, <2>1
    <3> QED BY <1>2, <1>5, <2>1, <3>1
  <2>2. CASE ~(i < k)
    <3>1. ~(i <= Len(front)) /\ i - Len(front) \in 1 .. Len(seq) - k
      BY <1>1, <1>2, <2>2
    <3>2. k + (i - Len(front)) = i + 1
      BY <1>1, <1>2
    <3> QED BY <1>3, <1>5, <2>2, <3>1, <3>2
  <2> QED BY <2>1, <2>2
<1> QED BY <1>5, <1>6 DEF RemoveAt, front, back

(* Splicing an op other than a pin write out of a batch leaves its effect   *)
(* on the pins as it was.                                                   *)
LEMMA ApplyPinsRemove ==
  ASSUME NEW pins \in [Sessions -> PinRow], NEW batch \in Seq(WriteOp),
         NEW k \in DOMAIN batch, ~Durable(batch[k])
  PROVE  ApplyPins(pins, RemoveAt(batch, k)) = ApplyPins(pins, batch)
<1> DEFINE short == RemoveAt(batch, k)
<1>1. /\ short \in Seq(WriteOp)
      /\ Len(batch) \in Nat
      /\ k \in 1 .. Len(batch)
      /\ DOMAIN short = 1 .. Len(batch) - 1
      /\ DOMAIN batch = 1 .. Len(batch)
      /\ \A i \in DOMAIN short : short[i] = IF i < k THEN batch[i] ELSE batch[i + 1]
  <2>1. /\ short \in Seq(WriteOp)
        /\ Len(short) = Len(batch) - 1
        /\ \A i \in 1 .. Len(batch) - 1 : short[i] = IF i < k THEN batch[i] ELSE batch[i + 1]
    BY RemoveAtProperties
  <2> HIDE DEF short
  <2> QED BY <2>1
<1> HIDE DEF short
<1>2. ASSUME NEW s \in Sessions
      PROVE  ApplyPins(pins, short)[s] = ApplyPins(pins, batch)[s]
  <2>1. ASSUME NEW i \in LatestWrite(batch, s)
        PROVE  ApplyPins(pins, short)[s] = ApplyPins(pins, batch)[s]
    <3> DEFINE j == IF i < k THEN i ELSE i - 1
    <3>1. i \in DOMAIN batch /\ i # k /\ WritesPin(batch[i], s)
      BY <2>1 DEF LatestWrite, WritesPin
    <3>2. j \in DOMAIN short /\ short[j] = batch[i]
      BY <1>1, <3>1
    <3>3. \A m \in DOMAIN short : m > j => ~WritesPin(short[m], s)
      BY <1>1, <2>1, <3>1 DEF LatestWrite
    <3>4. j \in LatestWrite(short, s)
      BY <3>1, <3>2, <3>3 DEF LatestWrite
    <3> QED BY <1>1, <2>1, <3>2, <3>4, ApplyPinsAt
  <2>2. ASSUME LatestWrite(batch, s) = {}
        PROVE  LatestWrite(short, s) = {}
    <3> SUFFICES ASSUME NEW j \in LatestWrite(short, s) PROVE FALSE
      OBVIOUS
    <3> DEFINE i == IF j < k THEN j ELSE j + 1
    <3>1. j \in DOMAIN short /\ WritesPin(short[j], s)
      BY DEF LatestWrite
    <3>2. i \in DOMAIN batch /\ WritesPin(batch[i], s)
      BY <1>1, <3>1
    <3>3. ASSUME NEW m \in DOMAIN batch, m > i, WritesPin(batch[m], s)
          PROVE  FALSE
      <4> DEFINE n == IF m < k THEN m ELSE m - 1
      <4>1. m # k
        BY <3>3 DEF WritesPin
      <4>2. n \in DOMAIN short /\ n > j
        BY <1>1, <3>1, <3>3, <4>1
      <4>3. short[n] = batch[m]
        <5>1. CASE m < k
          BY <1>1, <4>2, <5>1
        <5>2. CASE m > k
          <6>1. ~(n < k) /\ n + 1 = m
            BY <1>1, <5>2
          <6> QED BY <1>1, <4>2, <6>1
        <5> QED BY <1>1, <4>1, <5>1, <5>2
      <4> QED BY <3>3, <4>2, <4>3 DEF LatestWrite
    <3> QED BY <2>2, <3>2, <3>3 DEF LatestWrite
  <2> QED BY <2>1, <2>2, ApplyPinsSkip
<1> QED BY <1>1, <1>2 DEF ApplyPins, short

(* Eviction and appends keep the tables sets of tickets.                    *)
LEMMA ApplyRowsType ==
  ASSUME NEW rows \in [Tables -> SUBSET Ticket], NEW batch \in Seq(WriteOp), NEW cut
  PROVE  ApplyRows(rows, batch, cut) \in [Tables -> SUBSET Ticket]
<1>1. \A t \in Tables : Appended(batch, t) \subseteq Ticket
  BY DEF Appended, WriteOp
<1>2. \A R \in SUBSET Ticket : \A c : Evict(R, c) \subseteq Ticket
  BY DEF Evict
<1> QED BY <1>1, <1>2 DEF ApplyRows

-----------------------------------------------------------------------------
(* Store records.  A queue operation moves a store record w to v in one of  *)
(* three ways, as far as the pins are concerned.                            *)

View(w) == ApplyPins(w.pins, w.pending)

Kept(w, v) ==
  v.pins = w.pins /\ View(v) = View(w) /\ v.stale = w.stale /\ v.faulty = w.faulty

Synced(w, v) ==
  v.pins = View(w) /\ View(v) = View(w) /\ v.stale = w.stale /\ v.faulty = w.faulty

Dropped(w, v) ==
  /\ v.pins = w.pins /\ View(v) = w.pins
  /\ v.faulty /\ w.stale \subseteq v.stale
  /\ \A s \in Sessions \ v.stale : View(w)[s] = w.pins[s]

Balanced(w) == w.enqueued = w.flushed + w.dropped + Len(w.pending) + w.lost

(* Bounds of an open or closed queue between calls.                         *)
Bounded(w) ==
  /\ Len(w.pending) <= Capacity
  /\ Len(w.pending) < MaxBatchSize
  /\ w.closed => w.pending = <<>>

(* Every pin wish outside stale is visible; while nothing failed, only the  *)
(* sessions of S may be stale.                                              *)
Honoured(w, wish, S) ==
  /\ \A s \in Sessions \ w.stale : View(w)[s] = wish[s]
  /\ ~w.faulty => w.stale \subseteq S

(* Nothing visible or durable is newer than the n-th write.                 *)
Recent(w, n) ==
  \A s \in Sessions : View(w)[s].ticket <= n /\ w.pins[s].ticket <= n

LEMMA HonouredPreserved ==
  ASSUME NEW w, NEW v, NEW wish, NEW S, Honoured(w, wish, S),
         Kept(w, v) \/ Synced(w, v) \/ Dropped(w, v)
  PROVE  Honoured(v, wish, S)
<1>1. CASE Kept(w, v)
  BY <1>1 DEF Kept, Honoured
<1>2. CASE Synced(w, v)
  BY <1>2 DEF Synced, Honoured
<1>3. CASE Dropped(w, v)
  BY <1>3 DEF Dropped, Honoured
<1> QED BY <1>1, <1>2, <1>3

LEMMA SinkType ==
  ASSUME NEW w \in Store, NEW batch \in Seq(WriteOp), NEW ok \in BOOLEAN, NEW cut
  PROVE  Sink(w, batch, ok, cut) \in Store
<1> DEFINE pins   == ApplyPins(w.pins, batch)
           rows   == ApplyRows(w.rows, batch, cut)
           stale  == w.stale \cup {s \in Sessions : LatestWrite(batch, s) # {}}
           newest == [t \in Tables |-> IF w.newest[t] \in Appended(batch, t)
                                       THEN 0 ELSE w.newest[t]]
           count  == Len(batch)
           done   == w.flushed + count
           gone   == w.lost + count
<1>1. pins \in [Sessions -> PinRow]
  BY ApplyPinsType DEF Store
<1>2. rows \in [Tables -> SUBSET Ticket]
  BY ApplyRowsType DEF Store
<1>3. stale \in SUBSET Sessions /\ count \in Nat
  BY DEF Store
<1>4. newest \in [Tables -> Ticket]
  BY MaxTicketAssumption DEF Store, Ticket
<1>5. Sink(w, batch, ok, cut) =
        IF ok THEN [w EXCEPT !.pins = pins, !.rows = rows,
                             !.flushed = done, !.threw = FALSE]
        ELSE [w EXCEPT !.lost = gone, !.stale = stale, !.newest = newest,
                       !.faulty = TRUE, !.threw = TRUE]
  BY DEF Sink
<1>6. done \in Nat /\ gone \in Nat
  BY <1>3 DEF Store
<1> HIDE DEF pins, rows, stale, newest, count, done, gone
<1>7. CASE ok
  BY <1>1, <1>2, <1>5, <1>6, <1>7 DEF Store
<1>8. CASE ~ok
  <2> DEFINE counted == [w EXCEPT !.lost = gone, !.stale = stale]
             failed  == [counted EXCEPT !.newest = newest, !.faulty = TRUE, !.threw = TRUE]
  <2>1. counted \in Store
    BY <1>3, <1>6 DEF Store
  <2> HIDE DEF counted
  <2>2. failed \in Store
    BY <1>4, <2>1 DEF Store
  <2>3. Sink(w, batch, ok, cut) = failed
    BY <1>5, <1>8 DEF counted
  <2> QED BY <2>2, <2>3
<1> QED BY <1>7, <1>8

(* What a flush does: it empties the buffer, and either the disk takes all  *)
(* of it or the disk keeps what it had.                                     *)
LEMMA FlushFacts ==
  ASSUME NEW w \in Store, NEW ok \in BOOLEAN, NEW cut
  PROVE  LET v == Flush(w, ok, cut) IN
         /\ v \in Store
         /\ v.pending = <<>> /\ v.closed = w.closed /\ v.open = w.open
         /\ ~v.threw => Synced(w, v)
         /\ v.threw => Dropped(w, v)
         /\ Balanced(w) => Balanced(v)
<1> DEFINE v == Flush(w, ok, cut)
           batch == w.pending
           drained == [w EXCEPT !.pending = <<>>]
<1>1. /\ batch \in Seq(WriteOp) /\ w.pins \in [Sessions -> PinRow] /\ Len(batch) \in Nat
      /\ <<>> \in Seq(WriteOp) /\ Len(<<>>) = 0
  BY DEF Store
<1>2. /\ drained \in Store /\ drained.pins = w.pins /\ drained.stale = w.stale
      /\ drained.pending = <<>> /\ drained.closed = w.closed /\ drained.faulty = w.faulty
      /\ drained.open = w.open
      /\ drained.enqueued = w.enqueued /\ drained.flushed = w.flushed
      /\ drained.dropped = w.dropped /\ drained.lost = w.lost
  BY <1>1 DEF Store
<1>3. CASE w.pending = <<>>
  <2>1. v = [w EXCEPT !.threw = FALSE]
    BY <1>3 DEF Flush
  <2>2. /\ v \in Store /\ v.pending = <<>> /\ v.closed = w.closed /\ v.open = w.open
        /\ v.pins = w.pins /\ v.stale = w.stale /\ v.faulty = w.faulty /\ ~v.threw
        /\ v.enqueued = w.enqueued /\ v.flushed = w.flushed
        /\ v.dropped = w.dropped /\ v.lost = w.lost
    BY <1>3, <2>1 DEF Store
  <2>3. View(w) = w.pins
    BY <1>1, <1>3, ApplyPinsEmpty DEF View
  <2> HIDE DEF v
  <2>4. Synced(w, v)
    BY <1>3, <2>2, <2>3 DEF Synced, View
  <2>5. Balanced(w) => Balanced(v)
    BY <1>3, <2>2 DEF Balanced
  <2> QED BY <2>2, <2>4, <2>5 DEF v
<1>4. CASE w.pending # <<>>
  <2>1. v = Sink(drained, batch, ok, cut)
    BY <1>4 DEF Flush
  <2>2. v \in Store
    BY <1>1, <1>2, <2>1, SinkType
  <2>3. CASE ok
    <3>1. /\ v.pending = <<>> /\ v.closed = w.closed /\ v.open = w.open
          /\ v.pins = ApplyPins(w.pins, batch)
          /\ v.stale = w.stale /\ v.faulty = w.faulty /\ ~v.threw
          /\ v.enqueued = w.enqueued /\ v.flushed = w.flushed + Len(batch)
          /\ v.dropped = w.dropped /\ v.lost = w.lost
      BY <1>2, <2>1, <2>3 DEF Sink, Store
    <3> HIDE DEF v
    <3>2. View(v) = v.pins
      BY <2>2, <3>1, ApplyPinsEmpty DEF View, Store
    <3>3. Synced(w, v)
      BY <3>1, <3>2 DEF Synced, View
    <3>4. Balanced(w) => Balanced(v)
      BY <1>1, <3>1 DEF Balanced, Store
    <3> QED BY <2>2, <3>1, <3>3, <3>4 DEF v
  <2>4. CASE ~ok
    <3>1. /\ v.pending = <<>> /\ v.closed = w.closed /\ v.open = w.open
          /\ v.pins = w.pins
          /\ v.stale = w.stale \cup {s \in Sessions : LatestWrite(batch, s) # {}}
          /\ v.faulty /\ v.threw
          /\ v.enqueued = w.enqueued /\ v.flushed = w.flushed
          /\ v.dropped = w.dropped /\ v.lost = w.lost + Len(batch)
      BY <1>2, <2>1, <2>4 DEF Sink, Store
    <3> HIDE DEF v
    <3>2. View(v) = w.pins
      BY <1>1, <3>1, ApplyPinsEmpty DEF View
    <3>3. \A s \in Sessions \ v.stale : View(w)[s] = w.pins[s]
      BY <3>1, ApplyPinsSkip DEF View
    <3>4. Dropped(w, v)
      BY <3>1, <3>2, <3>3 DEF Dropped
    <3>5. Balanced(w) => Balanced(v)
      BY <1>1, <3>1 DEF Balanced, Store
    <3> QED BY <2>2, <3>1, <3>4, <3>5 DEF v
  <2> QED BY <2>3, <2>4
<1> QED BY <1>3, <1>4

(* Making room leaves space below both bounds, or throws and leaves the     *)
(* buffer empty.                                                            *)
LEMMA MakeRoomFacts ==
  ASSUME NEW w \in Store, NEW op \in WriteOp, NEW ok \in BOOLEAN, NEW cut, Bounded(w)
  PROVE  LET v == MakeRoom(w, op, ok, cut) IN
         /\ v \in Store
         /\ v.closed = w.closed /\ v.open = w.open
         /\ Len(v.pending) < Capacity /\ Len(v.pending) < MaxBatchSize
         /\ v.threw => v.pending = <<>> /\ Dropped(w, v)
         /\ ~v.threw => Kept(w, v) \/ Synced(w, v)
         /\ Balanced(w) => Balanced(v)
<1> DEFINE v == MakeRoom(w, op, ok, cut)
           oldest == OldestLossy(w.pending)
<1>1. /\ w.pending \in Seq(WriteOp) /\ w.pins \in [Sessions -> PinRow]
      /\ Len(w.pending) \in Nat /\ Len(<<>>) = 0
      /\ Capacity \in Nat \ {0} /\ MaxBatchSize \in Nat \ {0}
  BY BatchAssumption, CapacityAssumption DEF Store
<1>2. CASE Len(w.pending) < Capacity
  <2>1. v = [w EXCEPT !.threw = FALSE]
    BY <1>2 DEF MakeRoom
  <2>2. /\ v \in Store /\ v.pending = w.pending /\ v.closed = w.closed /\ v.open = w.open
        /\ v.pins = w.pins /\ v.stale = w.stale /\ v.faulty = w.faulty /\ ~v.threw
        /\ v.enqueued = w.enqueued /\ v.flushed = w.flushed
        /\ v.dropped = w.dropped /\ v.lost = w.lost
    BY <2>1 DEF Store
  <2> HIDE DEF v
  <2>3. Kept(w, v) /\ (Balanced(w) => Balanced(v))
    BY <2>2 DEF Kept, View, Balanced
  <2> QED BY <1>2, <2>2, <2>3 DEF Bounded, v
<1>3. CASE Len(w.pending) >= Capacity /\ (Durable(op) \/ oldest = {})
  <2>1. v = Flush(w, ok, cut)
    BY <1>1, <1>3 DEF MakeRoom
  <2> HIDE DEF v
  <2>2. /\ v \in Store
        /\ v.pending = <<>> /\ v.closed = w.closed /\ v.open = w.open
        /\ ~v.threw => Synced(w, v)
        /\ v.threw => Dropped(w, v)
        /\ Balanced(w) => Balanced(v)
    BY <2>1, FlushFacts
  <2> QED BY <1>1, <2>2 DEF v
<1>4. CASE Len(w.pending) >= Capacity /\ ~(Durable(op) \/ oldest = {})
  <2> DEFINE k == CHOOSE i \in oldest : TRUE
             short == RemoveAt(w.pending, k)
             more == w.dropped + 1
  <2>1. k \in DOMAIN w.pending /\ ~Durable(w.pending[k])
    BY <1>4 DEF OldestLossy
  <2>2. /\ short \in Seq(WriteOp)
        /\ Len(short) = Len(w.pending) - 1
    BY <1>1, <2>1, RemoveAtProperties
  <2>3. ApplyPins(w.pins, short) = ApplyPins(w.pins, w.pending)
    BY <1>1, <2>1, ApplyPinsRemove
  <2>4. v = [w EXCEPT !.pending = short, !.dropped = more, !.threw = FALSE]
    BY <1>1, <1>4 DEF MakeRoom
  <2> more \in Nat
    BY DEF Store
  <2> HIDE DEF short, more, k
  <2>a. v \in Store
    BY <2>2, <2>4 DEF Store
  <2>5. /\ v.pending = short /\ v.closed = w.closed /\ v.open = w.open
        /\ v.pins = w.pins /\ v.stale = w.stale /\ v.faulty = w.faulty /\ ~v.threw
        /\ v.enqueued = w.enqueued /\ v.flushed = w.flushed
        /\ v.dropped = more /\ v.lost = w.lost
    BY <2>4 DEF Store
  <2> HIDE DEF v
  <2>6. Kept(w, v)
    BY <2>3, <2>5 DEF Kept, View
  <2>7. Balanced(w) => Balanced(v)
    <3>1. w.flushed \in Int /\ w.dropped \in Int /\ w.lost \in Int /\ Len(w.pending) \in Int
      BY DEF Store
    <3>2. \A f, d, p, l \in Int : f + d + p + l = f + (d + 1) + (p - 1) + l
      OBVIOUS
    <3>3. /\ v.enqueued = w.enqueued
          /\ v.flushed + v.dropped + Len(v.pending) + v.lost
             = w.flushed + (w.dropped + 1) + (Len(w.pending) - 1) + w.lost
      BY <2>2, <2>5 DEF more
    <3>4. w.flushed + (w.dropped + 1) + (Len(w.pending) - 1) + w.lost
          = w.flushed + w.dropped + Len(w.pending) + w.lost
      BY <3>1, <3>2
    <3> QED BY <3>3, <3>4 DEF Balanced
  <2>8. Len(short) < Capacity /\ Len(short) < MaxBatchSize
    BY <1>1, <2>2 DEF Bounded
  <2> QED BY <2>a, <2>5, <2>6, <2>7, <2>8 DEF v
<1> QED BY <1>1, <1>2, <1>3, <1>4

(* The pins a reader sees once op has been taken.                           *)
After(view, op) == IF Durable(op) THEN [view EXCEPT ![op.key] = RowOf(op)] ELSE view

LEMMA PushFacts ==
  ASSUME NEW w \in Store, NEW op \in WriteOp
  PROVE  LET v == Push(w, op) IN
         /\ v \in Store
         /\ v.closed = w.closed /\ v.open = w.open /\ v.pins = w.pins
         /\ v.faulty = w.faulty /\ v.threw = w.threw
         /\ v.stale = IF Durable(op) THEN w.stale \ {op.key} ELSE w.stale
         /\ Len(v.pending) = Len(w.pending) + 1
         /\ View(v) = After(View(w), op)
         /\ Balanced(w) => Balanced(v)
<1> DEFINE longer == Append(w.pending, op)
           stale  == IF Durable(op) THEN w.stale \ {op.key} ELSE w.stale
           newest == IF Durable(op) THEN w.newest ELSE [w.newest EXCEPT ![op.key] = op.ticket]
           latest == IF Durable(op) THEN w.latest ELSE op.ticket
           more == w.enqueued + 1
           v == Push(w, op)
<1>1. /\ longer \in Seq(WriteOp) /\ Len(longer) = Len(w.pending) + 1
      /\ Len(w.pending) \in Nat
  BY DEF Store
<1>2. stale \in SUBSET Sessions
  BY DEF Store
<1>3. op.ticket \in Ticket /\ (~Durable(op) => op.key \in Tables)
  BY DEF WriteOp, Durable
<1>4. newest \in [Tables -> Ticket] /\ latest \in Ticket
  BY <1>3 DEF Store
<1>5. ApplyPins(w.pins, longer) = After(View(w), op)
  BY ApplyPinsAppend DEF Store, View, After
<1>6. v = [w EXCEPT !.pending = longer, !.enqueued = more,
                    !.stale = stale, !.newest = newest, !.latest = latest]
  BY DEF Push
<1> more \in Nat
  BY DEF Store
<1> HIDE DEF longer, newest, latest, stale, more
<1>a. v \in Store
  BY <1>1, <1>2, <1>4, <1>6 DEF Store
<1>7. /\ v.pending = longer
      /\ v.closed = w.closed /\ v.open = w.open /\ v.pins = w.pins
      /\ v.faulty = w.faulty /\ v.threw = w.threw /\ v.stale = stale
      /\ v.enqueued = more /\ v.flushed = w.flushed
      /\ v.dropped = w.dropped /\ v.lost = w.lost
  BY <1>6 DEF Store
<1> HIDE DEF v
<1>8. View(v) = After(View(w), op)
  BY <1>5, <1>7 DEF View
<1>9. Balanced(w) => Balanced(v)
  <2>1. w.flushed \in Int /\ w.dropped \in Int /\ w.lost \in Int /\ Len(w.pending) \in Int
    BY DEF Store
  <2>2. \A f, d, p, l \in Int : (f + d + p + l) + 1 = f + d + (p + 1) + l
    OBVIOUS
  <2>3. /\ v.enqueued = w.enqueued + 1
        /\ v.flushed + v.dropped + Len(v.pending) + v.lost
           = w.flushed + w.dropped + (Len(w.pending) + 1) + w.lost
    BY <1>1, <1>7 DEF more
  <2>4. (w.flushed + w.dropped + Len(w.pending) + w.lost) + 1
        = w.flushed + w.dropped + (Len(w.pending) + 1) + w.lost
    BY <2>1, <2>2
  <2> QED BY <2>3, <2>4 DEF Balanced
<1> QED BY <1>1, <1>a, <1>7, <1>8, <1>9 DEF v, stale

(* How a call moves the two maps of WriteBehind when it makes the visible   *)
(* map next: it may have synced before or after, or lost what was not synced.*)
MapStep(w, v, next) ==
  \/ View(v) = next   /\ v.pins \in {w.pins, View(w), next}
  \/ View(v) = v.pins /\ v.pins \in {w.pins, View(w)}

(* Such a step brings in no ticket that next does not have.                 *)
LEMMA MapStepRecent ==
  ASSUME NEW w \in Store, NEW v, NEW next, NEW n \in Nat, NEW m \in Nat, n <= m,
         Recent(w, n), MapStep(w, v, next), \A s \in Sessions : next[s].ticket <= m
  PROVE  Recent(v, m)
<1>1. w.pins \in [Sessions -> PinRow] /\ View(w) \in [Sessions -> PinRow]
  BY ApplyPinsType DEF View, Store
<1>2. \A s \in Sessions : w.pins[s].ticket \in Nat /\ View(w)[s].ticket \in Nat
  BY <1>1, MaxTicketAssumption DEF PinRow, Ticket
<1>3. \A s \in Sessions : w.pins[s].ticket <= m /\ View(w)[s].ticket <= m
  BY <1>2 DEF Recent
<1>4. CASE View(v) = next /\ v.pins \in {w.pins, View(w), next}
  BY <1>3, <1>4 DEF Recent
<1>5. CASE View(v) = v.pins /\ v.pins \in {w.pins, View(w)}
  BY <1>3, <1>5 DEF Recent
<1> QED BY <1>4, <1>5 DEF MapStep

Due(op) == IF Durable(op) THEN {op.key} ELSE {}

LEMMA EnqueueOpenFacts ==
  ASSUME NEW w \in Store, NEW op \in WriteOp, NEW wish,
         NEW io \in [room : BOOLEAN, size : BOOLEAN, cut : Cutoffs],
         Bounded(w), ~w.closed, Honoured(w, wish, Due(op)),
         Durable(op) => wish[op.key] = RowOf(op)
  PROVE  LET v == EnqueueOpen(w, op, io) IN
         /\ v \in Store /\ v.closed = w.closed /\ v.open = w.open
         /\ Bounded(v)
         /\ Honoured(v, wish, {})
         /\ MapStep(w, v, After(View(w), op))
         /\ Balanced(w) => Balanced(v)
<1> DEFINE roomy == MakeRoom(w, op, io.room, io.cut)
           held  == Push(roomy, op)
           v     == EnqueueOpen(w, op, io)
<1>1. io.room \in BOOLEAN /\ io.size \in BOOLEAN
  OBVIOUS
<1>2. /\ roomy \in Store /\ roomy.closed = w.closed /\ roomy.open = w.open
      /\ Len(roomy.pending) < Capacity /\ Len(roomy.pending) < MaxBatchSize
      /\ roomy.threw => roomy.pending = <<>> /\ Dropped(w, roomy)
      /\ ~roomy.threw => Kept(w, roomy) \/ Synced(w, roomy)
      /\ Balanced(w) => Balanced(roomy)
  BY <1>1, MakeRoomFacts
<1>3. Honoured(roomy, wish, Due(op))
  BY <1>2, HonouredPreserved
<1>4. /\ Len(roomy.pending) \in Nat /\ Capacity \in Nat /\ MaxBatchSize \in Nat
      /\ roomy.threw \in BOOLEAN
  BY <1>2, BatchAssumption, CapacityAssumption DEF Store
<1> HIDE DEF roomy
<1>5. CASE roomy.threw
  <2>1. v = roomy
    BY <1>5 DEF EnqueueOpen, roomy
  <2>2. Honoured(roomy, wish, {})
    BY <1>2, <1>3, <1>5 DEF Honoured, Dropped
  <2>3. MapStep(w, roomy, After(View(w), op))
    BY <1>2, <1>5 DEF MapStep, Dropped
  <2>4. Bounded(roomy)
    BY <1>2, <1>4, <1>5 DEF Bounded
  <2> QED BY <1>2, <2>1, <2>2, <2>3, <2>4
<1>6. CASE ~roomy.threw
  <2>1. /\ held \in Store /\ held.closed = w.closed /\ held.open = w.open
        /\ held.pins = roomy.pins /\ held.faulty = roomy.faulty
        /\ held.stale = IF Durable(op) THEN roomy.stale \ {op.key} ELSE roomy.stale
        /\ Len(held.pending) = Len(roomy.pending) + 1
        /\ View(held) = After(View(roomy), op)
        /\ Balanced(roomy) => Balanced(held)
    BY <1>2, PushFacts
  <2> HIDE DEF held
  <2>2. /\ View(roomy) = View(w) /\ roomy.pins \in {w.pins, View(w)}
    BY <1>2, <1>6 DEF Kept, Synced
  <2>3. Honoured(held, wish, {})
    <3>1. \A s \in Sessions \ held.stale : View(held)[s] = wish[s]
      <4> SUFFICES ASSUME NEW s \in Sessions \ held.stale
                   PROVE  View(held)[s] = wish[s]
        OBVIOUS
      <4>1. View(roomy) \in [Sessions -> PinRow]
        BY <1>2, ApplyPinsType DEF View, Store
      <4>2. CASE Durable(op) /\ s = op.key
        BY <2>1, <4>1, <4>2 DEF After
      <4>3. CASE ~(Durable(op) /\ s = op.key)
        BY <1>3, <2>1, <4>1, <4>3 DEF After, Honoured
      <4> QED BY <4>2, <4>3
    <3>2. ~held.faulty => held.stale \subseteq {}
      BY <1>3, <2>1 DEF Honoured, Due
    <3> QED BY <3>1, <3>2 DEF Honoured
  <2>4. CASE Len(held.pending) >= MaxBatchSize
    <3>1. v = Flush(held, io.size, io.cut)
      BY <1>6, <2>4 DEF EnqueueOpen, roomy, held
    <3> HIDE DEF v
    <3>2. /\ v \in Store /\ v.pending = <<>> /\ v.closed = held.closed /\ v.open = held.open
          /\ ~v.threw => Synced(held, v)
          /\ v.threw => Dropped(held, v)
          /\ Balanced(held) => Balanced(v)
      BY <1>1, <2>1, <3>1, FlushFacts
    <3>3. Honoured(v, wish, {})
      BY <2>3, <3>2, HonouredPreserved
    <3>4. MapStep(w, v, After(View(w), op))
      BY <2>1, <2>2, <3>2 DEF MapStep, Synced, Dropped
    <3>5. Bounded(v)
      BY <3>2, BatchAssumption, CapacityAssumption DEF Bounded
    <3> QED BY <1>2, <2>1, <3>2, <3>3, <3>4, <3>5 DEF v
  <2>5. CASE ~(Len(held.pending) >= MaxBatchSize)
    <3>1. v = held
      BY <1>6, <2>5 DEF EnqueueOpen, roomy, held
    <3>2. Bounded(held)
      BY <1>2, <1>4, <2>1, <2>5 DEF Bounded
    <3>3. MapStep(w, held, After(View(w), op))
      BY <2>1, <2>2 DEF MapStep
    <3> QED BY <1>2, <2>1, <2>3, <3>1, <3>2, <3>3
  <2> QED BY <2>4, <2>5
<1> QED BY <1>4, <1>5, <1>6

LEMMA EnqueueClosedFacts ==
  ASSUME NEW w \in Store, NEW op \in WriteOp, NEW wish,
         NEW io \in [room : BOOLEAN, size : BOOLEAN, cut : Cutoffs],
         Bounded(w), w.closed, Honoured(w, wish, Due(op)),
         Durable(op) => wish[op.key] = RowOf(op) /\ op.key \in w.stale
  PROVE  LET v == EnqueueClosed(w, op, io) IN
         /\ v \in Store /\ v.closed /\ v.open = w.open
         /\ Bounded(v)
         /\ Honoured(v, wish, {})
         /\ MapStep(w, v, After(View(w), op))
<1> DEFINE v == EnqueueClosed(w, op, io)
           written == Sink(w, <<op>>, io.room, io.cut)
<1>1. w.pending = <<>> /\ w.pins \in [Sessions -> PinRow] /\ io.room \in BOOLEAN
  BY DEF Bounded, Store
<1>2. View(w) = w.pins
  BY <1>1, ApplyPinsEmpty DEF View
<1>3. CASE ~Durable(op)
  <2> DEFINE more == w.dropped + 1
  <2>1. more \in Nat
    BY DEF Store
  <2>2. v = [w EXCEPT !.dropped = more, !.threw = FALSE]
    BY <1>3 DEF EnqueueClosed
  <2> HIDE DEF more
  <2>3. v \in Store
    BY <2>1, <2>2 DEF Store
  <2>4. /\ v.pending = w.pending /\ v.closed = w.closed /\ v.open = w.open
        /\ v.pins = w.pins /\ v.stale = w.stale /\ v.faulty = w.faulty
    BY <2>2 DEF Store
  <2> HIDE DEF v
  <2>5. View(v) = View(w)
    BY <2>4 DEF View
  <2>6. Honoured(v, wish, {}) /\ Bounded(v)
    BY <1>3, <2>4, <2>5 DEF Honoured, Bounded, Due
  <2>7. MapStep(w, v, After(View(w), op))
    BY <1>2, <1>3, <2>4, <2>5 DEF MapStep, After
  <2> QED BY <2>3, <2>4, <2>6, <2>7 DEF v
<1>4. CASE Durable(op)
  <2>1. <<op>> \in Seq(WriteOp) /\ <<op>> = Append(<<>>, op) /\ <<>> \in Seq(WriteOp)
    OBVIOUS
  <2>2. ApplyPins(w.pins, <<op>>) = After(w.pins, op)
    <3>1. ApplyPins(w.pins, Append(<<>>, op)) = After(ApplyPins(w.pins, <<>>), op)
      BY <1>1, <2>1, ApplyPinsAppend DEF After
    <3>2. ApplyPins(w.pins, <<>>) = w.pins
      BY <1>1, ApplyPinsEmpty
    <3> QED BY <2>1, <3>1, <3>2
  <2>3. written \in Store
    BY <1>1, <2>1, SinkType
  <2>4. CASE io.room
    <3>1. /\ written.pending = w.pending /\ written.closed = w.closed /\ written.open = w.open
          /\ written.pins = ApplyPins(w.pins, <<op>>)
          /\ written.stale = w.stale /\ written.faulty = w.faulty /\ ~written.threw
      BY <2>4 DEF Sink, Store
    <3>2. v = [written EXCEPT !.stale = w.stale \ {op.key}, !.threw = FALSE]
      BY <1>4, <3>1 DEF EnqueueClosed
    <3> HIDE DEF written
    <3>3. w.stale \ {op.key} \in SUBSET Sessions
      BY DEF Store
    <3>4. v \in Store
      BY <2>3, <3>2, <3>3 DEF Store
    <3>5. /\ v.pending = w.pending /\ v.closed = w.closed /\ v.open = w.open
          /\ v.pins = After(w.pins, op)
          /\ v.stale = w.stale \ {op.key} /\ v.faulty = w.faulty
      BY <2>2, <2>3, <3>1, <3>2 DEF Store
    <3> HIDE DEF v
    <3>6. View(v) = v.pins
      BY <1>1, <3>4, <3>5, ApplyPinsEmpty DEF View, Store
    <3>7. MapStep(w, v, After(View(w), op))
      BY <1>2, <3>5, <3>6 DEF MapStep
    <3>8. Honoured(v, wish, {})
      BY <1>1, <1>2, <1>4, <3>5, <3>6 DEF Honoured, After, Due
    <3>9. Bounded(v)
      BY <3>5 DEF Bounded
    <3> QED BY <3>4, <3>5, <3>7, <3>8, <3>9 DEF v
  <2>5. CASE ~io.room
    <3>1. /\ written.pending = w.pending /\ written.closed = w.closed /\ written.open = w.open
          /\ written.pins = w.pins /\ w.stale \subseteq written.stale
          /\ written.faulty /\ written.threw
      BY <2>5 DEF Sink, Store
    <3>2. v = [written EXCEPT !.stale = written.stale, !.threw = FALSE]
      BY <1>4, <3>1 DEF EnqueueClosed
    <3> HIDE DEF written
    <3>3. v \in Store
      BY <2>3, <3>2 DEF Store
    <3>4. /\ v.pending = w.pending /\ v.closed = w.closed /\ v.open = w.open
          /\ v.pins = w.pins /\ w.stale \subseteq v.stale /\ v.faulty
      BY <2>3, <3>1, <3>2 DEF Store
    <3> HIDE DEF v
    <3>5. View(v) = w.pins
      BY <1>2, <3>4 DEF View
    <3>6. MapStep(w, v, After(View(w), op)) /\ Honoured(v, wish, {}) /\ Bounded(v)
      BY <1>2, <3>4, <3>5 DEF MapStep, Honoured, Bounded
    <3> QED BY <3>3, <3>4, <3>6 DEF v
  <2> QED BY <1>1, <2>4, <2>5
<1> QED BY <1>3, <1>4

LEMMA EnqueueFacts ==
  ASSUME NEW w \in Store, NEW op \in WriteOp, NEW wish,
         NEW io \in [room : BOOLEAN, size : BOOLEAN, cut : Cutoffs],
         Bounded(w), Honoured(w, wish, Due(op)),
         Durable(op) => wish[op.key] = RowOf(op) /\ op.key \in w.stale
  PROVE  LET v == Enqueue(w, op, io) IN
         /\ v \in Store /\ v.closed = w.closed
         /\ Bounded(v)
         /\ Honoured(v, wish, {})
         /\ MapStep(w, v, After(View(w), op))
         /\ ~w.closed /\ Balanced(w) => Balanced(v)
<1>1. CASE w.closed
  BY <1>1, EnqueueClosedFacts DEF Enqueue
<1>2. CASE ~w.closed
  BY <1>2, EnqueueOpenFacts DEF Enqueue
<1> QED BY <1>1, <1>2 DEF Store

-----------------------------------------------------------------------------
(* The inductive invariant: the type invariant with the properties that     *)
(* hold together.  ReadYourWrites needs TypeOK alone; PendingBounded is     *)
(* what makes a closed queue empty, and so a write after close safe to      *)
(* apply directly; Recent makes the next write newer than all that readers  *)
(* see.  All are carried by the same case analysis.                         *)
Inv ==
  /\ TypeOK
  /\ Bounded(store)
  /\ Honoured(store, want, {})
  /\ ~store.closed => Balanced(store)
  /\ Recent(store, ticket)

(* What one step does to the pins, in the words of WriteBehind.             *)
MapNext ==
  \/ MapStep(store, store', View(store))
  \/ \E s \in Sessions, row \in PinRow :
       /\ \A r \in Sessions : View(store)[r].ticket < row.ticket
       /\ MapStep(store, store', [View(store) EXCEPT ![s] = row])

LEMMA InitInv == Init => Inv
<1> SUFFICES ASSUME Init PROVE Inv
  OBVIOUS
<1> DEFINE pins == [s \in Sessions |-> NoRow]
           rows == [t \in Tables |-> {}]
           zero == [t \in Tables |-> 0]
<1>1. /\ pins \in [Sessions -> PinRow] /\ rows \in [Tables -> SUBSET Ticket]
      /\ zero \in [Tables -> Ticket] /\ 0 \in Ticket
      /\ <<>> \in Seq(WriteOp) /\ Len(<<>>) = 0
  BY MaxTicketAssumption DEF PinRow, NoRow, Ticket
<1>2. ApplyPins(pins, <<>>) = pins
  BY <1>1, ApplyPinsEmpty
<1>3. /\ store = Opened(pins, rows) /\ want = pins /\ ticket = 0
      /\ result = [call |-> "open", outcome |-> "returned"]
  BY DEF Init
<1>4. store \in Store
  <2> HIDE DEF pins, rows
  <2> QED BY <1>1, <1>3 DEF Opened, Store
<1>5. TypeOK
  BY <1>1, <1>3, <1>4 DEF TypeOK, Calls, Outcomes
<1>6. /\ store.pending = <<>> /\ store.pins = pins /\ store.stale = {}
      /\ store.enqueued = 0 /\ store.flushed = 0 /\ store.dropped = 0 /\ store.lost = 0
  BY <1>3 DEF Opened
<1>a. \A s \in Sessions : pins[s].ticket = 0
  BY DEF NoRow
<1> HIDE DEF pins
<1>b. Recent(store, ticket)
  BY <1>a, <1>2, <1>3, <1>6 DEF Recent, View
<1>7. Bounded(store)
  BY <1>1, <1>6, BatchAssumption, CapacityAssumption DEF Bounded
<1>8. Honoured(store, want, {})
  BY <1>2, <1>3, <1>6 DEF Honoured, View
<1>9. Balanced(store)
  BY <1>1, <1>6 DEF Balanced
<1> QED BY <1>5, <1>b, <1>7, <1>8, <1>9 DEF Inv

(* Steps that write a pin.                                                  *)
LEMMA WritePinStep ==
  ASSUME Inv, NEW s \in Sessions, NEW kind \in DURABLE_OP_KINDS,
         NEW call \in {"putSessionPin", "deleteSessionPin"}, WritePin(call, kind, s)
  PROVE  Inv' /\ MapNext
<1> DEFINE op    == [kind |-> kind, key |-> s, ticket |-> ticket + 1]
           asked == [store EXCEPT !.stale = @ \cup {s}]
<1>1. /\ ticket \in Ticket /\ store \in Store /\ want \in [Sessions -> PinRow]
      /\ ticket < MaxTicket /\ ticket' = ticket + 1 /\ ticket + 1 \in Ticket
  BY MaxTicketAssumption DEF Inv, TypeOK, WritePin, Ticket
<1>2. op \in WriteOp /\ Durable(op) /\ op.key = s
  BY <1>1 DEF WriteOp, Durable
<1>3. RowOf(op) \in PinRow
  BY <1>1 DEF RowOf, PinRow
<1>4. PICK io \in IO : /\ store' = Enqueue(asked, op, io)
                       /\ want' = [want EXCEPT ![s] = RowOf(op)]
  BY DEF WritePin
<1>5. io \in [room : BOOLEAN, size : BOOLEAN, cut : Cutoffs]
  BY DEF IO, SinkOutcome
<1> HIDE DEF op
<1>6. /\ asked \in Store /\ asked.pending = store.pending /\ asked.closed = store.closed
      /\ asked.pins = store.pins /\ asked.stale = store.stale \cup {s}
      /\ asked.faulty = store.faulty
      /\ asked.enqueued = store.enqueued /\ asked.flushed = store.flushed
      /\ asked.dropped = store.dropped /\ asked.lost = store.lost
  BY <1>1 DEF Store
<1> HIDE DEF asked
<1>7. Bounded(asked) /\ View(asked) = View(store) /\ (~asked.closed => Balanced(asked))
  BY <1>6 DEF Inv, Bounded, View, Balanced
<1>8. want'[s] = RowOf(op) /\ \A r \in Sessions \ {s} : want'[r] = want[r]
  BY <1>1, <1>4
<1>9. Honoured(asked, want', Due(op))
  BY <1>2, <1>6, <1>7, <1>8 DEF Inv, Honoured, Due
<1>10. /\ store' \in Store /\ store'.closed = asked.closed
       /\ Bounded(store') /\ Honoured(store', want', {})
       /\ MapStep(asked, store', After(View(asked), op))
       /\ ~asked.closed /\ Balanced(asked) => Balanced(store')
  BY <1>2, <1>4, <1>5, <1>6, <1>7, <1>8, <1>9, EnqueueFacts
<1>11. TypeOK'
  <2>1. want' \in [Sessions -> PinRow] /\ ticket' \in Ticket
    BY <1>1, <1>3, <1>4
  <2>2. result' \in [call : Calls, outcome : Outcomes]
    BY DEF WritePin, Calls, Outcomes
  <2> QED BY <1>10, <2>1, <2>2 DEF TypeOK
<1>12. MapStep(store, store', [View(store) EXCEPT ![s] = RowOf(op)])
  BY <1>2, <1>6, <1>7, <1>10 DEF MapStep, After
<1>13. RowOf(op).ticket = ticket + 1
  BY DEF RowOf, op
<1>14. /\ View(store) \in [Sessions -> PinRow] /\ ticket \in Nat
       /\ \A r \in Sessions : View(store)[r].ticket \in Nat
  BY <1>1, ApplyPinsType, MaxTicketAssumption DEF View, Store, PinRow, Ticket
<1>15. \A r \in Sessions : View(store)[r].ticket < RowOf(op).ticket
  BY <1>13, <1>14 DEF Inv, Recent
<1>16. \A r \in Sessions : [View(store) EXCEPT ![s] = RowOf(op)][r].ticket <= ticket + 1
  BY <1>13, <1>14 DEF Inv, Recent
<1>17. Recent(store', ticket')
  <2> DEFINE next == [View(store) EXCEPT ![s] = RowOf(op)]
  <2>1. ticket' \in Nat /\ ticket <= ticket' /\ Recent(store, ticket)
    BY <1>1, <1>14 DEF Inv
  <2>2. MapStep(store, store', next) /\ \A r \in Sessions : next[r].ticket <= ticket'
    BY <1>1, <1>12, <1>16
  <2> HIDE DEF next
  <2> QED BY <1>1, <1>14, <2>1, <2>2, MapStepRecent
<1>18. Inv'
  BY <1>7, <1>10, <1>11, <1>17 DEF Inv, Bounded, Honoured, Balanced, Recent, View
<1> QED BY <1>3, <1>12, <1>15, <1>18 DEF MapNext

LEMMA AppendStep ==
  ASSUME Inv, NEW t \in Tables, AppendRecord(t)
  PROVE  Inv' /\ MapNext
<1> DEFINE op == [kind |-> "append", key |-> t, ticket |-> ticket + 1]
<1>1. /\ ticket \in Ticket /\ store \in Store
      /\ ticket < MaxTicket /\ ticket' = ticket + 1 /\ ticket + 1 \in Ticket
  BY MaxTicketAssumption DEF Inv, TypeOK, AppendRecord, Ticket
<1>2. op \in WriteOp /\ ~Durable(op)
  BY <1>1 DEF WriteOp, Durable, DURABLE_OP_KINDS
<1>3. PICK io \in IO : store' = Enqueue(store, op, io)
  BY DEF AppendRecord
<1>4. io \in [room : BOOLEAN, size : BOOLEAN, cut : Cutoffs] /\ want' = want
  BY DEF IO, SinkOutcome, AppendRecord
<1> HIDE DEF op
<1>5. Honoured(store, want, Due(op))
  BY <1>2 DEF Inv, Due
<1>6. /\ store' \in Store /\ store'.closed = store.closed
      /\ Bounded(store') /\ Honoured(store', want, {})
      /\ MapStep(store, store', After(View(store), op))
      /\ ~store.closed /\ Balanced(store) => Balanced(store')
  BY <1>1, <1>2, <1>3, <1>4, <1>5, EnqueueFacts DEF Inv
<1>7. TypeOK'
  <2>1. result' \in [call : Calls, outcome : Outcomes]
    BY DEF AppendRecord, Calls, Outcomes
  <2> QED BY <1>1, <1>4, <1>6, <2>1 DEF Inv, TypeOK
<1>8. MapStep(store, store', View(store))
  BY <1>2, <1>6 DEF After
<1>9. Recent(store', ticket')
  <2>1. /\ View(store) \in [Sessions -> PinRow] /\ ticket \in Nat /\ ticket' \in Nat
        /\ \A r \in Sessions : View(store)[r].ticket \in Nat
    BY <1>1, ApplyPinsType, MaxTicketAssumption DEF View, Store, PinRow, Ticket
  <2>2. \A r \in Sessions : View(store)[r].ticket <= ticket'
    BY <1>1, <2>1 DEF Inv, Recent
  <2> QED BY <1>1, <1>8, <2>1, <2>2, MapStepRecent DEF Inv
<1>10. Inv'
  BY <1>4, <1>6, <1>7, <1>9 DEF Inv, Bounded, Honoured, Balanced, Recent, View
<1> QED BY <1>8, <1>10 DEF MapNext

(* A step that writes nothing makes nothing newer.                          *)
LEMMA StillRecent ==
  ASSUME Inv, MapStep(store, store', View(store)), ticket' = ticket
  PROVE  Recent(store', ticket')
<1>1. store \in Store /\ ticket \in Nat
  BY MaxTicketAssumption DEF Inv, TypeOK, Ticket
<1>2. \A r \in Sessions : View(store)[r].ticket <= ticket
  BY DEF Inv, Recent
<1> QED BY <1>1, <1>2, MapStepRecent DEF Inv

(* Steps that only flush: a read, the interval timer.                       *)
LEMMA FlushStep ==
  ASSUME Inv, FlushThenRead \/ IntervalFlush
  PROVE  Inv' /\ MapNext
<1>1. PICK io \in IO : store' = Flush(store, io.room, io.cut)
  BY DEF FlushThenRead, IntervalFlush
<1>2. io.room \in BOOLEAN
  BY DEF IO, SinkOutcome
<1>3. /\ store \in Store /\ ticket' = ticket /\ want' = want
      /\ result' \in [call : Calls, outcome : Outcomes]
  BY DEF Inv, TypeOK, FlushThenRead, IntervalFlush, Calls, Outcomes
<1>4. /\ store' \in Store /\ store'.pending = <<>> /\ store'.closed = store.closed
      /\ ~store'.threw => Synced(store, store')
      /\ store'.threw => Dropped(store, store')
      /\ Balanced(store) => Balanced(store')
  BY <1>1, <1>2, <1>3, FlushFacts
<1>5. Honoured(store', want, {})
  BY <1>4, HonouredPreserved DEF Inv
<1>6. MapStep(store, store', View(store))
  BY <1>4 DEF MapStep, Synced, Dropped
<1>7. Bounded(store')
  BY <1>4, BatchAssumption, CapacityAssumption DEF Bounded
<1>8. Inv'
  <2>1. Recent(store', ticket')
    BY <1>3, <1>6, StillRecent
  <2> QED BY <1>3, <1>4, <1>5, <1>7, <2>1
          DEF Inv, TypeOK, Bounded, Honoured, Balanced, Recent, View
<1> QED BY <1>6, <1>8 DEF MapNext

LEMMA CloseStep ==
  ASSUME Inv, Close
  PROVE  Inv' /\ MapNext
<1>1. PICK io \in IO :
        store' = LET drained == CloseQueue(store, io.room, io.cut)
                 IN  [drained EXCEPT !.open = @ /\ drained.threw]
  BY DEF Close
<1> DEFINE shut    == [store EXCEPT !.closed = TRUE]
           drained == CloseQueue(store, io.room, io.cut)
<1>2. /\ store \in Store /\ ticket' = ticket /\ want' = want /\ io.room \in BOOLEAN
      /\ result' \in [call : Calls, outcome : Outcomes]
  BY DEF Inv, TypeOK, Close, Calls, Outcomes, IO, SinkOutcome
<1>3. /\ drained \in Store /\ drained.closed /\ drained.pending = <<>>
      /\ Synced(store, drained) \/ Dropped(store, drained)
  <2>1. CASE store.closed
    <3>1. drained = [store EXCEPT !.threw = FALSE]
      BY <2>1 DEF CloseQueue
    <3>2. /\ drained \in Store /\ drained.closed /\ drained.pending = <<>>
          /\ store.pending = <<>>
          /\ drained.pins = store.pins /\ drained.stale = store.stale
          /\ drained.faulty = store.faulty
      BY <1>2, <2>1, <3>1 DEF Store, Inv, Bounded
    <3>3. View(store) = store.pins
      BY <1>2, <3>2, ApplyPinsEmpty DEF View, Store
    <3> HIDE DEF drained
    <3> QED BY <3>2, <3>3 DEF Synced, View
  <2>2. CASE ~store.closed
    <3>1. drained = Flush(shut, io.room, io.cut)
      BY <2>2 DEF CloseQueue
    <3>2. /\ shut \in Store /\ shut.closed /\ shut.pending = store.pending
          /\ shut.pins = store.pins /\ shut.stale = store.stale /\ shut.faulty = store.faulty
      BY <1>2 DEF Store
    <3> HIDE DEF shut, drained
    <3>3. /\ drained \in Store /\ drained.pending = <<>> /\ drained.closed = shut.closed
          /\ ~drained.threw => Synced(shut, drained)
          /\ drained.threw => Dropped(shut, drained)
      BY <1>2, <3>1, <3>2, FlushFacts
    <3>4. View(shut) = View(store)
      BY <3>2 DEF View
    <3> QED BY <3>2, <3>3, <3>4 DEF Synced, Dropped
  <2> QED BY <1>2, <2>1, <2>2 DEF Store
<1> HIDE DEF drained
<1>4. /\ store' \in Store /\ store'.closed /\ store'.pending = <<>>
      /\ store'.pins = drained.pins /\ store'.stale = drained.stale
      /\ store'.faulty = drained.faulty
  <2> DEFINE still == drained.open /\ drained.threw
  <2>1. still \in BOOLEAN
    BY <1>3 DEF Store
  <2>2. store' = [drained EXCEPT !.open = still]
    BY <1>1 DEF drained
  <2> HIDE DEF still
  <2> QED BY <1>3, <2>1, <2>2 DEF Store
<1>5. View(store') = View(drained)
  BY <1>3, <1>4 DEF View
<1>6. Synced(store, store') \/ Dropped(store, store')
  BY <1>3, <1>4, <1>5 DEF Synced, Dropped
<1>7. Honoured(store', want, {})
  BY <1>6, HonouredPreserved DEF Inv
<1>8. MapStep(store, store', View(store))
  BY <1>6 DEF MapStep, Synced, Dropped
<1>9. Bounded(store')
  BY <1>4, BatchAssumption, CapacityAssumption DEF Bounded
<1>10. Inv'
  <2>1. Recent(store', ticket')
    BY <1>2, <1>8, StillRecent
  <2> QED BY <1>2, <1>4, <1>7, <1>9, <2>1
          DEF Inv, TypeOK, Bounded, Honoured, Balanced, Recent, View
<1> QED BY <1>8, <1>10 DEF MapNext

(* A restart forgets what the disk does not hold.                           *)
LEMMA RestartStep ==
  ASSUME Inv, Restart
  PROVE  Inv' /\ MapNext
<1> DEFINE pins == store.pins
           rows == store.rows
           zero == [t \in Tables |-> 0]
<1>1. /\ pins \in [Sessions -> PinRow] /\ rows \in [Tables -> SUBSET Ticket]
      /\ zero \in [Tables -> Ticket] /\ 0 \in Ticket
      /\ <<>> \in Seq(WriteOp) /\ Len(<<>>) = 0
      /\ ticket' = ticket /\ ticket \in Ticket
  BY MaxTicketAssumption DEF Inv, TypeOK, Store, Restart, Ticket
<1>2. ApplyPins(pins, <<>>) = pins
  BY <1>1, ApplyPinsEmpty
<1>3. /\ store' = Opened(pins, rows) /\ want' = pins
      /\ result' = [call |-> "open", outcome |-> "returned"]
  BY DEF Restart
<1> HIDE DEF pins, rows
<1>4. store' \in Store
  BY <1>1, <1>3 DEF Opened, Store
<1>5. TypeOK'
  BY <1>1, <1>3, <1>4 DEF TypeOK, Calls, Outcomes
<1>6. /\ store'.pending = <<>> /\ store'.pins = pins /\ store'.stale = {}
      /\ store'.enqueued = 0 /\ store'.flushed = 0
      /\ store'.dropped = 0 /\ store'.lost = 0
  BY <1>3 DEF Opened
<1>7. Bounded(store')
  BY <1>1, <1>6, BatchAssumption, CapacityAssumption DEF Bounded
<1>8. View(store') = pins
  BY <1>2, <1>6 DEF View
<1>9. Honoured(store', want', {})
  BY <1>3, <1>6, <1>8 DEF Honoured
<1>10. Balanced(store')
  BY <1>1, <1>6 DEF Balanced
<1>11. MapStep(store, store', View(store))
  BY <1>6, <1>8 DEF MapStep, pins
<1>12. Inv'
  <2>1. Recent(store', ticket')
    BY <1>1, <1>11, StillRecent
  <2> QED BY <1>5, <1>7, <1>9, <1>10, <2>1 DEF Inv, Bounded, Honoured, Balanced, Recent, View
<1> QED BY <1>11, <1>12 DEF MapNext

(* Every step keeps the invariant and is a step, or a stutter, of the map.  *)
LEMMA NextStep == Inv /\ Next => Inv' /\ MapNext
<1> SUFFICES ASSUME Inv, Next PROVE Inv' /\ MapNext
  OBVIOUS
<1>1. ASSUME NEW s \in Sessions, PutSessionPin(s) \/ DeleteSessionPin(s)
      PROVE  Inv' /\ MapNext
  BY <1>1, WritePinStep DEF PutSessionPin, DeleteSessionPin, DURABLE_OP_KINDS
<1>2. ASSUME NEW t \in Tables, AppendRecord(t)
      PROVE  Inv' /\ MapNext
  BY <1>2, AppendStep
<1>3. CASE FlushThenRead \/ IntervalFlush
  BY <1>3, FlushStep
<1>4. CASE Close
  BY <1>4, CloseStep
<1>5. CASE Restart
  BY <1>5, RestartStep
<1> QED BY <1>1, <1>2, <1>3, <1>4, <1>5 DEF Next

LEMMA StutterStep == Inv /\ UNCHANGED vars => Inv'
BY DEF Inv, TypeOK, vars, Bounded, Honoured, Balanced, Recent, View

LEMMA InvHolds == Spec => []Inv
<1>1. Init => Inv
  BY InitInv
<1>2. Inv /\ [Next]_vars => Inv'
  BY NextStep, StutterStep
<1> QED BY <1>1, <1>2, PTL DEF Spec

-----------------------------------------------------------------------------
(* The store record, the ticket counter, the wishes and the last result     *)
(* keep their types through every composition of room-making, push, flush   *)
(* and close.                                                               *)
THEOREM TypeCorrect == Spec => []TypeOK
<1>1. Inv => TypeOK
  BY DEF Inv
<1> QED BY <1>1, InvHolds, PTL

(* BoundedWriteQueue: between calls the buffer is within capacity and below *)
(* the size trigger, and empty once closed, for every batch size and        *)
(* capacity, in either order.                                               *)
THEOREM QueueBounded == Spec => []PendingBounded
<1>1. Inv => PendingBounded
  BY DEF Inv, Bounded, PendingBounded
<1> QED BY <1>1, InvHolds, PTL

(* SqliteStore: what getSessionPin would return is the last pin write asked *)
(* for, whatever flushes and drops came between, unless a failed            *)
(* transaction took that write; without a failure none is missing.          *)
THEOREM PinsReadYourWrites == Spec => []ReadYourWrites
<1>1. Inv => ReadYourWrites
  BY DEF Inv, Honoured, ReadYourWrites, Visible, View
<1> QED BY <1>1, InvHolds, PTL

(* WriteQueueStats: on an open queue every accepted op is counted once as   *)
(* flushed, dropped, pending or lost.                                       *)
THEOREM StatsAddUp == Spec => []StatsBalance
<1>1. Inv => StatsBalance
  BY DEF Inv, Balanced, StatsBalance
<1> QED BY <1>1, InvHolds, PTL

(* The store implements the write-behind map: the disk only ever takes a    *)
(* whole map that readers have seen, whatever fails and whenever the        *)
(* process dies.                                                            *)
THEOREM ImplementsWriteBehind == Spec => PinMapSpec
<1>1. Init => PinMap!Init
  <2> SUFFICES ASSUME Init PROVE PinMap!Init
    OBVIOUS
  <2>1. Inv
    BY InitInv
  <2>2. store.pins \in [Sessions -> PinRow]
    BY <2>1 DEF Inv, TypeOK, Store
  <2>3. store.pending = <<>>
    BY DEF Init, Opened
  <2> QED BY <2>2, <2>3, ApplyPinsEmpty DEF PinMap!Init, Visible
<1>2. Inv /\ [Next]_vars => [PinMap!Next]_(PinMap!vars)
  <2> SUFFICES ASSUME Inv, [Next]_vars PROVE [PinMap!Next]_(PinMap!vars)
    OBVIOUS
  <2>1. CASE UNCHANGED vars
    BY <2>1 DEF vars, PinMap!vars, Visible
  <2>2. CASE Next
    <3>1. MapNext
      BY <2>2, NextStep
    <3>2. Visible = View(store) /\ Visible' = View(store')
      BY DEF Visible, View
    <3>3. CASE MapStep(store, store', View(store))
      BY <3>2, <3>3 DEF MapStep, PinMap!vars, PinMap!Next, PinMap!Sync, PinMap!Lose
    <3>4. ASSUME NEW s \in Sessions, NEW row \in PinRow,
                 \A r \in Sessions : View(store)[r].ticket < row.ticket,
                 MapStep(store, store', [View(store) EXCEPT ![s] = row])
          PROVE  PinMap!Next
      <4> DEFINE stamp == [r \in PinRow |-> r.ticket]
      <4>1. View(store) \in [Sessions -> PinRow]
        BY ApplyPinsType DEF Inv, TypeOK, Store, View
      <4>2. \A r \in Sessions : stamp[View(store)[r]] < stamp[row]
        BY <3>4, <4>1
      <4> HIDE DEF stamp
      <4>3. \A r \in Sessions : stamp[Visible[r]] < stamp[row]
        BY <3>2, <4>2
      <4>4. PinMap!Write(s, row) \/ PinMap!Lose
        BY <3>2, <3>4, <4>3 DEF MapStep, PinMap!Write, PinMap!Lose, stamp
      <4> QED BY <4>4 DEF PinMap!Next
    <3> QED BY <3>1, <3>3, <3>4 DEF MapNext
  <2> QED BY <2>1, <2>2
<1> QED BY <1>1, <1>2, InvHolds, PTL DEF Spec, PinMapSpec, PinMap!Spec

-----------------------------------------------------------------------------
(* The order of the buffer, and what eviction leaves.  A second invariant,  *)
(* inductive on top of Inv: what the disk, the buffer and the newest-row    *)
(* bookkeeping of a store record say about the first n writes.              *)

(* The buffer is in call order and newer than the rows it will replace.     *)
Ordered(w, n) ==
  /\ \A i, j \in DOMAIN w.pending : i < j => w.pending[i].ticket < w.pending[j].ticket
  /\ \A i \in DOMAIN w.pending : w.pending[i].ticket <= n
  /\ \A s \in Sessions : w.pins[s].ticket <= n
  /\ \A i \in DOMAIN w.pending, s \in Sessions :
       WritesPin(w.pending[i], s) => w.pins[s].ticket < w.pending[i].ticket

(* Nothing in a table or on its way there is newer than its newest row.     *)
Rising(w, n) ==
  \A t \in Tables :
    /\ w.newest[t] <= n
    /\ \A r \in w.rows[t] \cup Appended(w.pending, t) :
         /\ r <= n
         /\ w.newest[t] # 0 => r <= w.newest[t]

(* NewestRowKept of a store record.                                         *)
Holding(w) ==
  \A t \in Tables :
    /\ w.newest[t] # 0
    /\ MaxBatchSize <= Capacity \/ w.newest[t] = w.latest
    => w.newest[t] \in w.rows[t] \cup Appended(w.pending, t)

Undropped(w) == MaxBatchSize <= Capacity /\ ~w.closed => w.dropped = 0

(* Eviction takes only rows, and never the newest one unless it has left    *)
(* the retention window: there is room for at least one row.                *)
LEMMA EvictFacts ==
  ASSUME NEW R \in SUBSET Ticket, NEW cut \in Nat
  PROVE  /\ Evict(R, cut) \subseteq R
         /\ \A m \in R : cut < m /\ (\A r \in R : r <= m) => m \in Evict(R, cut)
<1>1. Evict(R, cut) \subseteq R
  BY DEF Evict
<1>2. ASSUME NEW m \in R, cut < m, \A r \in R : r <= m
      PROVE  m \in Evict(R, cut)
  <2> DEFINE fresh == {r \in R : r > cut}
  <2>1. m \in fresh /\ \A r \in R : r \in Nat
    BY <1>2, MaxTicketAssumption DEF Ticket
  <2>2. {x \in fresh : x > m} = {}
    BY <1>2, <2>1
  <2>3. Cardinality({x \in fresh : x > m}) < RowLimit
    BY <2>2, FS_EmptySet, RowLimitAssumption
  <2> QED BY <2>1, <2>3 DEF Evict
<1> QED BY <1>1, <1>2

LEMMA AppendedType ==
  ASSUME NEW batch \in Seq(WriteOp), NEW t
  PROVE  Appended(batch, t) \subseteq Ticket
BY DEF Appended, WriteOp

LEMMA AppendedEmpty ==
  ASSUME NEW t
  PROVE  Appended(<<>>, t) = {}
BY DEF Appended

LEMMA AppendedAppend ==
  ASSUME NEW batch \in Seq(WriteOp), NEW op \in WriteOp, NEW t \in Tables
  PROVE  Appended(Append(batch, op), t) =
           Appended(batch, t) \cup (IF ~Durable(op) /\ op.key = t THEN {op.ticket} ELSE {})
<1> DEFINE longer == Append(batch, op)
<1>1. /\ DOMAIN longer = 1 .. Len(batch) + 1
      /\ DOMAIN batch = 1 .. Len(batch)
      /\ Len(batch) \in Nat
      /\ longer[Len(batch) + 1] = op
      /\ \A i \in DOMAIN batch : longer[i] = batch[i]
  OBVIOUS
<1>2. Len(batch) + 1 \in DOMAIN longer /\ DOMAIN batch \subseteq DOMAIN longer
      /\ \A i \in DOMAIN longer : i \in DOMAIN batch \/ i = Len(batch) + 1
  BY <1>1
<1> HIDE DEF longer
<1> QED BY <1>1, <1>2, Zenon DEF Appended, longer

LEMMA AppendedRemove ==
  ASSUME NEW batch \in Seq(WriteOp), NEW k \in DOMAIN batch, NEW t
  PROVE  Appended(RemoveAt(batch, k), t) \subseteq Appended(batch, t)
<1> DEFINE short == RemoveAt(batch, k)
<1>1. /\ Len(short) = Len(batch) - 1 /\ short \in Seq(WriteOp)
      /\ \A i \in 1 .. Len(batch) - 1 : short[i] = IF i < k THEN batch[i] ELSE batch[i + 1]
  BY RemoveAtProperties
<1> HIDE DEF short
<1>2. \A i \in DOMAIN short : \E j \in DOMAIN batch : short[i] = batch[j]
  <2> SUFFICES ASSUME NEW i \in DOMAIN short PROVE \E j \in DOMAIN batch : short[i] = batch[j]
    OBVIOUS
  <2>1. i \in 1 .. Len(batch) - 1 /\ i \in DOMAIN batch /\ i + 1 \in DOMAIN batch
    BY <1>1
  <2> QED BY <1>1, <2>1
<1> QED BY <1>2, Zenon DEF Appended, short

(* A committed batch leaves a table with some of its rows and of the        *)
(* batch's, the newest of all among them.                                   *)
LEMMA ApplyRowsFacts ==
  ASSUME NEW rows \in [Tables -> SUBSET Ticket], NEW batch \in Seq(WriteOp),
         NEW cut \in Cutoffs, NEW t \in Tables
  PROVE  /\ ApplyRows(rows, batch, cut)[t] \subseteq rows[t] \cup Appended(batch, t)
         /\ \A m \in rows[t] \cup Appended(batch, t) :
              m # 0 /\ (\A r \in rows[t] \cup Appended(batch, t) : r <= m)
              => m \in ApplyRows(rows, batch, cut)[t]
<1> DEFINE new == Appended(batch, t)
           all == rows[t] \cup new
           c   == IF \A n \in new : cut < n THEN cut ELSE 0
<1>1. all \in SUBSET Ticket /\ c \in Nat /\ cut \in Nat
  BY AppendedType, CutoffsAssumption, MaxTicketAssumption
<1>2. \A r \in all : r \in Nat
  BY <1>1, MaxTicketAssumption DEF Ticket
<1>3. ApplyRows(rows, batch, cut)[t] = IF new = {} THEN rows[t] ELSE Evict(all, c)
  BY DEF ApplyRows
<1>4. CASE new = {}
  BY <1>3, <1>4
<1>5. CASE new # {}
  <2>1. Evict(all, c) \subseteq all
    BY <1>1, EvictFacts
  <2>2. ASSUME NEW m \in all, m # 0, \A r \in all : r <= m
        PROVE  m \in Evict(all, c)
    <3>1. PICK n \in new : TRUE
      BY <1>5
    <3>2. c < m
      BY <1>1, <1>2, <2>2, <3>1
    <3> HIDE DEF c, all
    <3> QED BY <1>1, <2>2, <3>2, EvictFacts
  <2> QED BY <1>3, <1>5, <2>1, <2>2
<1> QED BY <1>4, <1>5

(* A flush as far as the disk is concerned: the buffer is applied, or is    *)
(* lost and the bookkeeping forgets what it held.                           *)
LEMMA FlushFields ==
  ASSUME NEW w \in Store, NEW ok \in BOOLEAN, NEW cut
  PROVE  LET v == Flush(w, ok, cut) IN
         /\ v.pending = <<>> /\ v.closed = w.closed
         /\ v.dropped = w.dropped /\ v.latest = w.latest
         /\ \/ /\ v.pins = ApplyPins(w.pins, w.pending)
               /\ v.rows = ApplyRows(w.rows, w.pending, cut)
               /\ v.newest = w.newest
            \/ /\ v.pins = w.pins
               /\ v.rows = w.rows
               /\ v.newest = [t \in Tables |-> IF w.newest[t] \in Appended(w.pending, t)
                                               THEN 0 ELSE w.newest[t]]
<1> DEFINE v == Flush(w, ok, cut)
           lost == [t \in Tables |-> IF w.newest[t] \in Appended(w.pending, t)
                                     THEN 0 ELSE w.newest[t]]
<1>1. CASE w.pending = <<>>
  <2>1. v = [w EXCEPT !.threw = FALSE]
    BY <1>1 DEF Flush
  <2>2. lost = w.newest
    BY <1>1, AppendedEmpty DEF Store
  <2> HIDE DEF lost
  <2>3. /\ v.pending = <<>> /\ v.closed = w.closed
        /\ v.dropped = w.dropped /\ v.latest = w.latest
        /\ v.pins = w.pins /\ v.rows = w.rows /\ v.newest = w.newest
    BY <1>1, <2>1 DEF Store
  <2> HIDE DEF v
  <2> QED BY <2>2, <2>3 DEF v, lost
<1>2. CASE w.pending # <<>>
  <2> DEFINE drained == [w EXCEPT !.pending = <<>>]
  <2>1. v = Sink(drained, w.pending, ok, cut)
    BY <1>2 DEF Flush
  <2>2. CASE ok
    BY <2>1, <2>2 DEF Sink, Store
  <2>3. CASE ~ok
    BY <2>1, <2>3 DEF Sink, Store
  <2> QED BY <2>2, <2>3
<1> QED BY <1>1, <1>2

(* What the second invariant says of a store record.                        *)
Tidy(w, n) == Ordered(w, n) /\ Rising(w, n) /\ Holding(w) /\ Undropped(w)

(* It reads these fields only.                                              *)
LEMMA TidySame ==
  ASSUME NEW w, NEW v, NEW n, Tidy(w, n),
         v.pending = w.pending, v.closed = w.closed, v.dropped = w.dropped,
         v.pins = w.pins, v.rows = w.rows, v.newest = w.newest, v.latest = w.latest
  PROVE  Tidy(v, n)
BY DEF Tidy, Ordered, Rising, Holding, Undropped

LEMMA TidyGrows ==
  ASSUME NEW w \in Store, NEW n \in Nat, NEW m \in Nat, n <= m, Tidy(w, n)
  PROVE  Tidy(w, m)
<1>1. /\ w.pending \in Seq(WriteOp) /\ w.pins \in [Sessions -> PinRow]
      /\ w.rows \in [Tables -> SUBSET Ticket] /\ w.newest \in [Tables -> Ticket]
      /\ \A t \in Ticket : t \in Nat
  BY MaxTicketAssumption DEF Store, Ticket
<1>2. \A i \in DOMAIN w.pending : w.pending[i].ticket \in Nat
  BY <1>1 DEF WriteOp
<1>3. \A t \in Tables : \A r \in w.rows[t] \cup Appended(w.pending, t) : r \in Nat
  BY <1>1, AppendedType
<1>4. Ordered(w, m)
  BY <1>1, <1>2 DEF Tidy, Ordered, PinRow
<1>5. Rising(w, m)
  BY <1>1, <1>3 DEF Tidy, Rising
<1> QED BY <1>4, <1>5 DEF Tidy

(* Committed or lost, a flushed buffer leaves the record tidy.              *)
LEMMA FlushTidy ==
  ASSUME NEW w \in Store, NEW ok \in BOOLEAN, NEW cut \in Cutoffs, NEW n \in Nat,
         Ordered(w, n), Rising(w, n), Holding(w)
  PROVE  LET v == Flush(w, ok, cut) IN
         Ordered(v, n) /\ Rising(v, n) /\ Holding(v) /\ (Undropped(w) => Undropped(v))
<1> DEFINE v == Flush(w, ok, cut)
           lost == [t \in Tables |-> IF w.newest[t] \in Appended(w.pending, t)
                                     THEN 0 ELSE w.newest[t]]
<1>1. /\ w.pending \in Seq(WriteOp) /\ w.pins \in [Sessions -> PinRow]
      /\ w.rows \in [Tables -> SUBSET Ticket] /\ w.newest \in [Tables -> Ticket]
      /\ \A t \in Ticket : t \in Nat
  BY MaxTicketAssumption DEF Store, Ticket
<1>2. /\ v.pending = <<>> /\ v.closed = w.closed
      /\ v.dropped = w.dropped /\ v.latest = w.latest
      /\ \/ /\ v.pins = ApplyPins(w.pins, w.pending)
            /\ v.rows = ApplyRows(w.rows, w.pending, cut)
            /\ v.newest = w.newest
         \/ /\ v.pins = w.pins
            /\ v.rows = w.rows
            /\ v.newest = lost
  BY FlushFields
<1> HIDE DEF v
<1>3. Ordered(v, n)
  <2>1. \A s \in Sessions : ApplyPins(w.pins, w.pending)[s].ticket <= n
    <3> SUFFICES ASSUME NEW s \in Sessions
                 PROVE  ApplyPins(w.pins, w.pending)[s].ticket <= n
      OBVIOUS
    <3>1. CASE LatestWrite(w.pending, s) = {}
      BY <3>1, ApplyPinsSkip DEF Ordered
    <3>2. CASE LatestWrite(w.pending, s) # {}
      <4>1. PICK i \in LatestWrite(w.pending, s) : TRUE
        BY <3>2
      <4>2. ApplyPins(w.pins, w.pending)[s] = RowOf(w.pending[i]) /\ i \in DOMAIN w.pending
        BY <1>1, <4>1, ApplyPinsAt DEF LatestWrite
      <4> QED BY <4>2 DEF RowOf, Ordered
    <3> QED BY <3>1, <3>2
  <2>2. \A s \in Sessions : v.pins[s].ticket <= n
    BY <1>2, <2>1 DEF Ordered
  <2> QED BY <1>2, <2>2 DEF Ordered
<1>4. \A t : Appended(v.pending, t) = {}
  BY <1>2, AppendedEmpty
<1>5. CASE /\ v.rows = ApplyRows(w.rows, w.pending, cut)
           /\ v.newest = w.newest
  <2>1. ASSUME NEW t \in Tables
        PROVE  /\ v.rows[t] \subseteq w.rows[t] \cup Appended(w.pending, t)
               /\ \A m \in w.rows[t] \cup Appended(w.pending, t) :
                    /\ m # 0
                    /\ \A r \in w.rows[t] \cup Appended(w.pending, t) : r <= m
                    => m \in v.rows[t]
    BY <1>1, <1>5, ApplyRowsFacts
  <2>2. Rising(v, n)
    BY <1>4, <1>5, <2>1 DEF Rising
  <2>3. ASSUME NEW t \in Tables, v.newest[t] # 0,
               MaxBatchSize <= Capacity \/ v.newest[t] = v.latest
        PROVE  v.newest[t] \in v.rows[t]
    <3>1. w.newest[t] \in w.rows[t] \cup Appended(w.pending, t)
      BY <1>2, <1>5, <2>3 DEF Holding
    <3>2. \A r \in w.rows[t] \cup Appended(w.pending, t) : r <= w.newest[t]
      BY <1>5, <2>3 DEF Rising
    <3> QED BY <1>5, <2>1, <2>3, <3>1, <3>2
  <2> QED BY <1>2, <1>3, <2>2, <2>3 DEF v, Holding, Undropped
<1>6. CASE v.rows = w.rows /\ v.newest = lost
  <2>1. \A t \in Tables : v.newest[t] = IF w.newest[t] \in Appended(w.pending, t)
                                        THEN 0 ELSE w.newest[t]
    BY <1>6
  <2>2. Rising(v, n)
    BY <1>4, <1>6, <2>1 DEF Rising
  <2>3. Holding(v)
    BY <1>2, <1>6, <2>1 DEF Holding
  <2> QED BY <1>2, <1>3, <2>2, <2>3 DEF v, Undropped
<1> QED BY <1>2, <1>5, <1>6

(* Making room keeps the order; what it may cost is the newest row of a     *)
(* table, for a lossy op, where the buffer can be full before a flush is due.*)
LEMMA MakeRoomTidy ==
  ASSUME NEW w \in Store, NEW op \in WriteOp, NEW ok \in BOOLEAN, NEW cut \in Cutoffs,
         NEW n \in Nat, Bounded(w), Tidy(w, n)
  PROVE  LET v == MakeRoom(w, op, ok, cut) IN
         /\ Ordered(v, n) /\ Rising(v, n) /\ Undropped(v)
         /\ Holding(v) \/ (~v.threw /\ ~Durable(op) /\ ~(MaxBatchSize <= Capacity))
<1> DEFINE v == MakeRoom(w, op, ok, cut)
           oldest == OldestLossy(w.pending)
<1>1. /\ w.pending \in Seq(WriteOp) /\ Len(w.pending) \in Nat
      /\ Capacity \in Nat \ {0} /\ MaxBatchSize \in Nat \ {0}
  BY BatchAssumption, CapacityAssumption DEF Store
<1>2. CASE Len(w.pending) < Capacity
  <2>1. v = [w EXCEPT !.threw = FALSE]
    BY <1>2 DEF MakeRoom
  <2>2. /\ v.pending = w.pending /\ v.closed = w.closed /\ v.dropped = w.dropped
        /\ v.pins = w.pins /\ v.rows = w.rows /\ v.newest = w.newest /\ v.latest = w.latest
    BY <2>1 DEF Store
  <2> HIDE DEF v
  <2>3. Tidy(v, n)
    BY <2>2, TidySame
  <2> QED BY <2>3 DEF Tidy, v
<1>3. CASE Len(w.pending) >= Capacity /\ (Durable(op) \/ oldest = {})
  <2>1. v = Flush(w, ok, cut)
    BY <1>1, <1>3 DEF MakeRoom
  <2> QED BY <2>1, FlushTidy DEF Tidy
<1>4. CASE Len(w.pending) >= Capacity /\ ~(Durable(op) \/ oldest = {})
  <2> DEFINE k == CHOOSE i \in oldest : TRUE
             short == RemoveAt(w.pending, k)
             more == w.dropped + 1
  <2>1. k \in DOMAIN w.pending
    BY <1>4 DEF OldestLossy
  <2>2. /\ short \in Seq(WriteOp)
        /\ Len(short) = Len(w.pending) - 1
        /\ \A i \in 1 .. Len(w.pending) - 1 :
             short[i] = IF i < k THEN w.pending[i] ELSE w.pending[i + 1]
    BY <1>1, <2>1, RemoveAtProperties
  <2>3. \A t : Appended(short, t) \subseteq Appended(w.pending, t)
    BY <1>1, <2>1, AppendedRemove
  <2>4. v = [w EXCEPT !.pending = short, !.dropped = more, !.threw = FALSE]
    BY <1>1, <1>4 DEF MakeRoom
  <2> HIDE DEF short, more, k
  <2>5. /\ v.pending = short /\ v.closed = w.closed
        /\ v.pins = w.pins /\ v.rows = w.rows /\ v.newest = w.newest /\ ~v.threw
    BY <2>4 DEF Store
  <2> HIDE DEF v
  <2>6. k \in 1 .. Len(w.pending) /\ DOMAIN w.pending = 1 .. Len(w.pending)
        /\ DOMAIN short = 1 .. Len(w.pending) - 1
    BY <1>1, <2>1, <2>2
  <2> DEFINE from(i) == IF i < k THEN i ELSE i + 1
  <2>7. ASSUME NEW i \in DOMAIN short
        PROVE  from(i) \in DOMAIN w.pending /\ short[i] = w.pending[from(i)]
    BY <1>1, <2>2, <2>6
  <2>8. ASSUME NEW i \in DOMAIN short, NEW j \in DOMAIN short, i < j
        PROVE  from(i) < from(j)
    BY <2>6, <2>8, <1>1
  <2> HIDE DEF from
  <2>9. Ordered(v, n)
    BY <2>5, <2>7, <2>8 DEF Ordered, Tidy
  <2>10. Rising(v, n)
    BY <2>3, <2>5 DEF Rising, Tidy
  <2>11. ~(MaxBatchSize <= Capacity)
    BY <1>1, <1>4 DEF Bounded
  <2> QED BY <1>4, <2>5, <2>9, <2>10, <2>11 DEF Undropped, v
<1> QED BY <1>1, <1>2, <1>3, <1>4

(* A push puts the newest write of all at the end of the buffer, and so     *)
(* restores the newest row that making room for it may have cost.           *)
LEMMA PushTidy ==
  ASSUME NEW w \in Store, NEW op \in WriteOp, NEW n \in Nat, n < op.ticket,
         Ordered(w, n), Rising(w, n), Undropped(w),
         Holding(w) \/ (~Durable(op) /\ ~(MaxBatchSize <= Capacity))
  PROVE  Tidy(Push(w, op), op.ticket)
<1> DEFINE v == Push(w, op)
           longer == Append(w.pending, op)
           newest == IF Durable(op) THEN w.newest ELSE [w.newest EXCEPT ![op.key] = op.ticket]
           latest == IF Durable(op) THEN w.latest ELSE op.ticket
<1>1. /\ w.pending \in Seq(WriteOp) /\ w.pins \in [Sessions -> PinRow]
      /\ w.rows \in [Tables -> SUBSET Ticket] /\ w.newest \in [Tables -> Ticket]
      /\ \A t \in Ticket : t \in Nat
      /\ op.ticket \in Nat /\ (~Durable(op) => op.key \in Tables)
  BY MaxTicketAssumption DEF Store, Ticket, WriteOp, Durable
<1>2. /\ longer \in Seq(WriteOp)
      /\ DOMAIN longer = 1 .. Len(w.pending) + 1
      /\ DOMAIN w.pending = 1 .. Len(w.pending)
      /\ Len(w.pending) \in Nat
      /\ longer[Len(w.pending) + 1] = op
      /\ \A i \in DOMAIN w.pending : longer[i] = w.pending[i]
      /\ \A i \in DOMAIN w.pending : w.pending[i] \in WriteOp
  BY <1>1
<1>3. /\ v.pending = longer /\ v.closed = w.closed /\ v.dropped = w.dropped
      /\ v.pins = w.pins /\ v.rows = w.rows
      /\ v.newest = newest /\ v.latest = latest
  BY DEF Push, Store
<1>4. \A t \in Tables : Appended(longer, t) =
        Appended(w.pending, t) \cup (IF ~Durable(op) /\ op.key = t THEN {op.ticket} ELSE {})
  BY <1>1, AppendedAppend
<1>5. \A i \in DOMAIN w.pending : w.pending[i].ticket \in Nat
  BY <1>1, <1>2 DEF WriteOp
<1>6. \A s \in Sessions : w.pins[s].ticket \in Nat
  BY <1>1 DEF PinRow
<1> HIDE DEF v, longer
<1>7. Ordered(v, op.ticket)
  <2>1. ASSUME NEW i \in DOMAIN longer, NEW j \in DOMAIN longer, i < j
        PROVE  longer[i].ticket < longer[j].ticket
    <3>1. i \in DOMAIN w.pending /\ longer[i] = w.pending[i]
      BY <1>2, <2>1
    <3>2. CASE j \in DOMAIN w.pending
      BY <1>2, <2>1, <3>1, <3>2 DEF Ordered
    <3>3. CASE j \notin DOMAIN w.pending
      <4>1. longer[j] = op
        BY <1>2, <3>3
      <4>2. w.pending[i].ticket <= n /\ w.pending[i].ticket \in Nat
        BY <1>5, <3>1 DEF Ordered
      <4> QED BY <1>1, <3>1, <4>1, <4>2
    <3> QED BY <3>2, <3>3
  <2>2. ASSUME NEW i \in DOMAIN longer
        PROVE  longer[i].ticket <= op.ticket
    BY <1>1, <1>2, <1>5 DEF Ordered
  <2>3. \A s \in Sessions : w.pins[s].ticket < op.ticket
    BY <1>1, <1>6 DEF Ordered
  <2>4. ASSUME NEW i \in DOMAIN longer, NEW s \in Sessions, WritesPin(longer[i], s)
        PROVE  w.pins[s].ticket < longer[i].ticket
    BY <1>1, <1>2, <2>3, <2>4 DEF Ordered
  <2>5. \A s \in Sessions : w.pins[s].ticket <= op.ticket
    BY <1>1, <1>6, <2>3
  <2> QED BY <1>3, <2>1, <2>2, <2>4, <2>5 DEF Ordered
<1>8. ASSUME NEW t \in Tables, ~Durable(op), t = op.key
      PROVE  v.newest[t] = op.ticket /\ op.ticket \in Appended(v.pending, t)
  BY <1>1, <1>3, <1>4, <1>8
<1>9. ASSUME NEW t \in Tables, Durable(op) \/ t # op.key
      PROVE  v.newest[t] = w.newest[t] /\ Appended(v.pending, t) = Appended(w.pending, t)
  <2>1. CASE Durable(op)
    BY <1>3, <1>4, <2>1
  <2>2. CASE ~Durable(op) /\ t # op.key
    <3>1. newest = [w.newest EXCEPT ![op.key] = op.ticket] /\ v.newest = newest
      BY <1>3, <2>2
    <3>2. v.newest[t] = w.newest[t]
      BY <1>1, <2>2, <3>1
    <3>3. Appended(longer, t) = Appended(w.pending, t) \cup {}
      BY <1>4, <2>2
    <3> QED BY <1>3, <3>2, <3>3
  <2> QED BY <1>9, <2>1, <2>2
<1>10. \A t \in Tables : /\ w.newest[t] \in Nat
                         /\ \A r \in w.rows[t] \cup Appended(w.pending, t) : r \in Nat
  BY <1>1, AppendedType
<1>11. Rising(v, op.ticket)
  <2> SUFFICES ASSUME NEW t \in Tables
               PROVE  /\ v.newest[t] <= op.ticket
                      /\ \A r \in v.rows[t] \cup Appended(v.pending, t) :
                           /\ r <= op.ticket
                           /\ v.newest[t] # 0 => r <= v.newest[t]
    BY DEF Rising
  <2>1. CASE ~Durable(op) /\ t = op.key
    BY <1>1, <1>3, <1>4, <1>8, <1>10, <2>1 DEF Rising
  <2>2. CASE Durable(op) \/ t # op.key
    BY <1>1, <1>3, <1>9, <1>10, <2>2 DEF Rising
  <2> QED BY <2>1, <2>2
<1>12. Holding(v)
  <2> SUFFICES ASSUME NEW t \in Tables, v.newest[t] # 0,
                      MaxBatchSize <= Capacity \/ v.newest[t] = v.latest
               PROVE  v.newest[t] \in v.rows[t] \cup Appended(v.pending, t)
    BY DEF Holding
  <2>1. CASE ~Durable(op) /\ t = op.key
    BY <1>8, <2>1
  <2>2. CASE Durable(op)
    BY <1>3, <1>9, <2>2 DEF Holding
  <2>3. CASE ~Durable(op) /\ t # op.key
    <3>1. w.newest[t] < op.ticket
      BY <1>1, <1>10 DEF Rising
    <3>2. MaxBatchSize <= Capacity
      BY <1>1, <1>3, <1>9, <1>10, <2>3, <3>1
    <3> QED BY <1>3, <1>9, <2>3, <3>2 DEF Holding
  <2> QED BY <2>1, <2>2, <2>3
<1>13. Undropped(v)
  BY <1>3 DEF Undropped
<1> QED BY <1>7, <1>11, <1>12, <1>13 DEF Tidy, v

LEMMA EnqueueTidy ==
  ASSUME NEW w \in Store, NEW op \in WriteOp, NEW n \in Nat, n < op.ticket,
         NEW io \in [room : BOOLEAN, size : BOOLEAN, cut : Cutoffs],
         Bounded(w), Tidy(w, n)
  PROVE  Tidy(Enqueue(w, op, io), op.ticket)
<1> DEFINE v == Enqueue(w, op, io)
<1>1. /\ w.pins \in [Sessions -> PinRow] /\ w.rows \in [Tables -> SUBSET Ticket]
      /\ w.newest \in [Tables -> Ticket] /\ \A t \in Ticket : t \in Nat
      /\ op.ticket \in Nat /\ n <= op.ticket /\ io.room \in BOOLEAN
  BY MaxTicketAssumption DEF Store, Ticket, WriteOp
<1>2. ASSUME NEW x, x.pending = <<>>, x.closed,
             x.pins \in [Sessions -> PinRow], x.rows = w.rows, x.newest = w.newest,
             x.latest = w.latest, \A s \in Sessions : x.pins[s].ticket <= op.ticket,
             w.pending = <<>>
      PROVE  Tidy(x, op.ticket)
  <2>1. \A t : Appended(x.pending, t) = {} /\ Appended(w.pending, t) = {}
    BY <1>2, AppendedEmpty
  <2>2. Rising(w, op.ticket)
    <3>1. ASSUME NEW t \in Tables, NEW r \in w.rows[t] \cup Appended(w.pending, t)
          PROVE  r <= op.ticket
      BY <1>1, <2>1 DEF Tidy, Rising
    <3>2. ASSUME NEW t \in Tables PROVE w.newest[t] <= op.ticket
      BY <1>1 DEF Tidy, Rising
    <3> QED BY <3>1, <3>2 DEF Tidy, Rising
  <2>3. Rising(x, op.ticket) /\ Holding(x)
    BY <1>2, <2>1, <2>2 DEF Rising, Holding, Tidy
  <2>4. Ordered(x, op.ticket) /\ Undropped(x)
    BY <1>2 DEF Ordered, Undropped
  <2> QED BY <2>3, <2>4 DEF Tidy
<1>3. \A s \in Sessions : w.pins[s].ticket <= op.ticket
  BY <1>1 DEF Tidy, Ordered, PinRow
<1>4. CASE w.closed
  <2> DEFINE written == Sink(w, <<op>>, io.room, io.cut)
  <2>1. w.pending = <<>> /\ v = EnqueueClosed(w, op, io)
    BY <1>4 DEF Bounded, Enqueue
  <2>2. CASE ~Durable(op)
    <3> DEFINE more == w.dropped + 1
    <3>1. v = [w EXCEPT !.dropped = more, !.threw = FALSE]
      BY <2>1, <2>2 DEF EnqueueClosed
    <3> HIDE DEF more
    <3>2. /\ v.pending = w.pending /\ v.closed = w.closed /\ v.pins = w.pins
          /\ v.rows = w.rows /\ v.newest = w.newest /\ v.latest = w.latest
      BY <3>1 DEF Store
    <3> HIDE DEF v
    <3>3. Tidy(v, op.ticket)
      BY <1>1, <1>2, <1>3, <1>4, <2>1, <3>2
    <3> QED BY <3>3 DEF v
  <2>3. CASE Durable(op)
    <3>1. <<op>> \in Seq(WriteOp) /\ <<op>> = Append(<<>>, op) /\ <<>> \in Seq(WriteOp)
      OBVIOUS
    <3>2. \A t \in Tables : Appended(<<op>>, t) = {}
      <4>1. \A t \in Tables : Appended(Append(<<>>, op), t) = Appended(<<>>, t) \cup {}
        BY <2>3, <3>1, AppendedAppend
      <4> QED BY <3>1, <4>1, AppendedEmpty
    <3>3. ApplyRows(w.rows, <<op>>, io.cut) = w.rows
      BY <1>1, <3>2 DEF ApplyRows
    <3>4. [t \in Tables |-> IF w.newest[t] \in Appended(<<op>>, t) THEN 0 ELSE w.newest[t]]
          = w.newest
      BY <1>1, <3>2
    <3>5. /\ written.pending = w.pending /\ written.closed = w.closed
          /\ written.pins \in {w.pins, ApplyPins(w.pins, <<op>>)}
          /\ written.rows = w.rows /\ written.newest = w.newest /\ written.latest = w.latest
      <4>1. CASE io.room
        BY <3>3, <4>1 DEF Sink, Store
      <4>2. CASE ~io.room
        BY <3>4, <4>2 DEF Sink, Store
      <4> QED BY <4>1, <4>2
    <3>6. written \in Store
      BY <1>1, <3>1, SinkType
    <3> DEFINE stale == IF written.threw THEN written.stale ELSE written.stale \ {op.key}
    <3>7. v = [written EXCEPT !.stale = stale, !.threw = FALSE]
      BY <2>1, <2>3 DEF EnqueueClosed
    <3> HIDE DEF written, stale
    <3>8. /\ v.pending = w.pending /\ v.closed = w.closed
          /\ v.pins \in {w.pins, ApplyPins(w.pins, <<op>>)}
          /\ v.rows = w.rows /\ v.newest = w.newest /\ v.latest = w.latest
      BY <3>5, <3>6, <3>7 DEF Store
    <3> HIDE DEF v
    <3>9. ApplyPins(w.pins, <<op>>) = After(w.pins, op)
      <4>1. ApplyPins(w.pins, Append(<<>>, op)) = After(ApplyPins(w.pins, <<>>), op)
        BY <1>1, <3>1, ApplyPinsAppend DEF After
      <4> QED BY <1>1, <3>1, <4>1, ApplyPinsEmpty
    <3>10. /\ ApplyPins(w.pins, <<op>>) \in [Sessions -> PinRow]
           /\ \A s \in Sessions : After(w.pins, op)[s].ticket <= op.ticket
      <4>1. RowOf(op).ticket = op.ticket
        BY DEF RowOf
      <4>2. ApplyPins(w.pins, <<op>>) \in [Sessions -> PinRow]
        BY <1>1, <3>1, ApplyPinsType
      <4> QED BY <1>1, <1>3, <3>9, <4>1, <4>2 DEF After
    <3>11. v.pins \in [Sessions -> PinRow] /\ \A s \in Sessions : v.pins[s].ticket <= op.ticket
      BY <1>1, <1>3, <3>8, <3>9, <3>10
    <3>12. Tidy(v, op.ticket)
      BY <1>2, <1>4, <2>1, <3>8, <3>11
    <3> QED BY <3>12 DEF v
  <2> QED BY <2>2, <2>3
<1>5. CASE ~w.closed
  <2> DEFINE roomy == MakeRoom(w, op, io.room, io.cut)
             held  == Push(roomy, op)
  <2>1. /\ Ordered(roomy, n) /\ Rising(roomy, n) /\ Undropped(roomy)
        /\ Holding(roomy) \/ (~roomy.threw /\ ~Durable(op) /\ ~(MaxBatchSize <= Capacity))
    BY <1>1, MakeRoomTidy
  <2>2. /\ roomy \in Store /\ Len(roomy.pending) < Capacity
        /\ roomy.threw => roomy.pending = <<>>
    BY <1>1, MakeRoomFacts
  <2>3. v = IF roomy.threw THEN roomy
            ELSE IF Len(held.pending) >= MaxBatchSize THEN Flush(held, io.size, io.cut)
            ELSE held
    BY <1>5 DEF Enqueue, EnqueueOpen
  <2>4. Tidy(held, op.ticket) /\ held \in Store
    BY <2>1, <2>2, PushTidy, PushFacts
  <2> HIDE DEF roomy, held, v
  <2>5. CASE roomy.threw
    <3>1. Tidy(roomy, op.ticket)
      BY <1>1, <2>1, <2>2, <2>5, TidyGrows DEF Tidy
    <3> QED BY <2>3, <2>5, <3>1 DEF v
  <2>6. CASE ~roomy.threw
    <3>1. Tidy(Flush(held, io.size, io.cut), op.ticket)
      BY <1>1, <2>4, FlushTidy DEF Tidy
    <3> QED BY <2>3, <2>4, <2>6, <3>1 DEF v
  <2> QED BY <2>5, <2>6
<1> QED BY <1>4, <1>5

-----------------------------------------------------------------------------
(* The second invariant is kept by every step from a state with the first.  *)

Orderly == Tidy(store, ticket)

LEMMA InitOrderly == Init => Orderly
<1> SUFFICES ASSUME Init PROVE Orderly
  OBVIOUS
<1>1. /\ store.pending = <<>> /\ store.pins = [s \in Sessions |-> NoRow]
      /\ store.rows = [t \in Tables |-> {}] /\ store.newest = [t \in Tables |-> 0]
      /\ store.dropped = 0 /\ ticket = 0
  BY DEF Init, Opened
<1>2. \A t : Appended(store.pending, t) = {}
  BY <1>1, AppendedEmpty
<1> QED BY <1>1, <1>2 DEF Orderly, Tidy, Ordered, Rising, Holding, Undropped, NoRow

LEMMA NextOrderly == Inv /\ Orderly /\ Next => Orderly'
<1> SUFFICES ASSUME Inv, Orderly, Next PROVE Orderly'
  OBVIOUS
<1>1. /\ store \in Store /\ ticket \in Ticket /\ ticket \in Nat /\ Bounded(store)
      /\ \A io \in IO : io \in [room : BOOLEAN, size : BOOLEAN, cut : Cutoffs]
  <2>1. store \in Store /\ ticket \in Ticket /\ ticket \in Nat /\ Bounded(store)
    BY MaxTicketAssumption DEF Inv, TypeOK, Ticket
  <2>2. \A io \in IO : io \in [room : BOOLEAN, size : BOOLEAN, cut : Cutoffs]
    BY DEF IO, SinkOutcome
  <2> QED BY <2>1, <2>2
<1>2. ASSUME NEW s \in Sessions, NEW kind \in DURABLE_OP_KINDS,
             NEW call \in {"putSessionPin", "deleteSessionPin"}, WritePin(call, kind, s)
      PROVE  Orderly'
  <2> DEFINE op    == [kind |-> kind, key |-> s, ticket |-> ticket + 1]
             stale == store.stale \cup {s}
             asked == [store EXCEPT !.stale = stale]
  <2>1. PICK io \in IO : store' = Enqueue(asked, op, io)
    BY <1>2 DEF WritePin
  <2>2. ticket' = ticket + 1 /\ ticket + 1 \in Ticket
    BY <1>1, <1>2, MaxTicketAssumption DEF WritePin, Ticket
  <2>3. op \in WriteOp /\ op.ticket = ticket + 1 /\ stale \in SUBSET Sessions
    BY <1>1, <1>2, <2>2 DEF WriteOp, Store
  <2> HIDE DEF op, stale
  <2>4. /\ asked \in Store
        /\ asked.pending = store.pending /\ asked.closed = store.closed
        /\ asked.dropped = store.dropped /\ asked.pins = store.pins
        /\ asked.rows = store.rows /\ asked.newest = store.newest
        /\ asked.latest = store.latest
    BY <1>1, <2>3 DEF Store
  <2> HIDE DEF asked
  <2>5. Tidy(asked, ticket) /\ Bounded(asked)
    BY <1>1, <2>4, TidySame DEF Orderly, Bounded
  <2>6. Tidy(Enqueue(asked, op, io), op.ticket)
    BY <1>1, <2>3, <2>4, <2>5, EnqueueTidy
  <2> QED BY <2>1, <2>2, <2>3, <2>6 DEF Orderly
<1>3. ASSUME NEW t \in Tables, AppendRecord(t)
      PROVE  Orderly'
  <2> DEFINE op == [kind |-> "append", key |-> t, ticket |-> ticket + 1]
  <2>1. PICK io \in IO : store' = Enqueue(store, op, io)
    BY <1>3 DEF AppendRecord
  <2>2. ticket' = ticket + 1 /\ ticket + 1 \in Ticket
    BY <1>1, <1>3, MaxTicketAssumption DEF AppendRecord, Ticket
  <2>3. op \in WriteOp /\ op.ticket = ticket + 1
    BY <2>2 DEF WriteOp
  <2> HIDE DEF op
  <2>4. Tidy(Enqueue(store, op, io), op.ticket)
    BY <1>1, <2>3, EnqueueTidy DEF Orderly
  <2> QED BY <2>1, <2>2, <2>3, <2>4 DEF Orderly
<1>4. CASE FlushThenRead \/ IntervalFlush
  <2>1. PICK io \in IO : store' = Flush(store, io.room, io.cut)
    BY <1>4 DEF FlushThenRead, IntervalFlush
  <2>2. Tidy(Flush(store, io.room, io.cut), ticket)
    BY <1>1, FlushTidy DEF Orderly, Tidy
  <2> QED BY <1>4, <2>1, <2>2 DEF Orderly, FlushThenRead, IntervalFlush
<1>5. CASE Close
  <2> DEFINE shut == [store EXCEPT !.closed = TRUE]
  <2>1. PICK io \in IO :
          store' = LET drained == CloseQueue(store, io.room, io.cut)
                   IN  [drained EXCEPT !.open = @ /\ drained.threw]
    BY <1>5 DEF Close
  <2> DEFINE drained == CloseQueue(store, io.room, io.cut)
  <2>2. Tidy(drained, ticket) /\ drained \in Store
    <3>1. CASE store.closed
      <4>1. drained = [store EXCEPT !.threw = FALSE]
        BY <3>1 DEF CloseQueue
      <4>2. /\ drained.pending = store.pending /\ drained.closed = store.closed
            /\ drained.dropped = store.dropped /\ drained.pins = store.pins
            /\ drained.rows = store.rows /\ drained.newest = store.newest
            /\ drained.latest = store.latest /\ drained \in Store
        BY <1>1, <4>1 DEF Store
      <4> HIDE DEF drained
      <4> QED BY <4>2, TidySame DEF Orderly
    <3>2. CASE ~store.closed
      <4>1. drained = Flush(shut, io.room, io.cut)
        BY <3>2 DEF CloseQueue
      <4>2. /\ shut \in Store /\ shut.closed /\ shut.pending = store.pending
            /\ shut.pins = store.pins /\ shut.rows = store.rows
            /\ shut.newest = store.newest /\ shut.latest = store.latest
        BY <1>1 DEF Store
      <4> HIDE DEF drained, shut
      <4>3. Ordered(shut, ticket) /\ Rising(shut, ticket) /\ Holding(shut) /\ Undropped(shut)
        BY <4>2 DEF Orderly, Tidy, Ordered, Rising, Holding, Undropped
      <4> QED BY <1>1, <4>1, <4>2, <4>3, FlushTidy, FlushFacts DEF Tidy
    <3> QED BY <1>1, <3>1, <3>2 DEF Store
  <2> HIDE DEF drained
  <2> DEFINE still == drained.open /\ drained.threw
  <2>3. store' = [drained EXCEPT !.open = still]
    BY <2>1 DEF drained
  <2> HIDE DEF still
  <2>4. /\ store'.pending = drained.pending /\ store'.closed = drained.closed
        /\ store'.dropped = drained.dropped /\ store'.pins = drained.pins
        /\ store'.rows = drained.rows /\ store'.newest = drained.newest
        /\ store'.latest = drained.latest
    BY <2>2, <2>3 DEF Store
  <2>5. Tidy(store', ticket)
    BY <2>2, <2>4, TidySame
  <2> QED BY <1>5, <2>5 DEF Orderly, Close
<1>6. CASE Restart
  <2>1. /\ store'.pending = <<>> /\ store'.pins = store.pins /\ store'.rows = store.rows
        /\ store'.newest = [t \in Tables |-> 0] /\ store'.dropped = 0 /\ ticket' = ticket
    BY <1>6 DEF Restart, Opened
  <2>2. \A t : Appended(store'.pending, t) = {}
    BY <2>1, AppendedEmpty
  <2>3. Ordered(store', ticket') /\ Holding(store') /\ Undropped(store')
    BY <2>1 DEF Orderly, Tidy, Ordered, Holding, Undropped
  <2>4. Rising(store', ticket')
    BY <1>1, <2>1, <2>2 DEF Orderly, Tidy, Rising
  <2> QED BY <2>3, <2>4 DEF Orderly, Tidy
<1> QED BY <1>2, <1>3, <1>4, <1>5, <1>6
        DEF Next, PutSessionPin, DeleteSessionPin, DURABLE_OP_KINDS

LEMMA OrderlyHolds == Spec => []Orderly
<1>1. Init => Orderly
  BY InitOrderly
<1>2. Orderly /\ UNCHANGED vars => Orderly'
  BY DEF Orderly, Tidy, Ordered, Rising, Holding, Undropped, vars
<1> QED BY <1>1, <1>2, NextOrderly, InvHolds, PTL DEF Spec

-----------------------------------------------------------------------------
(* BoundedWriteQueue.enqueue: with a batch size within capacity, as the     *)
(* defaults have it, the size trigger empties the buffer before it can be   *)
(* full, so an open queue never drops an op.                                *)
THEOREM NothingDropped == Spec => []NoBackpressureDrop
<1>1. Orderly => NoBackpressureDrop
  BY DEF Orderly, Tidy, Undropped, NoBackpressureDrop
<1> QED BY <1>1, OrderlyHolds, PTL

(* The buffer holds writes in call order, all newer than the pin rows on    *)
(* disk they are about to replace: a flush never takes a pin back in time.  *)
THEOREM BufferInOrder == Spec => []FifoTickets
<1>1. Orderly => FifoTickets
  BY DEF Orderly, Tidy, Ordered, FifoTickets
<1> QED BY <1>1, OrderlyHolds, PTL

(* Neither backpressure nor eviction, by age or by row count, takes the     *)
(* newest append the queue has accepted and no failed transaction has lost. *)
THEOREM NewestRowSurvives == Spec => []NewestRowKept
<1>1. Orderly => NewestRowKept
  BY DEF Orderly, Tidy, Holding, NewestRowKept
<1> QED BY <1>1, OrderlyHolds, PTL

(* What a reader sees is never older than the disk.                         *)
LEMMA ViewAhead ==
  ASSUME TypeOK, Orderly, NEW s \in Sessions
  PROVE  /\ store.pins[s].ticket \in Nat /\ View(store)[s].ticket \in Nat
         /\ View(store)[s].ticket >= store.pins[s].ticket
<1>1. /\ store.pins \in [Sessions -> PinRow] /\ store.pending \in Seq(WriteOp)
      /\ View(store) \in [Sessions -> PinRow] /\ \A t \in Ticket : t \in Nat
  BY ApplyPinsType, MaxTicketAssumption DEF TypeOK, Store, View, Ticket
<1>2. store.pins[s].ticket \in Nat /\ View(store)[s].ticket \in Nat
  BY <1>1 DEF PinRow
<1>3. CASE LatestWrite(store.pending, s) = {}
  BY <1>2, <1>3, ApplyPinsSkip DEF View
<1>4. CASE LatestWrite(store.pending, s) # {}
  <2>1. PICK i \in LatestWrite(store.pending, s) : TRUE
    BY <1>4
  <2>2. View(store)[s] = RowOf(store.pending[i])
        /\ i \in DOMAIN store.pending /\ WritesPin(store.pending[i], s)
    BY <1>1, <2>1, ApplyPinsAt DEF LatestWrite, View
  <2>3. store.pins[s].ticket < View(store)[s].ticket
    BY <2>2 DEF Orderly, Tidy, Ordered, RowOf
  <2> QED BY <1>2, <2>3
<1> QED BY <1>2, <1>3, <1>4

(* No step, a crash or a failed transaction included, replaces a pin row on *)
(* disk by an older one or brings back one that a later delete removed.     *)
THEOREM PinsOnlyAdvance == Spec => PinsMoveForward
<1>1. Inv /\ Orderly /\ [Next]_vars
      => [\A s \in Sessions : store'.pins[s].ticket >= store.pins[s].ticket]_vars
  <2> SUFFICES ASSUME Inv, Orderly, Next, NEW s \in Sessions
               PROVE  store'.pins[s].ticket >= store.pins[s].ticket
    OBVIOUS
  <2>1. /\ store.pins[s].ticket \in Nat /\ View(store)[s].ticket \in Nat
        /\ View(store)[s].ticket >= store.pins[s].ticket
    BY ViewAhead DEF Inv
  <2>2. CASE MapStep(store, store', View(store))
    BY <2>1, <2>2 DEF MapStep
  <2>3. ASSUME NEW r \in Sessions, NEW row \in PinRow,
               \A q \in Sessions : View(store)[q].ticket < row.ticket,
               MapStep(store, store', [View(store) EXCEPT ![r] = row])
        PROVE  store'.pins[s].ticket >= store.pins[s].ticket
    <3> DEFINE next == [View(store) EXCEPT ![r] = row]
    <3>1. View(store) \in [Sessions -> PinRow] /\ row.ticket \in Nat
      <4>1. View(store) \in [Sessions -> PinRow]
        BY ApplyPinsType DEF Inv, TypeOK, Store, View
      <4>2. row.ticket \in Nat
        BY MaxTicketAssumption DEF PinRow, Ticket
      <4> QED BY <4>1, <4>2
    <3>2. next[s].ticket \in Nat /\ next[s].ticket >= View(store)[s].ticket
      BY <2>1, <2>3, <3>1
    <3>3. store'.pins \in {store.pins, View(store), next}
      BY <2>3 DEF MapStep
    <3> HIDE DEF next
    <3> QED BY <2>1, <3>2, <3>3
  <2>4. MapNext
    BY NextStep
  <2> QED BY <2>2, <2>3, <2>4 DEF MapNext
<1> QED BY <1>1, InvHolds, OrderlyHolds, PTL DEF Spec, PinsMoveForward
=============================================================================
