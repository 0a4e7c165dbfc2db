------------------------------ MODULE WriteBehind ------------------------------
(***************************************************************************)
(* What the persistence layer promises about session pins, with no queue,   *)
(* batch or transaction in sight: readers of the running process see one    *)
(* map, the disk holds another, and the disk only ever changes to the whole *)
(* of a map that readers have seen (never to a mixture of two, never to a   *)
(* write nobody saw).  A failure may throw away what the disk does not hold *)
(* yet; it never takes anything from the disk.                              *)
(*                                                                          *)
(* A stamp orders the values: a write is newer than all a reader can see,   *)
(* so an old value on the disk cannot pass for a new write.                 *)
(***************************************************************************)
EXTENDS Naturals

CONSTANTS Key, Value,
          Stamp     (* [Value -> Nat]                                       *)

VARIABLES
  visible,   (* what a read by the running process returns                  *)
  durable    (* what survives a crash                                       *)

vars == <<visible, durable>>

Init == /\ durable \in [Key -> Value]
        /\ visible = durable

(* A write becomes visible at once.  The call may also have synced, either  *)
(* what preceded the write or the write too.                                *)
Write(k, v) ==
  /\ \A j \in Key : Stamp[visible[j]] < Stamp[v]
  /\ visible' = [visible EXCEPT ![k] = v]
  /\ durable' \in {durable, visible, visible'}

Sync == /\ durable' = visible
        /\ UNCHANGED visible

(* Everything not yet durable is forgotten: a failed transaction, a crash.  *)
(* A call that fails late may have synced an older map first.               *)
Lose == /\ durable' \in {durable, visible}
        /\ visible' = durable'

Next == Sync \/ Lose \/ \E k \in Key, v \in Value : Write(k, v)

Spec == Init /\ [][Next]_vars
=============================================================================
