-------------------------- MODULE FleetRefreshProofs --------------------------
(***************************************************************************)
(* For any number of turns, commands, scopes and catalogs: a turn that      *)
(* trusts its fingerprint after an undisturbed rebuild routes on the router *)
(* that fingerprint describes; and rebuilding settles.                      *)
(*                                                                          *)
(* The argument: catalogs only get newer, so what a rebuild finds is at     *)
(* least as new as what its fingerprint counted (Counted, Newer), and the   *)
(* runtime stays what an undisturbed rebuild stored until it finishes       *)
(* (Kept).  The router is then no older than the fingerprint and no newer   *)
(* than the runtime's catalog (Vouched); when those two are equal, so is    *)
(* it.  They are for a turn that nobody disturbed since it took the         *)
(* fingerprint it compares (Compared).                                      *)
(***************************************************************************)
EXTENDS FleetRefresh, TLAPS

SomeScope == FleetScopes \cup {NoScope}
Look2     == [scope : SomeScope, catalog : Nat]
Place     == {"free", "look", "compare", "print", "discover", "catalog", "adopt", "finish", "refresh"}
Local     == [at : Place, turn : BOOLEAN, seen : SomeScope, print : Look2, found : Look2, alone : BOOLEAN]

RefreshType ==
  /\ scope \in FleetScopes
  /\ stored \in Nat
  /\ runtime \in [catalog : Nat, fingerprint : Look2, router : Look2]
  /\ task \in [Tasks -> Local]
  /\ fetched \in Nat
  /\ clean \in BOOLEAN

(* No catalog is newer than the last one fetched, which is in the store.    *)
Counted == runtime.catalog <= stored /\ stored = fetched

(* What a task found is as new as its fingerprint and no newer than the     *)
(* store.                                                                   *)
Newer ==
  \A c \in Tasks :
    /\ task[c].print.catalog <= stored
    /\ task[c].found.catalog <= stored
    /\ task[c].at \in {"adopt", "finish"} => task[c].print.catalog <= task[c].found.catalog

Kept ==
  \A c \in Tasks : task[c].at = "finish" /\ task[c].alone =>
    runtime.catalog = task[c].found.catalog /\ runtime.fingerprint = task[c].print

Vouched ==
  clean => /\ runtime.fingerprint.scope = runtime.router.scope
           /\ runtime.fingerprint.catalog <= runtime.router.catalog
           /\ runtime.router.catalog <= runtime.catalog

Ready(t) ==
  t.at = "compare" => t.print.scope = t.seen /\ (t.alone => t.print.catalog = runtime.catalog)
Compared == \A c \in Tasks : Ready(task[c])

IInv == RefreshType /\ Counted /\ Newer /\ Kept /\ Compared /\ Vouched

-----------------------------------------------------------------------------
LEMMA FreeLocal ==
  /\ Free \in Local /\ Free.at = "free"
  /\ Free.print.catalog = 0 /\ Free.found.catalog = 0
  BY DEF Free, Nothing, Of, Local, Look2, SomeScope, Place

LEMMA InitHolds == RefreshInit => IInv
<1> SUFFICES ASSUME RefreshInit PROVE IInv
  OBVIOUS
<1>1. Nothing \in Look2
  BY DEF Nothing, Of, Look2, SomeScope
<1>2. /\ scope \in FleetScopes /\ stored = 0 /\ fetched = 0 /\ clean = FALSE
      /\ runtime = [catalog |-> 0, fingerprint |-> Nothing, router |-> Nothing]
      /\ task = [c \in Tasks |-> Free]
  BY DEF RefreshInit
<1>3. RefreshType
  BY <1>1, <1>2, FreeLocal DEF RefreshType
<1>4. \A c \in Tasks : task[c] = Free
  BY <1>2
<1>5. Counted /\ Newer /\ Kept /\ Compared /\ Vouched
  BY <1>2, <1>4, FreeLocal DEF Counted, Newer, Kept, Compared, Ready, Vouched
<1> QED
  BY <1>3, <1>5 DEF IInv

(* A step of one task that only moves it, to where no rebuild is half done. *)
LEMMA MovesTask ==
  ASSUME IInv, NEW c \in Tasks, NEW t \in Local,
         task' = [task EXCEPT ![c] = t],
         t.print.catalog <= stored, t.found.catalog <= stored,
         t.at \in {"adopt", "finish"} => t.print.catalog <= t.found.catalog,
         t.at # "finish", Ready(t),
         UNCHANGED <<scope, stored, runtime, fetched, clean>>
  PROVE  IInv'
<1>1. \A d \in Tasks : task'[d] = IF d = c THEN t ELSE task[d]
  BY DEF IInv, RefreshType
<1>2. task' \in [Tasks -> Local]
  BY DEF IInv, RefreshType
<1>3. RefreshType'
  BY <1>2 DEF IInv, RefreshType
<1>4. Counted' /\ Vouched'
  BY DEF IInv, Counted, Vouched
<1>5. Newer'
  BY <1>1 DEF IInv, Newer
<1>6. Kept'
  BY <1>1 DEF IInv, Kept
<1>7. Compared'
  BY <1>1 DEF IInv, Compared, Ready
<1> QED
  BY <1>3, <1>4, <1>5, <1>6, <1>7 DEF IInv

LEMMA Locals ==
  ASSUME IInv, NEW c \in Tasks
  PROVE  /\ task[c] \in Local
         /\ task[c].print.catalog <= stored /\ task[c].found.catalog <= stored
         /\ stored \in Nat /\ runtime.catalog \in Nat /\ runtime.catalog <= stored
         /\ scope \in SomeScope
  BY DEF IInv, RefreshType, Counted, Newer, SomeScope

-----------------------------------------------------------------------------
LEMMA StartSteps ==
  ASSUME IInv, NEW c \in Tasks,
         StartTurn(c) \/ StartRebuild(c) \/ Passes(c) \/ Fails(c)
  PROVE  IInv'
<1> DEFINE a == [Free EXCEPT !.at = "look", !.turn = TRUE]
           b == [Free EXCEPT !.at = "look"]
<1>1. /\ a \in Local /\ b \in Local /\ Free \in Local
      /\ a.at = "look" /\ b.at = "look" /\ Free.at = "free"
      /\ a.print.catalog = 0 /\ b.print.catalog = 0 /\ Free.print.catalog = 0
      /\ a.found.catalog = 0 /\ b.found.catalog = 0 /\ Free.found.catalog = 0
      /\ Ready(a) /\ Ready(b) /\ Ready(Free)
  BY DEF Free, Nothing, Of, Local, Look2, SomeScope, Place, Ready
<1>2. 0 <= stored
  BY Locals
<1>3. \/ task' = [task EXCEPT ![c] = a]
      \/ task' = [task EXCEPT ![c] = b]
      \/ task' = [task EXCEPT ![c] = Free]
  BY DEF StartTurn, StartRebuild, Passes, Fails
<1>4. UNCHANGED <<scope, stored, runtime, fetched, clean>>
  BY DEF StartTurn, StartRebuild, Passes, Fails
<1> HIDE DEF a, b
<1>5. CASE task' = [task EXCEPT ![c] = a]
  BY <1>1, <1>2, <1>4, <1>5, MovesTask
<1>6. CASE task' = [task EXCEPT ![c] = b]
  BY <1>1, <1>2, <1>4, <1>6, MovesTask
<1>7. CASE task' = [task EXCEPT ![c] = Free]
  BY <1>1, <1>2, <1>4, <1>7, MovesTask
<1> QED
  BY <1>3, <1>5, <1>6, <1>7

LEMMA ReadSteps ==
  ASSUME IInv, NEW c \in Tasks,
         Look(c) \/ MustRebuild(c) \/ TakeFingerprint(c) \/ DiscoverModels(c) \/ ReadCatalog(c)
  PROVE  IInv'
<1> DEFINE look     == [task[c] EXCEPT !.seen = scope, !.at = "print"]
           again    == [task[c] EXCEPT !.at = "look", !.turn = FALSE]
           print    == [task[c] EXCEPT !.print = Of(task[c].seen, runtime.catalog), !.alone = TRUE,
                                       !.at = IF task[c].turn THEN "compare" ELSE "discover"]
           discover == [task[c] EXCEPT !.found = Of(scope, 0), !.at = "catalog"]
           read     == [task[c] EXCEPT !.found.catalog = stored, !.at = "adopt"]
<1>1. task[c] \in Local /\ stored \in Nat /\ runtime.catalog \in Nat /\ scope \in SomeScope
      /\ task \in [Tasks -> Local]
  BY Locals DEF IInv, RefreshType
<1>2. task[c].print.catalog <= stored /\ task[c].found.catalog <= stored /\ runtime.catalog <= stored /\ 0 <= stored
  BY Locals
<1>3. CASE Look(c)
  <2>1. look \in Local /\ look.at = "print" /\ Ready(look)
        /\ look.print = task[c].print /\ look.found = task[c].found
    BY <1>1 DEF Local, Place, Ready
  <2>2. task' = [task EXCEPT ![c] = look] /\ UNCHANGED <<scope, stored, runtime, fetched, clean>>
    BY <1>1, <1>3 DEF Look
  <2> HIDE DEF look
  <2> QED
    BY <1>2, <2>1, <2>2, MovesTask
<1>4. CASE MustRebuild(c)
  <2>1. again \in Local /\ again.at = "look" /\ again.print = task[c].print /\ again.found = task[c].found
        /\ Ready(again)
    BY <1>1 DEF Local, Place, Ready
  <2>2. task' = [task EXCEPT ![c] = again] /\ UNCHANGED <<scope, stored, runtime, fetched, clean>>
    BY <1>1, <1>4 DEF MustRebuild
  <2> HIDE DEF again
  <2> QED
    BY <1>2, <2>1, <2>2, MovesTask
<1>5. CASE TakeFingerprint(c)
  <2>1. print \in Local /\ print.at \in {"compare", "discover"} /\ print.print.catalog = runtime.catalog
        /\ print.found = task[c].found /\ Ready(print)
    BY <1>1 DEF Local, Place, Of, Look2, Ready
  <2>2. task' = [task EXCEPT ![c] = print] /\ UNCHANGED <<scope, stored, runtime, fetched, clean>>
    BY <1>1, <1>5 DEF TakeFingerprint, computeFleetScopeFingerprint
  <2> HIDE DEF print
  <2> QED
    BY <1>2, <2>1, <2>2, MovesTask
<1>6. CASE DiscoverModels(c)
  <2>1. discover \in Local /\ discover.at = "catalog" /\ discover.found.catalog = 0
        /\ discover.print = task[c].print /\ Ready(discover)
    BY <1>1 DEF Local, Place, Of, Look2, Ready
  <2>2. task' = [task EXCEPT ![c] = discover] /\ UNCHANGED <<scope, stored, runtime, fetched, clean>>
    BY <1>1, <1>6 DEF DiscoverModels
  <2> HIDE DEF discover
  <2> QED
    BY <1>2, <2>1, <2>2, MovesTask
<1>7. CASE ReadCatalog(c)
  <2>1. read \in Local /\ read.at = "adopt" /\ read.found.catalog = stored /\ read.print = task[c].print
        /\ Ready(read)
    BY <1>1 DEF Local, Place, Look2, Ready
  <2>2. task' = [task EXCEPT ![c] = read] /\ UNCHANGED <<scope, stored, runtime, fetched, clean>>
    BY <1>1, <1>7 DEF ReadCatalog
  <2>3. stored <= stored
    BY <1>1
  <2> HIDE DEF read
  <2> QED
    BY <1>2, <2>1, <2>2, <2>3, MovesTask
<1> QED
  BY <1>3, <1>4, <1>5, <1>6, <1>7

(* What Disturb leaves of the tasks.                                        *)
LEMMA Disturbed ==
  ASSUME IInv, NEW c \in Tasks, NEW t \in Local, task' = Disturb(c, t)
  PROVE  /\ task' \in [Tasks -> Local]
         /\ task'[c] = t
         /\ \A d \in Tasks \ {c} :
              /\ task'[d].at = task[d].at /\ task'[d].alone = FALSE
              /\ task'[d].print = task[d].print /\ task'[d].found = task[d].found
              /\ task'[d].seen = task[d].seen
<1>1. task \in [Tasks -> Local]
  BY DEF IInv, RefreshType
<1>2. \A d \in Tasks : [task[d] EXCEPT !.alone = FALSE] \in Local
  BY <1>1 DEF Local
<1>3. \A d \in Tasks \ {c} : task'[d] = [task[d] EXCEPT !.alone = FALSE]
  BY DEF Disturb
<1>4. task'[c] = t
  BY DEF Disturb
<1>5. task' \in [Tasks -> Local]
  BY <1>2 DEF Disturb
<1>6. \A d \in Tasks \ {c} :
        /\ task'[d].at = task[d].at /\ task'[d].alone = FALSE
        /\ task'[d].print = task[d].print /\ task'[d].found = task[d].found
        /\ task'[d].seen = task[d].seen
  BY <1>1, <1>3 DEF Local
<1> QED
  BY <1>4, <1>5, <1>6

(* A step that changes the runtime: the other tasks are disturbed.          *)
LEMMA Changes ==
  ASSUME IInv, NEW c \in Tasks, NEW t \in Local, task' = Disturb(c, t),
         t.print.catalog <= stored, t.found.catalog <= stored,
         t.at \in {"adopt", "finish"} => t.print.catalog <= t.found.catalog,
         t.at # "compare", UNCHANGED stored
  PROVE  /\ task' \in [Tasks -> Local]
         /\ Newer' /\ Compared'
         /\ (t.at = "finish" /\ t.alone =>
               runtime'.catalog = t.found.catalog /\ runtime'.fingerprint = t.print) => Kept'
<1>1. /\ task' \in [Tasks -> Local]
      /\ task'[c] = t
      /\ \A d \in Tasks \ {c} :
           /\ task'[d].at = task[d].at /\ task'[d].alone = FALSE
           /\ task'[d].print = task[d].print /\ task'[d].found = task[d].found
           /\ task'[d].seen = task[d].seen
  BY Disturbed
<1>2. Newer'
  <2> SUFFICES ASSUME NEW d \in Tasks
               PROVE  /\ task'[d].print.catalog <= stored'
                      /\ task'[d].found.catalog <= stored'
                      /\ task'[d].at \in {"adopt", "finish"} =>
                           task'[d].print.catalog <= task'[d].found.catalog
    BY DEF Newer
  <2>1. CASE d = c
    BY <1>1, <2>1
  <2>2. CASE d # c
    BY <1>1, <2>2 DEF IInv, Newer
  <2> QED
    BY <2>1, <2>2
<1>3. ASSUME t.at = "finish" /\ t.alone =>
               runtime'.catalog = t.found.catalog /\ runtime'.fingerprint = t.print
      PROVE  Kept'
  BY <1>1, <1>3 DEF Kept
<1>4. Compared'
  BY <1>1 DEF IInv, Compared, Ready
<1> QED
  BY <1>1, <1>2, <1>3, <1>4

LEMMA AdoptStep == ASSUME IInv, NEW c \in Tasks, Adopt(c) PROVE IInv'
<1> DEFINE t == [task[c] EXCEPT !.at = "finish"]
<1>1. task[c] \in Local /\ task[c].at = "adopt"
  BY Locals DEF Adopt
<1>2. t \in Local /\ t.at = "finish" /\ t.print = task[c].print /\ t.found = task[c].found
  BY <1>1 DEF Local, Place
<1>3. /\ task' = Disturb(c, t) /\ clean' = FALSE /\ UNCHANGED <<scope, stored, fetched>>
      /\ runtime' = [runtime EXCEPT !.catalog = task[c].found.catalog, !.fingerprint = task[c].print]
  BY DEF Adopt
<1>4. task[c].print.catalog <= stored /\ task[c].found.catalog <= stored
      /\ task[c].print.catalog <= task[c].found.catalog
  BY <1>1 DEF IInv, Newer
<1>5. runtime'.catalog = task[c].found.catalog /\ runtime'.fingerprint = task[c].print
      /\ runtime' \in [catalog : Nat, fingerprint : Look2, router : Look2]
  BY <1>1, <1>3 DEF IInv, RefreshType, Local, Look2
<1> HIDE DEF t
<1>6. task' \in [Tasks -> Local] /\ Newer' /\ Kept' /\ Compared'
  BY <1>2, <1>3, <1>4, <1>5, Changes
<1>7. RefreshType'
  BY <1>3, <1>5, <1>6 DEF IInv, RefreshType
<1>8. Counted' /\ Vouched'
  BY <1>3, <1>4, <1>5 DEF IInv, Counted, Vouched
<1> QED
  BY <1>6, <1>7, <1>8 DEF IInv

LEMMA FinishStep == ASSUME IInv, NEW c \in Tasks, Finish(c) PROVE IInv'
<1>1. task[c] \in Local /\ task[c].at = "finish" /\ runtime \in [catalog : Nat, fingerprint : Look2, router : Look2]
  BY Locals DEF Finish, IInv, RefreshType
<1>2. /\ task' = Disturb(c, Free) /\ UNCHANGED <<scope, stored, fetched>>
      /\ clean' = (task[c].alone /\ task[c].print.scope = task[c].found.scope)
      /\ runtime' = [runtime EXCEPT !.router = task[c].found]
  BY DEF Finish
<1>3. /\ runtime' \in [catalog : Nat, fingerprint : Look2, router : Look2]
      /\ runtime'.catalog = runtime.catalog /\ runtime'.fingerprint = runtime.fingerprint
      /\ runtime'.router = task[c].found
  BY <1>1, <1>2 DEF Local
<1>4. 0 <= stored /\ Free.at \notin {"finish", "adopt", "compare"}
  BY Locals, FreeLocal
<1>5. task' \in [Tasks -> Local] /\ Newer' /\ Kept' /\ Compared'
  BY <1>2, <1>4, FreeLocal, Changes
<1>6. task[c].alone \in BOOLEAN
  BY <1>1 DEF Local
<1>7. RefreshType'
  BY <1>2, <1>3, <1>5, <1>6 DEF IInv, RefreshType
<1>8. Counted'
  BY <1>2, <1>3 DEF IInv, Counted
<1>9. Vouched'
  <2> SUFFICES ASSUME clean'
               PROVE  /\ runtime'.fingerprint.scope = runtime'.router.scope
                      /\ runtime'.fingerprint.catalog <= runtime'.router.catalog
                      /\ runtime'.router.catalog <= runtime'.catalog
    BY DEF Vouched
  <2>1. runtime.catalog = task[c].found.catalog /\ runtime.fingerprint = task[c].print
    BY <1>1, <1>2 DEF IInv, Kept
  <2>2. task[c].print.catalog <= task[c].found.catalog
    BY <1>1 DEF IInv, Newer
  <2>3. runtime.catalog \in Nat /\ task[c].print.scope = task[c].found.scope
    BY <1>1, <1>2
  <2>4. /\ runtime'.fingerprint = task[c].print /\ runtime'.router = task[c].found
        /\ runtime'.catalog = task[c].found.catalog
    BY <1>3, <2>1
  <2>5. task[c].found.catalog \in Nat
    BY <2>1, <2>3
  <2>6. task[c].found.catalog <= task[c].found.catalog
    BY <2>5
  <2> QED
    BY <2>2, <2>3, <2>4, <2>6
<1> QED
  BY <1>5, <1>7, <1>8, <1>9 DEF IInv

(* A catalog reaches the store: of this process (task c then holds it) or   *)
(* of another one.                                                          *)
LEMMA NewCatalog ==
  ASSUME IInv, stored' = fetched + 1, fetched' = fetched + 1,
         UNCHANGED <<scope, runtime, clean>>,
         \/ UNCHANGED task
         \/ \E c \in Tasks :
              task' = [task EXCEPT ![c] = [Free EXCEPT !.at = "refresh", !.found = Of(NoScope, fetched + 1)]]
  PROVE  IInv'
<1>1. stored = fetched /\ stored \in Nat /\ runtime.catalog \in Nat /\ runtime.catalog <= stored
      /\ stored' \in Nat /\ stored <= stored' /\ task \in [Tasks -> Local]
  BY DEF IInv, RefreshType, Counted
<1>2. Counted' /\ Vouched'
  BY <1>1 DEF IInv, Counted, Vouched
<1>3. \A d \in Tasks : task[d].print.catalog \in Nat /\ task[d].found.catalog \in Nat
  BY <1>1 DEF Local, Look2
<1>4. \A d \in Tasks : task[d].print.catalog <= stored' /\ task[d].found.catalog <= stored'
  <2> SUFFICES ASSUME NEW d \in Tasks
               PROVE  task[d].print.catalog <= stored' /\ task[d].found.catalog <= stored'
    OBVIOUS
  <2>1. task[d].print.catalog <= stored /\ task[d].found.catalog <= stored
    BY DEF IInv, Newer
  <2> QED
    BY <1>1, <1>3, <2>1
<1>5. CASE UNCHANGED task
  <2>1. RefreshType'
    BY <1>1, <1>5 DEF IInv, RefreshType
  <2>2. Newer' /\ Kept'
    BY <1>4, <1>5 DEF IInv, Newer, Kept
  <2>3. Compared'
    BY <1>5 DEF IInv, Compared, Ready
  <2> QED
    BY <1>2, <2>1, <2>2, <2>3 DEF IInv
<1>6. ASSUME NEW c \in Tasks,
             task' = [task EXCEPT ![c] = [Free EXCEPT !.at = "refresh", !.found = Of(NoScope, fetched + 1)]]
      PROVE  IInv'
  <2> DEFINE n == fetched + 1
             t == [Free EXCEPT !.at = "refresh", !.found = Of(NoScope, n)]
  <2>1. n \in Nat /\ n = stored'
    BY <1>1
  <2> HIDE DEF n
  <2>2. t \in Local /\ t.at = "refresh" /\ t.print.catalog = 0 /\ t.found.catalog = n
    BY <2>1 DEF Free, Nothing, Of, Local, Look2, SomeScope, Place
  <2>3. task' = [task EXCEPT ![c] = t]
    BY <1>6 DEF n
  <2> HIDE DEF t
  <2>4. task' \in [Tasks -> Local] /\ \A d \in Tasks : task'[d] = IF d = c THEN t ELSE task[d]
    BY <1>1, <2>2, <2>3
  <2>5. RefreshType'
    BY <1>1, <2>4 DEF IInv, RefreshType
  <2>6. Newer'
    BY <1>1, <1>4, <2>1, <2>2, <2>4 DEF IInv, Newer
  <2>7. Kept' /\ Compared'
    BY <2>2, <2>4 DEF IInv, Kept, Compared, Ready
  <2> QED
    BY <1>2, <2>5, <2>6, <2>7 DEF IInv
<1> QED
  BY <1>5, <1>6

LEMMA RefreshStep == ASSUME IInv, NEW c \in Tasks, RefreshCatalog(c) PROVE IInv'
<1>1. task[c] \in Local /\ runtime \in [catalog : Nat, fingerprint : Look2, router : Look2]
      /\ clean \in BOOLEAN
  BY Locals DEF IInv, RefreshType
<1>2. PICK at \in {"free", "look"} : task' = Disturb(c, [Free EXCEPT !.at = at])
  BY DEF RefreshCatalog
<1> DEFINE t == [Free EXCEPT !.at = at]
           n == task[c].found.catalog
<1>3. t \in Local /\ t.at = at /\ t.print.catalog = 0 /\ t.found.catalog = 0
  BY <1>2 DEF Free, Nothing, Of, Local, Look2, SomeScope, Place
<1>4. n \in Nat /\ n <= stored /\ stored \in Nat /\ 0 <= stored
  BY <1>1, Locals DEF Local, Look2
<1>5. /\ UNCHANGED <<scope, stored, fetched>>
      /\ runtime' = [runtime EXCEPT !.catalog = n]
      /\ clean' = (clean /\ n >= runtime.catalog)
  BY DEF RefreshCatalog
<1>6. task' = Disturb(c, t)
  BY <1>2
<1> HIDE DEF t, n
<1>7. /\ runtime' \in [catalog : Nat, fingerprint : Look2, router : Look2]
      /\ runtime'.catalog = n /\ runtime'.fingerprint = runtime.fingerprint
      /\ runtime'.router = runtime.router
  BY <1>1, <1>4, <1>5
<1>8. task' \in [Tasks -> Local] /\ Newer' /\ Kept' /\ Compared'
  BY <1>2, <1>3, <1>4, <1>5, <1>6, Changes
<1>9. RefreshType'
  BY <1>1, <1>5, <1>7, <1>8 DEF IInv, RefreshType
<1>10. Counted'
  BY <1>4, <1>5, <1>7 DEF IInv, Counted
<1>11. Vouched'
  <2>1. runtime.router.catalog \in Nat /\ runtime.catalog \in Nat
    BY <1>1 DEF Look2
  <2>2. ASSUME clean'
        PROVE  /\ runtime.fingerprint.scope = runtime.router.scope
               /\ runtime.fingerprint.catalog <= runtime.router.catalog
               /\ runtime.router.catalog <= n
    <3>1. clean /\ runtime.catalog <= n
      BY <1>1, <1>4, <1>5, <2>1, <2>2
    <3>2. Vouched
      BY DEF IInv
    <3> QED
      BY <1>4, <2>1, <3>1, <3>2 DEF Vouched
  <2> QED
    BY <1>7, <2>2 DEF Vouched
<1> QED
  BY <1>8, <1>9, <1>10, <1>11 DEF IInv

LEMMA StepHolds == IInv /\ [RefreshNext]_refreshVars => IInv'
<1> SUFFICES ASSUME IInv, [RefreshNext]_refreshVars PROVE IInv'
  OBVIOUS
<1>1. ASSUME NEW c \in Tasks, StartTurn(c) \/ StartRebuild(c) \/ Passes(c) \/ Fails(c) PROVE IInv'
  BY <1>1, StartSteps
<1>2. ASSUME NEW c \in Tasks,
             Look(c) \/ MustRebuild(c) \/ TakeFingerprint(c) \/ DiscoverModels(c) \/ ReadCatalog(c)
      PROVE  IInv'
  BY <1>2, ReadSteps
<1>3. ASSUME NEW c \in Tasks, Adopt(c) PROVE IInv'
  BY <1>3, AdoptStep
<1>4. ASSUME NEW c \in Tasks, Finish(c) PROVE IInv'
  BY <1>4, FinishStep
<1>5. ASSUME NEW c \in Tasks, PutCatalog(c) PROVE IInv'
  BY <1>5, NewCatalog DEF PutCatalog
<1>6. ASSUME NEW c \in Tasks, RefreshCatalog(c) PROVE IInv'
  BY <1>6, RefreshStep
<1>7. CASE OtherProcessRefreshes
  BY <1>7, NewCatalog DEF OtherProcessRefreshes
<1>8. CASE ScopeChanges
  <2>1. scope' \in FleetScopes /\ UNCHANGED <<stored, runtime, task, fetched, clean>>
    BY <1>8 DEF ScopeChanges
  <2> QED
    BY <2>1 DEF IInv, RefreshType, Counted, Newer, Kept, Compared, Ready, Vouched
<1>9. CASE UNCHANGED refreshVars
  BY <1>9 DEF refreshVars, IInv, RefreshType, Counted, Newer, Kept, Compared, Ready, Vouched
<1> QED
  BY <1>1, <1>2, <1>3, <1>4, <1>5, <1>6, <1>7, <1>8, <1>9 DEF RefreshNext

THEOREM Invariance == RefreshSpec => []IInv
  BY InitHolds, StepHolds, PTL DEF RefreshSpec

(* For any number of concurrent turns and commands, any scopes and any      *)
(* history of price catalogs: after a rebuild that did not fail half way,   *)
(* overlap another or see two scopes, a turn that ensureFleetFresh lets     *)
(* pass routes on a router built for the scope it saw, and for the catalog  *)
(* in force unless somebody wrote to the runtime while it compared.  Of a   *)
(* turn after any other rebuild this says nothing: it may pass on a router  *)
(* that its fingerprint was not taken for.                                  *)
THEOREM RoutingIsFresh == RefreshSpec => FreshRouting
<1> DEFINE Fresh(c) == /\ runtime.router.scope = task[c].seen
                       /\ task[c].alone => runtime.router.catalog = runtime.catalog
<1>1. ASSUME IInv, NEW c \in Tasks, Passes(c), clean PROVE Fresh(c)
  <2>1. task[c].print = runtime.fingerprint /\ Ready(task[c]) /\ task[c].at = "compare"
    BY <1>1 DEF Passes, IInv, Compared
  <2>2. runtime.router \in Look2 /\ runtime.catalog \in Nat
    BY <1>1 DEF IInv, RefreshType
  <2>3. runtime.router.scope = task[c].seen
    BY <1>1, <2>1 DEF IInv, Vouched, Ready
  <2>4. ASSUME task[c].alone PROVE runtime.router.catalog = runtime.catalog
    <3>1. runtime.catalog <= runtime.router.catalog /\ runtime.router.catalog <= runtime.catalog
      BY <1>1, <2>1, <2>4 DEF IInv, Vouched, Ready
    <3> QED
      BY <2>2, <3>1 DEF Look2
  <2> QED
    BY <2>3, <2>4
<1>2. IInv /\ [RefreshNext]_refreshVars => [\A c \in Tasks : Passes(c) /\ clean => Fresh(c)]_refreshVars
  BY <1>1
<1> QED
  BY Invariance, <1>2, PTL DEF RefreshSpec, FreshRouting

-----------------------------------------------------------------------------
(* Rebuilding settles.  While repeated counts, nothing but one lone task    *)
(* moves, so the scope and the store's catalog are the ones its rebuild     *)
(* sees.  The first rebuild leaves a fingerprint of this scope and puts the *)
(* store's catalog in force; the second one then counts that catalog, and   *)
(* no third turn can find the fingerprint different.                        *)

Rebuilding(t) ==
  \/ t.at \in {"discover", "catalog", "adopt"}
  \/ t.at \in {"look", "print"} /\ ~t.turn

(* What the lone task t has read is what is there.                          *)
UpToDate(t) ==
  /\ t.at # "refresh"
  /\ t.at = "print" => t.seen = scope
  /\ t.at \in {"compare", "discover", "catalog", "adopt"} => t.print = Of(scope, runtime.catalog)
  /\ t.at = "adopt" => t.found.catalog = stored

(* How far the rebuilds have come, rebuilding telling whether one is under  *)
(* way.                                                                     *)
Progress(rebuilding) ==
  \/ repeated = 1 /\ rebuilding
  \/ /\ runtime.catalog = stored
     /\ \/ repeated = 1 /\ runtime.fingerprint.scope = scope
        \/ repeated = 2 /\ rebuilding
        \/ repeated = 2 /\ runtime.fingerprint = Of(scope, stored)

Settling ==
  /\ repeated \in 0 .. 2
  /\ repeated > 0 =>
       /\ \A c, d \in Tasks : Busy(c) /\ Busy(d) => c = d
       /\ \A c \in Tasks : UpToDate(task[c])
       /\ Progress(\E c \in Tasks : Rebuilding(task[c]))

LEMMA LoneTask ==
  ASSUME Settling, repeated > 0, NEW c \in Tasks, Busy(c)
  PROVE  /\ \A d \in Tasks \ {c} : task[d].at = "free"
         /\ UpToDate(task[c]) /\ Progress(Rebuilding(task[c]))
<1>1. \A d \in Tasks \ {c} : task[d].at = "free"
  BY DEF Settling, Busy
<1>2. (\E d \in Tasks : Rebuilding(task[d])) <=> Rebuilding(task[c])
  BY <1>1 DEF Rebuilding
<1> QED BY <1>1, <1>2 DEF Settling, Progress

LEMMA LoneStep ==
  ASSUME NEW c \in Tasks, repeated' \in {1, 2},
         \A d \in Tasks \ {c} : task'[d].at = "free",
         UpToDate(task[c])', Progress(Rebuilding(task[c]))'
  PROVE  Settling'
<1>1. \A d \in Tasks \ {c} : UpToDate(task[d])' /\ ~Rebuilding(task[d])' /\ ~Busy(d)'
  BY DEF UpToDate, Rebuilding, Busy
<1>2. (\E d \in Tasks : Rebuilding(task[d]))' <=> Rebuilding(task[c])'
  BY <1>1
<1>3. Progress(\E d \in Tasks : Rebuilding(task[d]))'
  BY <1>2 DEF Progress
<1>4. \A d, e \in Tasks : Busy(d)' /\ Busy(e)' => d = e
  BY <1>1
<1>5. \A d \in Tasks : UpToDate(task[d])'
  BY <1>1
<1>6. repeated' \in 0 .. 2
  OBVIOUS
<1> QED BY <1>3, <1>4, <1>5, <1>6 DEF Settling, Progress

LEMMA Counting ==
  ASSUME Settling
  PROVE  repeated = 0 \/ (repeated \in {1, 2} /\ repeated > 0)
<1>1. repeated \in 0 .. 2
  BY DEF Settling
<1> QED BY <1>1

LEMMA Unrepeated == repeated' = 0 => Settling'
BY DEF Settling

LEMMA OthersFree ==
  ASSUME NEW c \in Tasks, Others(c) = {}
  PROVE  \A d \in Tasks \ {c} : task[d].at = "free"
BY DEF Others, Busy

(* The steps of a turn before it rebuilds.                                  *)
LEMMA TurnSettles ==
  ASSUME IInv, Settling, NEW c \in Tasks, StartTurn(c) \/ MustRebuild(c)
  PROVE  Settling'
<1>1. task \in [Tasks -> Local] /\ runtime \in [catalog : Nat, fingerprint : Look2, router : Look2]
  BY DEF IInv, RefreshType
<1>2. CASE Others(c) # {}
  BY <1>2, Unrepeated DEF StartTurn, MustRebuild, Undisturbed
<1>3. CASE Others(c) = {} /\ StartTurn(c)
  <2>1. /\ repeated' = repeated /\ UNCHANGED <<scope, stored, runtime>>
        /\ task' = [task EXCEPT ![c] = [Free EXCEPT !.at = "look", !.turn = TRUE]]
        /\ ~Busy(c)
    BY <1>3 DEF StartTurn, Undisturbed
  <2>2. CASE repeated = 0
    BY <2>1, <2>2, Unrepeated
  <2>3. CASE repeated > 0
    <3>1. \A d \in Tasks : task[d].at = "free"
      BY <1>3, <2>1, OthersFree DEF Busy
    <3>2. Progress(FALSE)
      BY <2>3, <3>1 DEF Settling, Progress, Rebuilding
    <3>3. task'[c].at = "look" /\ task'[c].turn = TRUE
          /\ \A d \in Tasks \ {c} : task'[d].at = "free"
      BY <1>1, <2>1, <3>1 DEF Free
    <3>4. UpToDate(task[c])' /\ ~Rebuilding(task[c])'
      BY <3>3 DEF UpToDate, Rebuilding
    <3>5. Progress(Rebuilding(task[c]))'
      BY <2>1, <3>2, <3>4 DEF Progress
    <3>6. repeated' \in {1, 2}
      BY <2>1, <2>3, Counting
    <3> QED BY <3>3, <3>4, <3>5, <3>6, LoneStep
  <2> QED BY <2>2, <2>3, Counting
<1>4. CASE Others(c) = {} /\ MustRebuild(c)
  <2>1. /\ repeated' = repeated + 1 /\ UNCHANGED <<scope, stored, runtime>>
        /\ task' = [task EXCEPT ![c].at = "look", ![c].turn = FALSE]
        /\ task[c].at = "compare" /\ task[c].print # runtime.fingerprint
    BY <1>4 DEF MustRebuild, Undisturbed
  <2>2. task'[c].at = "look" /\ task'[c].turn = FALSE
        /\ \A d \in Tasks \ {c} : task'[d].at = "free"
    BY <1>1, <1>4, <2>1, OthersFree DEF Local
  <2>3. UpToDate(task[c])' /\ Rebuilding(task[c])'
    BY <2>2 DEF UpToDate, Rebuilding
  <2>4. CASE repeated = 0
    <3>1. Progress(Rebuilding(task[c]))' /\ repeated' = 1
      BY <2>1, <2>3, <2>4 DEF Progress
    <3> QED BY <2>2, <2>3, <3>1, LoneStep
  <2>5. CASE repeated > 0
    <3>1. UpToDate(task[c]) /\ Progress(FALSE)
      <4>1. UpToDate(task[c]) /\ Progress(Rebuilding(task[c])) /\ ~Rebuilding(task[c])
        BY <2>1, <2>5, LoneTask DEF Busy, Rebuilding
      <4> QED BY <4>1 DEF Progress
    <3>2. repeated = 1 /\ runtime.catalog = stored
      BY <2>1, <3>1 DEF UpToDate, Progress, Of
    <3>3. Progress(Rebuilding(task[c]))' /\ repeated' = 2
      BY <2>1, <2>3, <3>2 DEF Progress
    <3> QED BY <2>2, <2>3, <3>3, LoneStep
  <2> QED BY <2>4, <2>5, Counting
<1> QED BY <1>2, <1>3, <1>4

(* The steps of the rebuild.                                                *)
LEMMA RebuildSettles ==
  ASSUME IInv, Settling, NEW c \in Tasks,
         \/ Look(c) \/ TakeFingerprint(c) \/ DiscoverModels(c) \/ ReadCatalog(c)
         \/ Adopt(c) \/ Finish(c)
  PROVE  Settling'
<1>1. /\ task \in [Tasks -> Local]
      /\ runtime \in [catalog : Nat, fingerprint : Look2, router : Look2]
  BY DEF IInv, RefreshType
<1>2. repeated' = repeated /\ Busy(c) /\ scope' = scope /\ stored' = stored
  BY DEF Look, TakeFingerprint, DiscoverModels, ReadCatalog, Adopt, Finish, Busy
<1>3. CASE repeated = 0
  BY <1>2, <1>3, Unrepeated
<1>4. CASE repeated > 0
  <2>1. /\ \A d \in Tasks \ {c} : task[d].at = "free"
        /\ UpToDate(task[c]) /\ Progress(Rebuilding(task[c]))
    BY <1>2, <1>4, LoneTask
  <2>2. \A d \in Tasks \ {c} : task'[d].at = "free"
    <3>1. CASE Look(c) \/ TakeFingerprint(c) \/ DiscoverModels(c) \/ ReadCatalog(c)
      BY <1>1, <2>1, <3>1 DEF Look, TakeFingerprint, DiscoverModels, ReadCatalog
    <3>2. CASE Adopt(c) \/ Finish(c)
      BY <1>1, <2>1, <3>2 DEF Adopt, Finish, Disturb, Local
    <3> QED BY <3>1, <3>2
  <2>3. UpToDate(task[c])' /\ Progress(Rebuilding(task[c]))'
    <3>1. CASE Look(c)
      <4>1. /\ task[c].at = "look" /\ runtime' = runtime
            /\ task'[c].seen = scope
            /\ task'[c].at = "print" /\ task'[c].turn = task[c].turn
        BY <1>1, <3>1 DEF Look, Local
      <4>2. UpToDate(task[c])' /\ (Rebuilding(task[c])' <=> Rebuilding(task[c]))
        BY <1>2, <4>1 DEF UpToDate, Rebuilding
      <4> QED BY <1>2, <2>1, <4>1, <4>2 DEF Progress
    <3>2. CASE TakeFingerprint(c)
      <4>1. /\ task[c].at = "print" /\ runtime' = runtime /\ task'[c].turn = task[c].turn
            /\ task'[c].at = IF task[c].turn THEN "compare" ELSE "discover"
            /\ task'[c].print = Of(task[c].seen, runtime.catalog)
        BY <1>1, <3>2 DEF TakeFingerprint, computeFleetScopeFingerprint, Local
      <4>2. UpToDate(task[c])' /\ (Rebuilding(task[c])' <=> Rebuilding(task[c]))
        BY <1>2, <2>1, <4>1 DEF UpToDate, Rebuilding
      <4> QED BY <1>2, <2>1, <4>1, <4>2 DEF Progress
    <3>3. CASE DiscoverModels(c)
      <4>1. /\ task[c].at = "discover" /\ runtime' = runtime /\ task'[c].at = "catalog"
            /\ task'[c].print = task[c].print
        BY <1>1, <3>3 DEF DiscoverModels, Local
      <4>2. UpToDate(task[c])' /\ Rebuilding(task[c])' /\ Rebuilding(task[c])
        BY <1>2, <2>1, <4>1 DEF UpToDate, Rebuilding
      <4> QED BY <1>2, <2>1, <4>1, <4>2 DEF Progress
    <3>4. CASE ReadCatalog(c)
      <4>1. /\ task[c].at = "catalog" /\ runtime' = runtime /\ task'[c].at = "adopt"
            /\ task'[c].print = task[c].print /\ task'[c].found.catalog = stored
        BY <1>1, <3>4 DEF ReadCatalog, Local, Look2
      <4>2. UpToDate(task[c])' /\ Rebuilding(task[c])' /\ Rebuilding(task[c])
        BY <1>2, <2>1, <4>1 DEF UpToDate, Rebuilding
      <4> QED BY <1>2, <2>1, <4>1, <4>2 DEF Progress
    <3>5. CASE Adopt(c)
      <4>1. /\ task[c].at = "adopt" /\ task'[c].at = "finish"
            /\ runtime'.catalog = task[c].found.catalog /\ runtime'.fingerprint = task[c].print
        BY <1>1, <3>5 DEF Adopt, Disturb, Local
      <4>2. UpToDate(task[c])' /\ Rebuilding(task[c])
        BY <4>1 DEF UpToDate, Rebuilding
      <4>3. /\ runtime'.catalog = stored
            /\ runtime'.fingerprint = Of(scope, runtime.catalog)
        BY <2>1, <4>1 DEF UpToDate
      <4>4. repeated = 1 \/ (repeated = 2 /\ runtime.catalog = stored)
        BY <2>1 DEF Progress
      <4> QED BY <1>2, <4>2, <4>3, <4>4 DEF Progress, Of
    <3>6. CASE Finish(c)
      <4>1. /\ task[c].at = "finish" /\ task'[c].at = "free"
            /\ runtime'.catalog = runtime.catalog /\ runtime'.fingerprint = runtime.fingerprint
        BY <1>1, <3>6 DEF Finish, Disturb, Free
      <4>2. UpToDate(task[c])' /\ ~Rebuilding(task[c])' /\ ~Rebuilding(task[c])
        BY <4>1 DEF UpToDate, Rebuilding
      <4> QED BY <1>2, <2>1, <4>1, <4>2 DEF Progress
    <3> QED BY <3>1, <3>2, <3>3, <3>4, <3>5, <3>6
  <2>4. repeated' \in {1, 2}
    BY <1>2, <1>4, Counting
  <2> QED BY <2>2, <2>3, <2>4, LoneStep
<1> QED BY <1>3, <1>4, Counting

LEMMA SettlingStep == IInv /\ Settling /\ [RefreshNext]_refreshVars => Settling'
<1> SUFFICES ASSUME IInv, Settling, [RefreshNext]_refreshVars PROVE Settling'
  OBVIOUS
<1>1. ASSUME NEW c \in Tasks, StartTurn(c) \/ MustRebuild(c) PROVE Settling'
  BY <1>1, TurnSettles
<1>2. ASSUME NEW c \in Tasks,
             \/ Look(c) \/ TakeFingerprint(c) \/ DiscoverModels(c) \/ ReadCatalog(c)
             \/ Adopt(c) \/ Finish(c)
      PROVE  Settling'
  BY <1>2, RebuildSettles
<1>3. ASSUME NEW c \in Tasks,
             \/ StartRebuild(c) \/ Passes(c) \/ Fails(c) \/ PutCatalog(c) \/ RefreshCatalog(c)
      PROVE  Settling'
  BY <1>3, Unrepeated
     DEF StartRebuild, Passes, Fails, PutCatalog, RefreshCatalog, Undisturbed
<1>4. CASE ScopeChanges \/ OtherProcessRefreshes
  BY <1>4, Unrepeated DEF ScopeChanges, OtherProcessRefreshes
<1>5. CASE UNCHANGED refreshVars
  BY <1>5 DEF refreshVars, Settling, Busy, UpToDate, Progress, Rebuilding
<1> QED BY <1>1, <1>2, <1>3, <1>4, <1>5 DEF RefreshNext

(* When nothing changes, overlaps or fails, the third turn in a row finds   *)
(* its fingerprint and routes: ensureFleetFresh cannot keep rebuilding,     *)
(* whatever scopes, catalogs and half-done rebuilds came before.            *)
THEOREM RebuildingSettles == RefreshSpec => []RebuildsSettle
<1>1. RefreshInit => Settling
  BY DEF RefreshInit, Settling
<1>2. Settling => RebuildsSettle
  BY DEF Settling, RebuildsSettle
<1> QED BY <1>1, <1>2, SettlingStep, Invariance, PTL DEF RefreshSpec
=============================================================================
