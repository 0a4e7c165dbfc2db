----------------------------- MODULE FleetRefresh -----------------------------
(***************************************************************************)
(* How the extension keeps its fleet current: ensureFleetFresh before every *)
(* turn, rebuildFleet at a session start or a command, the pricing refresh. *)
(*                                                                          *)
(* What there is to discover is a scope (mode, enabled models, registry)    *)
(* and a price catalog; a rebuild reads the scope twice, once for the       *)
(* fingerprint and once for the fleet, reads the catalog the store holds,   *)
(* and awaits in between, so turns, commands and the world interleave with  *)
(* it.  It stores the fingerprint one await before the router it stands     *)
(* for.  Catalogs are numbered by last_updated; 0 is none.                  *)
(***************************************************************************)
EXTENDS Naturals

CONSTANTS
  Tasks,         (* turns and commands under way at the same time           *)
  FleetScopes,   (* what the mode, the settings and the registry may yield  *)
  NoScope,
  MaxCatalog     (* fetched catalogs, a bound                               *)

VARIABLES
  scope,     (* what a look at mode, settings and registry yields now       *)
  stored,    (* the catalog in the store                                    *)
  runtime,   (* priceCatalog, fleetScopeFingerprint, streamDeps.router and  *)
             (* .fleet                                                      *)
  task,      (* per task: where it is, and its local variables              *)
  fetched,   (* catalogs fetched so far                                     *)
  clean,     (* history: the router is the one of the last undisturbed      *)
             (* rebuild, see Finish                                         *)
  repeated   (* history: turns in a row that had to rebuild although        *)
             (* nothing had changed                                         *)

refreshVars == <<scope, stored, runtime, task, fetched, clean, repeated>>

Of(s, catalog) == [scope |-> s, catalog |-> catalog]
Nothing == Of(NoScope, 0)
Free == [at |-> "free", turn |-> FALSE, seen |-> NoScope, print |-> Nothing, found |-> Nothing,
         alone |-> FALSE]

RefreshInit ==
  /\ scope \in FleetScopes
  /\ stored = 0
  /\ runtime = [catalog |-> 0, fingerprint |-> Nothing, router |-> Nothing]
  /\ task = [c \in Tasks |-> Free]
  /\ fetched = 0
  /\ clean = FALSE
  /\ repeated = 0

-----------------------------------------------------------------------------
Busy(c)   == task[c].at # "free"
Others(c) == {d \in Tasks \ {c} : Busy(d)}
Undisturbed(c, n) == IF Others(c) = {} THEN n ELSE 0

(* Every task that has taken its fingerprint is told that the runtime has   *)
(* changed under it.                                                        *)
Disturb(c, t) == [d \in Tasks |-> IF d = c THEN t ELSE [task[d] EXCEPT !.alone = FALSE]]

(* A turn asks ensureFleetFresh; a session start and a mode command rebuild *)
(* unasked.                                                                 *)
StartTurn(c) ==
  /\ ~Busy(c)
  /\ task' = [task EXCEPT ![c] = [Free EXCEPT !.at = "look", !.turn = TRUE]]
  /\ repeated' = Undisturbed(c, repeated)
  /\ UNCHANGED <<scope, stored, runtime, fetched, clean>>

StartRebuild(c) ==
  /\ ~Busy(c)
  /\ task' = [task EXCEPT ![c] = [Free EXCEPT !.at = "look"]]
  /\ repeated' = 0
  /\ UNCHANGED <<scope, stored, runtime, fetched, clean>>

(* readScopeFingerprintInputs.                                              *)
Look(c) ==
  /\ task[c].at = "look"
  /\ task' = [task EXCEPT ![c].seen = scope, ![c].at = "print"]
  /\ UNCHANGED <<scope, stored, runtime, fetched, clean, repeated>>

(* Mutant: the fingerprint leaves the catalog out.                          *)
FingerprintScope(c) == Of(task[c].seen, 0)

computeFleetScopeFingerprint(c) == Of(task[c].seen, runtime.catalog)

(* The turn compares one await later, the rebuild goes on to discover.      *)
TakeFingerprint(c) ==
  /\ task[c].at = "print"
  /\ task' = [task EXCEPT ![c].print = computeFleetScopeFingerprint(c), ![c].alone = TRUE,
                          ![c].at = IF task[c].turn THEN "compare" ELSE "discover"]
  /\ UNCHANGED <<scope, stored, runtime, fetched, clean, repeated>>

(* The turn goes on to route with streamDeps.router and .fleet as they are. *)
Passes(c) ==
  /\ task[c].at = "compare"
  /\ task[c].print = runtime.fingerprint
  /\ task' = [task EXCEPT ![c] = Free]
  /\ repeated' = Undisturbed(c, 0)
  /\ UNCHANGED <<scope, stored, runtime, fetched, clean>>

(* rebuildFleet looks and computes the fingerprint again.                   *)
MustRebuild(c) ==
  /\ task[c].at = "compare"
  /\ task[c].print # runtime.fingerprint
  /\ task' = [task EXCEPT ![c].at = "look", ![c].turn = FALSE]
  /\ repeated' = Undisturbed(c, repeated + 1)
  /\ UNCHANGED <<scope, stored, runtime, fetched, clean>>

(* discoverFleet: models first, then the catalog of the store.              *)
DiscoverModels(c) ==
  /\ task[c].at = "discover"
  /\ task' = [task EXCEPT ![c].found = Of(scope, 0), ![c].at = "catalog"]
  /\ UNCHANGED <<scope, stored, runtime, fetched, clean, repeated>>

ReadCatalog(c) ==
  /\ task[c].at = "catalog"
  /\ task' = [task EXCEPT ![c].found.catalog = stored, ![c].at = "adopt"]
  /\ UNCHANGED <<scope, stored, runtime, fetched, clean, repeated>>

(* Mutant: the fingerprint is taken but not kept.                           *)
AdoptUnprinted(c) ==
  /\ task[c].at = "adopt"
  /\ runtime' = [runtime EXCEPT !.catalog = task[c].found.catalog]
  /\ task' = Disturb(c, [task[c] EXCEPT !.at = "finish"])
  /\ clean' = FALSE
  /\ UNCHANGED <<scope, stored, fetched, repeated>>

Adopt(c) ==
  /\ task[c].at = "adopt"
  /\ runtime' = [runtime EXCEPT !.catalog = task[c].found.catalog, !.fingerprint = task[c].print]
  /\ task' = Disturb(c, [task[c] EXCEPT !.at = "finish"])
  /\ clean' = FALSE
  /\ UNCHANGED <<scope, stored, fetched, repeated>>

(* Undisturbed: nobody else wrote to the runtime since the fingerprint, and *)
(* both looks saw the same scope.                                           *)
Finish(c) ==
  /\ task[c].at = "finish"
  /\ runtime' = [runtime EXCEPT !.router = task[c].found]
  /\ clean' = (task[c].alone /\ task[c].print.scope = task[c].found.scope)
  /\ task' = Disturb(c, Free)
  /\ UNCHANGED <<scope, stored, fetched, repeated>>

(* getAvailable, the settings, the store and the quota feed's telemetry     *)
(* read may throw: the command reports it, the turn fails; nothing that was *)
(* stored is taken back.                                                    *)
Fails(c) ==
  /\ task[c].at \in {"look", "discover", "catalog", "finish"}
  /\ task' = [task EXCEPT ![c] = Free]
  /\ repeated' = 0
  /\ UNCHANGED <<scope, stored, runtime, fetched, clean>>

(* The pricing command: fetch and put, adopt, rebuild; an abort in between  *)
(* skips the rebuild.                                                       *)
PutCatalog(c) ==
  /\ ~Busy(c)
  /\ fetched < MaxCatalog
  /\ fetched' = fetched + 1
  /\ stored' = fetched + 1
  /\ task' = [task EXCEPT ![c] = [Free EXCEPT !.at = "refresh", !.found = Of(NoScope, fetched + 1)]]
  /\ repeated' = 0
  /\ UNCHANGED <<scope, runtime, clean>>

RefreshCatalog(c) ==
  /\ task[c].at = "refresh"
  /\ runtime' = [runtime EXCEPT !.catalog = task[c].found.catalog]
  /\ clean' = (clean /\ task[c].found.catalog >= runtime.catalog)
  /\ \E at \in {"free", "look"} :
       task' = Disturb(c, [Free EXCEPT !.at = at])
  /\ repeated' = 0
  /\ UNCHANGED <<scope, stored, fetched>>

(* The settings, the registry or the mode change; another process of the    *)
(* same working directory refreshes the store's catalog.                    *)
ScopeChanges ==
  /\ scope' \in FleetScopes \ {scope}
  /\ repeated' = 0
  /\ UNCHANGED <<stored, runtime, task, fetched, clean>>

OtherProcessRefreshes ==
  /\ fetched < MaxCatalog
  /\ fetched' = fetched + 1
  /\ stored' = fetched + 1
  /\ repeated' = 0
  /\ UNCHANGED <<scope, runtime, task, clean>>

RefreshNext ==
  \/ \E c \in Tasks :
       \/ StartTurn(c) \/ StartRebuild(c) \/ Look(c) \/ Passes(c) \/ MustRebuild(c) \/ TakeFingerprint(c)
       \/ DiscoverModels(c) \/ ReadCatalog(c) \/ Adopt(c) \/ Finish(c) \/ Fails(c)
       \/ PutCatalog(c) \/ RefreshCatalog(c)
  \/ ScopeChanges \/ OtherProcessRefreshes

RefreshSpec == RefreshInit /\ [][RefreshNext]_refreshVars

-----------------------------------------------------------------------------
(* A turn whose fingerprint matches routes on a router that was built for   *)
(* the scope it saw and, when nobody has written to the runtime since it    *)
(* took the fingerprint, for the catalog the runtime holds, however the     *)
(* scope, the prices and other tasks moved before; provided that the last   *)
(* rebuild which touched the runtime was undisturbed.  One that failed      *)
(* after it stored its fingerprint, overlapped another, or saw two          *)
(* different scopes leaves a fingerprint that vouches for a router that was *)
(* never built (fleet-bootstrap.ts:313); the code does not notice.          *)
FreshRouting ==
  [][\A c \in Tasks : Passes(c) /\ clean =>
       /\ runtime.router.scope = task[c].seen
       /\ task[c].alone => runtime.router.catalog = runtime.catalog]_refreshVars

(* Rebuilding settles: when nothing changes, no task overlaps and nothing   *)
(* fails, at most two turns in a row rebuild (the first one may adopt a     *)
(* catalog its fingerprint did not count yet), the third one routes.        *)
RebuildsSettle == repeated <= 2
=============================================================================
