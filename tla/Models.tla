------------------------------- MODULE Models -------------------------------
(***************************************************************************)
(* The models of a provider: what its address lists is fetched, kept for   *)
(* some minutes (provider/discover.go) and stored as rows, which the user  *)
(* enables and of which one may be the default (api/model.go,              *)
(* repo/model.go).  The provider itself is changed and deleted at any time *)
(* (api/provider.go); neither its list nor its rows follow.                *)
(*                                                                         *)
(* One provider of one user: nothing here is shared between providers.     *)
(***************************************************************************)
EXTENDS Naturals, FiniteSets

CONSTANTS
  Ids,        \* names of models
  Addresses,  \* that the provider may have
  Requests,
  Nothing,    \* no list, no row
  MaxRequests

VARIABLES
  provider, \* its address, and whether it is there
  cache,    \* the list of Discoverer, with the address it is of
  models,   \* the rows
  desk,     \* what each request is doing
  requests

vars == <<provider, cache, models, desk, requests>>

Providers == [address : Addresses, status : {"none", "active", "deleted"}]
Rows == [enabled : BOOLEAN, default : BOOLEAN]
Lists == [from : Addresses, ids : (SUBSET Ids) \ {{}}]
Idle == [at |-> "idle", todo |-> {}, id |-> Nothing, row |-> Nothing, address |-> Nothing, late |-> FALSE]

TypeOK ==
  /\ provider \in Providers
  /\ cache \in Lists \cup {Nothing}
  /\ models \in [Ids -> Rows \cup {Nothing}]
  /\ \A r \in Requests : /\ desk[r].at \in {"idle", "fetching", "syncing", "saving", "creating",
                                            "patching", "updating", "deleting"}
                         /\ desk[r].todo \subseteq Ids /\ desk[r].id \in Ids \cup {Nothing}
                         /\ desk[r].row \in Rows \cup {Nothing}
                         /\ desk[r].address \in Addresses \cup {Nothing} /\ desk[r].late \in BOOLEAN

Init ==
  /\ provider \in [address : Addresses, status : {"none"}]
  /\ cache = Nothing
  /\ models = [i \in Ids |-> Nothing]
  /\ desk = [r \in Requests |-> Idle]
  /\ requests = 0

-----------------------------------------------------------------------------
Does(r, step) == desk' = [desk EXCEPT ![r] = step]
Doing(r, at) == desk[r].at = at

(* A request begins with the provider, of which the user must be the owner. *)
lookupOwnedProvider(r) ==
  /\ desk[r] = Idle /\ provider.status = "active"
  /\ requests < MaxRequests /\ requests' = requests + 1

(* A write makes late what other requests have read.                       *)
Writes(r, step) ==
  desk' = [q \in Requests |-> IF q = r THEN step
                              ELSE IF desk[q].at \in {"saving", "patching"} THEN [desk[q] EXCEPT !.late = TRUE]
                              ELSE desk[q]]

SyncProviderModels(r) ==
  /\ lookupOwnedProvider(r)
  /\ Does(r, IF cache = Nothing THEN [Idle EXCEPT !.at = "fetching", !.address = provider.address]
             ELSE [Idle EXCEPT !.at = "syncing", !.todo = cache.ids])
  /\ UNCHANGED <<provider, cache, models>>

(* Without the lock: several may fetch, of different addresses, and the    *)
(* last to answer is kept.  Some requests only wanted to see the list.     *)
FetchModels(r) ==
  /\ Doing(r, "fetching")
  /\ \/ \E ids \in (SUBSET Ids) \ {{}} :
          /\ cache' = [from |-> desk[r].address, ids |-> ids]
          /\ \E step \in {[Idle EXCEPT !.at = "syncing", !.todo = ids], Idle} : Does(r, step)
     \/ Does(r, Idle) /\ UNCHANGED cache
  /\ UNCHANGED <<provider, models, requests>>

CacheExpires ==
  /\ cache # Nothing /\ cache' = Nothing
  /\ UNCHANGED <<provider, models, desk, requests>>

UpsertModel(r, i) ==
  /\ Doing(r, "syncing") /\ i \in desk[r].todo
  /\ Does(r, [desk[r] EXCEPT !.at = IF models[i] = Nothing THEN "creating" ELSE "saving",
                             !.id = i, !.row = models[i], !.todo = @ \ {i}, !.late = FALSE])
  /\ UNCHANGED <<provider, cache, models, requests>>

NextModel(r) == IF desk[r].todo = {} THEN Idle
                ELSE [desk[r] EXCEPT !.at = "syncing", !.id = Nothing, !.row = Nothing, !.late = FALSE]

(* The pair of provider and model is unique: a row that has come meanwhile *)
(* ends the request.                                                       *)
CreateModel(r) ==
  /\ Doing(r, "creating")
  /\ \/ /\ models[desk[r].id] = Nothing
        /\ models' = [models EXCEPT ![desk[r].id] = [enabled |-> FALSE, default |-> FALSE]]
        /\ Writes(r, NextModel(r))
     \/ models[desk[r].id] # Nothing /\ Does(r, Idle) /\ UNCHANGED models
  /\ UNCHANGED <<provider, cache, requests>>

(* Fault variant: the row of the list is stored, as new ones are.          *)
SaveModelAsNew(r) ==
  /\ Doing(r, "saving")
  /\ models' = [models EXCEPT ![desk[r].id] = [enabled |-> FALSE, default |-> FALSE]]
  /\ Writes(r, NextModel(r))
  /\ UNCHANGED <<provider, cache, requests>>

(* The row that was read, with a new name.                                 *)
SaveModel(r) ==
  /\ Doing(r, "saving")
  /\ models' = [models EXCEPT ![desk[r].id] = desk[r].row]
  /\ Writes(r, NextModel(r))
  /\ UNCHANGED <<provider, cache, requests>>

UpdateModel(r, i) ==
  /\ models[i] # Nothing
  /\ lookupOwnedProvider(r)
  /\ Does(r, [Idle EXCEPT !.at = "patching", !.id = i, !.row = models[i]])
  /\ UNCHANGED <<provider, cache, models>>

(* A flag that is not part of the request stays as it was read.  In one    *)
(* transaction the others lose the default first.                          *)
PatchModel(r, enabled, choice) ==
  /\ Doing(r, "patching")
  /\ LET default == IF choice = "keep" THEN desk[r].row.default ELSE choice = "set"
     IN models' = [i \in Ids |->
                     IF i = desk[r].id THEN [enabled |-> enabled, default |-> default]
                     ELSE IF choice = "set" /\ models[i] # Nothing
                            THEN [models[i] EXCEPT !.default = FALSE] ELSE models[i]]
  /\ Writes(r, Idle)
  /\ UNCHANGED <<provider, cache, requests>>

(* Nothing is fetched for a new one.                                       *)
CreateProvider(address) ==
  /\ provider.status = "none"
  /\ provider' = [address |-> address, status |-> "active"]
  /\ UNCHANGED <<cache, models, desk, requests>>

(* The row is read and stored, and one that was deleted meanwhile is put   *)
(* back.                                                                   *)
UpdateProvider(r, address) ==
  /\ lookupOwnedProvider(r)
  /\ Does(r, [Idle EXCEPT !.at = "updating", !.address = address])
  /\ UNCHANGED <<provider, cache, models>>

SaveProvider(r) ==
  /\ Doing(r, "updating")
  /\ provider' = [address |-> desk[r].address, status |-> "active"]
  /\ Does(r, Idle) /\ UNCHANGED <<cache, models, requests>>

DeleteProvider(r) ==
  /\ lookupOwnedProvider(r) /\ Does(r, [Idle EXCEPT !.at = "deleting"])
  /\ UNCHANGED <<provider, cache, models>>

DropProvider(r) ==
  /\ Doing(r, "deleting")
  /\ provider' = [provider EXCEPT !.status = "deleted"]
  /\ Does(r, Idle) /\ UNCHANGED <<cache, models, requests>>

Next ==
  \/ CacheExpires
  \/ \E address \in Addresses : CreateProvider(address)
  \/ \E r \in Requests :
       \/ SyncProviderModels(r) \/ FetchModels(r) \/ CreateModel(r) \/ SaveModel(r)
       \/ \E i \in Ids : UpsertModel(r, i) \/ UpdateModel(r, i)
       \/ \E enabled \in BOOLEAN, choice \in {"keep", "set", "unset"} : PatchModel(r, enabled, choice)
       \/ \E address \in Addresses : UpdateProvider(r, address)
       \/ SaveProvider(r) \/ DeleteProvider(r) \/ DropProvider(r)

Spec == Init /\ [][Next]_vars

-----------------------------------------------------------------------------
Defaults == {i \in Ids : models[i] # Nothing /\ models[i].default}
Writing(r, at) == Doing(r, at) /\ desk'[r].at # at /\ models' # models

(* repo/model.go: a sync refreshes a row "while preserving the user's       *)
(* enable/default choices", and "a provider keeps at most one default".     *)
(* Syncs and choices overlap: both hold but for a request that stores a row *)
(* another one has written since it was read.                               *)
ChoicesStep ==
  /\ \A r \in Requests : Writing(r, "saving") => desk[r].late
  /\ Cardinality(Defaults) <= 1 /\ Cardinality(Defaults') > 1
       => \E r \in Requests : desk[r].late /\ (Writing(r, "saving") \/ Writing(r, "patching"))

ChoicesKept == [][ChoicesStep]_vars
=============================================================================
