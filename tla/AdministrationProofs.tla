------------------------- MODULE AdministrationProofs -------------------------
(***************************************************************************)
(* Theorems about the modules Models, Migrations and Access, as            *)
(* MCComponents instantiates them, for any number of models, requests,     *)
(* nodes and users.                                                        *)
(***************************************************************************)
EXTENDS CorpusProofs

LEMMA ModelSteps == [Next]_vars /\ part = "models" => [Model!Next]_(Model!vars)
BY DEF Next, vars, ApprovalAlone, WorktreeAlone, EvalAlone, PromptAlone, KBaseAlone, SkillAlone,
       AccountAlone, SchemaAlone, ModelAlone, modelsVars, Model!vars

-----------------------------------------------------------------------------
(* Models *)

LEMMA CardSame == \A S : Model!Cardinality(S) = Cardinality(S)
BY DEF Model!Cardinality, Cardinality

ModelRequest ==
  [at : {"idle", "fetching", "syncing", "saving", "creating", "patching", "updating", "deleting"},
   todo : SUBSET Ids, id : Ids \cup {Nothing}, row : Model!Rows \cup {Nothing},
   address : Addresses \cup {Nothing}, late : BOOLEAN]

(* A request that is not late has the row as it is. *)
RowIsRead(q) ==
  /\ q.at \in {"saving", "creating", "patching"} => q.id \in Ids
  /\ q.at \in {"saving", "patching"} =>
       /\ q.row \in Model!Rows /\ q.row # Nothing
       /\ ~q.late => q.row = models[q.id]
  /\ q.at \in {"fetching", "updating"} => q.address \in Addresses

RowsAreRead == \A r \in Requests : RowIsRead(desk[r])

StoresTyped ==
  /\ provider \in Model!Providers
  /\ cache \in Model!Lists \cup {Nothing}
  /\ models \in [Ids -> Model!Rows \cup {Nothing}]

ModelInv == StoresTyped /\ desk \in [Requests -> ModelRequest] /\ RowsAreRead

LEMMA ModelTyped == ModelInv => Model!TypeOK
BY DEF ModelInv, StoresTyped, ModelRequest, Model!TypeOK

LEMMA ModelIdle == Model!Idle \in ModelRequest /\ Model!Idle.at = "idle"
BY DEF Model!Idle, ModelRequest

LEMMA ModelInit == Model!Init => ModelInv
<1> SUFFICES ASSUME Model!Init PROVE ModelInv
  OBVIOUS
<1>1. StoresTyped
  BY DEF Model!Init, StoresTyped, Model!Providers
<1>2. desk \in [Requests -> ModelRequest] /\ RowsAreRead
  BY ModelIdle DEF Model!Init, RowsAreRead, RowIsRead
<1> QED
  BY <1>1, <1>2 DEF ModelInv

(* A step of one request that leaves the rows as they are. *)
LEMMA DoesInv ==
  ASSUME ModelInv, NEW r \in Requests, NEW step \in ModelRequest,
         Model!Does(r, step), RowIsRead(step), models' = models, StoresTyped'
  PROVE  ModelInv'
<1>1. desk' = [desk EXCEPT ![r] = step]
  BY DEF Model!Does
<1>2. desk' \in [Requests -> ModelRequest]
  BY <1>1 DEF ModelInv
<1>3. RowsAreRead'
  BY <1>1 DEF ModelInv, RowsAreRead, RowIsRead
<1> QED
  BY <1>2, <1>3 DEF ModelInv

(* A step that changes rows makes late whoever has read one. *)
LEMMA WritesInv ==
  ASSUME ModelInv, NEW r \in Requests, NEW step \in ModelRequest, step.at \in {"idle", "syncing"},
         Model!Writes(r, step), StoresTyped'
  PROVE  ModelInv'
<1>1. \A q \in Requests :
        desk'[q] = IF q = r THEN step
                   ELSE IF desk[q].at \in {"saving", "patching"} THEN [desk[q] EXCEPT !.late = TRUE]
                   ELSE desk[q]
  BY DEF Model!Writes
<1>2. \A q \in Requests : desk'[q] \in ModelRequest
  <2> TAKE q \in Requests
  <2>1. desk[q] \in ModelRequest
    BY DEF ModelInv
  <2>2. [desk[q] EXCEPT !.late = TRUE] \in ModelRequest
    BY <2>1 DEF ModelRequest
  <2> QED
    BY <1>1, <2>1, <2>2
<1>3. desk' \in [Requests -> ModelRequest]
  BY <1>2 DEF Model!Writes
<1>4. ASSUME NEW q \in Requests PROVE RowIsRead(desk[q])'
  <2>1. desk[q] \in ModelRequest /\ RowIsRead(desk[q])
    BY DEF ModelInv, RowsAreRead
  <2>2. CASE q = r
    BY <1>1, <2>2 DEF RowIsRead
  <2>3. CASE q # r /\ desk[q].at \in {"saving", "patching"}
    <3>1. /\ desk'[q].at = desk[q].at /\ desk'[q].id = desk[q].id /\ desk'[q].row = desk[q].row
          /\ desk'[q].late
      BY <1>1, <2>1, <2>3 DEF ModelRequest
    <3> QED
      BY <2>1, <2>3, <3>1 DEF RowIsRead
  <2>4. CASE q # r /\ desk[q].at \notin {"saving", "patching"}
    BY <1>1, <2>1, <2>4 DEF RowIsRead
  <2> QED
    BY <2>2, <2>3, <2>4
<1>5. RowsAreRead'
  BY <1>4 DEF RowsAreRead
<1> QED
  BY <1>3, <1>5 DEF ModelInv

LEMMA LookupInv ==
  ASSUME ModelInv, NEW r \in Requests,
         \/ Model!SyncProviderModels(r) \/ Model!DeleteProvider(r)
         \/ \E i \in Ids : Model!UpdateModel(r, i)
         \/ \E address \in Addresses : Model!UpdateProvider(r, address)
  PROVE  ModelInv'
<1>1. UNCHANGED <<provider, cache, models>>
  BY DEF Model!SyncProviderModels, Model!DeleteProvider, Model!UpdateModel, Model!UpdateProvider
<1>2. StoresTyped' /\ StoresTyped
  BY <1>1 DEF ModelInv, StoresTyped
<1>3. CASE Model!SyncProviderModels(r)
  <2> DEFINE step == IF cache = Nothing
                     THEN [Model!Idle EXCEPT !.at = "fetching", !.address = provider.address]
                     ELSE [Model!Idle EXCEPT !.at = "syncing", !.todo = cache.ids]
  <2>1. step \in ModelRequest /\ RowIsRead(step)
    BY <1>2 DEF StoresTyped, Model!Providers, Model!Idle, Model!Lists, ModelRequest, RowIsRead
  <2>2. Model!Does(r, step)
    BY <1>3 DEF Model!SyncProviderModels
  <2> HIDE DEF step
  <2> QED
    BY <1>1, <1>2, <2>1, <2>2, DoesInv
<1>4. CASE Model!DeleteProvider(r)
  <2> DEFINE step == [Model!Idle EXCEPT !.at = "deleting"]
  <2>1. step \in ModelRequest /\ RowIsRead(step)
    BY DEF Model!Idle, ModelRequest, RowIsRead
  <2>2. Model!Does(r, step)
    BY <1>4 DEF Model!DeleteProvider
  <2> HIDE DEF step
  <2> QED
    BY <1>1, <1>2, <2>1, <2>2, DoesInv
<1>5. ASSUME NEW i \in Ids, Model!UpdateModel(r, i) PROVE ModelInv'
  <2> DEFINE step == [Model!Idle EXCEPT !.at = "patching", !.id = i, !.row = models[i]]
  <2>1. models[i] \in Model!Rows /\ models[i] # Nothing
    BY <1>2, <1>5 DEF StoresTyped, Model!UpdateModel
  <2>2. step \in ModelRequest /\ RowIsRead(step)
    BY <2>1 DEF Model!Idle, ModelRequest, RowIsRead
  <2>3. Model!Does(r, step)
    BY <1>5 DEF Model!UpdateModel
  <2> HIDE DEF step
  <2> QED
    BY <1>1, <1>2, <2>2, <2>3, DoesInv
<1>6. ASSUME NEW address \in Addresses, Model!UpdateProvider(r, address) PROVE ModelInv'
  <2> DEFINE step == [Model!Idle EXCEPT !.at = "updating", !.address = address]
  <2>1. step \in ModelRequest /\ RowIsRead(step)
    BY DEF Model!Idle, ModelRequest, RowIsRead
  <2>2. Model!Does(r, step)
    BY <1>6 DEF Model!UpdateProvider
  <2> HIDE DEF step
  <2> QED
    BY <1>1, <1>2, <2>1, <2>2, DoesInv
<1> QED
  BY <1>3, <1>4, <1>5, <1>6

LEMMA ProviderInv ==
  ASSUME ModelInv, NEW r \in Requests, Model!SaveProvider(r) \/ Model!DropProvider(r)
  PROVE  ModelInv'
<1>1. UNCHANGED <<cache, models>> /\ Model!Does(r, Model!Idle)
  BY DEF Model!SaveProvider, Model!DropProvider
<1>2. provider' \in Model!Providers
  <2>1. provider \in Model!Providers
    BY DEF ModelInv, StoresTyped
  <2>2. CASE Model!SaveProvider(r)
    <3>1. desk[r].address \in Addresses
      BY <2>2 DEF Model!SaveProvider, Model!Doing, ModelInv, RowsAreRead, RowIsRead
    <3> QED
      BY <2>2, <3>1 DEF Model!SaveProvider, Model!Providers
  <2>3. CASE Model!DropProvider(r)
    BY <2>1, <2>3 DEF Model!DropProvider, Model!Providers
  <2> QED
    BY <2>2, <2>3
<1>3. StoresTyped' /\ RowIsRead(Model!Idle)
  BY <1>1, <1>2, ModelIdle DEF ModelInv, StoresTyped, RowIsRead
<1> QED
  BY <1>1, <1>3, ModelIdle, DoesInv

LEMMA FetchInv ==
  ASSUME ModelInv, NEW r \in Requests, Model!FetchModels(r)
  PROVE  ModelInv'
<1>1. UNCHANGED <<provider, models>> /\ desk[r].address \in Addresses
  BY DEF Model!FetchModels, Model!Doing, ModelInv, RowsAreRead, RowIsRead
<1>2. CASE \E ids \in (SUBSET Ids) \ {{}} :
             /\ cache' = [from |-> desk[r].address, ids |-> ids]
             /\ \E step \in {[Model!Idle EXCEPT !.at = "syncing", !.todo = ids], Model!Idle} :
                  Model!Does(r, step)
  <2>1. PICK ids \in (SUBSET Ids) \ {{}} :
             /\ cache' = [from |-> desk[r].address, ids |-> ids]
             /\ \E step \in {[Model!Idle EXCEPT !.at = "syncing", !.todo = ids], Model!Idle} :
                  Model!Does(r, step)
    BY <1>2
  <2>2. StoresTyped'
    BY <1>1, <2>1 DEF ModelInv, StoresTyped, Model!Lists
  <2>3. PICK step \in {[Model!Idle EXCEPT !.at = "syncing", !.todo = ids], Model!Idle} :
               Model!Does(r, step)
    BY <2>1
  <2>4. /\ [Model!Idle EXCEPT !.at = "syncing", !.todo = ids] \in ModelRequest
        /\ [Model!Idle EXCEPT !.at = "syncing", !.todo = ids].at = "syncing"
    BY DEF Model!Idle, ModelRequest
  <2>5. step \in ModelRequest /\ RowIsRead(step)
    BY <2>3, <2>4, ModelIdle DEF RowIsRead
  <2> QED
    BY <1>1, <2>2, <2>3, <2>5, DoesInv
<1>3. CASE Model!Does(r, Model!Idle) /\ UNCHANGED cache
  <2>1. StoresTyped' /\ RowIsRead(Model!Idle)
    BY <1>1, <1>3, ModelIdle DEF ModelInv, StoresTyped, RowIsRead
  <2> QED
    BY <1>1, <1>3, <2>1, ModelIdle, DoesInv
<1> QED
  BY <1>2, <1>3 DEF Model!FetchModels

LEMMA UpsertInv ==
  ASSUME ModelInv, NEW r \in Requests, NEW i \in Ids, Model!UpsertModel(r, i)
  PROVE  ModelInv'
<1> DEFINE q == desk[r]
           step == [q EXCEPT !.at = IF models[i] = Nothing THEN "creating" ELSE "saving",
                             !.id = i, !.row = models[i], !.todo = @ \ {i}, !.late = FALSE]
<1>1. /\ UNCHANGED <<provider, cache, models>> /\ Model!Does(r, step)
  BY DEF Model!UpsertModel
<1>2. q \in ModelRequest /\ models[i] \in Model!Rows \cup {Nothing}
  BY DEF ModelInv, StoresTyped
<1>3. step \in ModelRequest
  BY <1>2 DEF ModelRequest
<1>4. /\ step.at \in {"creating", "saving"} /\ (step.at = "saving" => models[i] # Nothing)
      /\ step.id = i /\ step.row = models[i]
  BY <1>2 DEF ModelRequest
<1>5. RowIsRead(step)
  BY <1>2, <1>4 DEF RowIsRead
<1>6. StoresTyped'
  BY <1>1 DEF ModelInv, StoresTyped
<1> HIDE DEF step
<1> QED
  BY <1>1, <1>3, <1>5, <1>6, DoesInv

LEMMA NextModelTyped ==
  ASSUME ModelInv, NEW r \in Requests
  PROVE  Model!NextModel(r) \in ModelRequest /\ Model!NextModel(r).at \in {"idle", "syncing"}
BY ModelIdle DEF Model!NextModel, ModelInv, ModelRequest

LEMMA CreateSaveInv ==
  ASSUME ModelInv, NEW r \in Requests, Model!CreateModel(r) \/ Model!SaveModel(r)
  PROVE  ModelInv'
<1>1. UNCHANGED <<provider, cache>>
  BY DEF Model!CreateModel, Model!SaveModel
<1>2. [enabled |-> FALSE, default |-> FALSE] \in Model!Rows /\ desk[r].row \in Model!Rows \cup {Nothing}
  BY DEF Model!Rows, ModelInv, ModelRequest
<1>3. models' \in [Ids -> Model!Rows \cup {Nothing}]
  BY <1>2 DEF Model!CreateModel, Model!SaveModel, ModelInv, StoresTyped
<1>4. StoresTyped'
  BY <1>1, <1>3 DEF ModelInv, StoresTyped
<1>5. CASE Model!Writes(r, Model!NextModel(r))
  BY <1>4, <1>5, NextModelTyped, WritesInv
<1>6. CASE Model!Does(r, Model!Idle) /\ models' = models
  <2>1. RowIsRead(Model!Idle)
    BY ModelIdle DEF RowIsRead
  <2> QED
    BY <1>4, <1>6, <2>1, ModelIdle, DoesInv
<1> QED
  BY <1>5, <1>6 DEF Model!CreateModel, Model!SaveModel

LEMMA PatchInv ==
  ASSUME ModelInv, NEW r \in Requests, NEW enabled \in BOOLEAN,
         NEW choice \in {"keep", "set", "unset"}, Model!PatchModel(r, enabled, choice)
  PROVE  ModelInv'
<1> DEFINE default == IF choice = "keep" THEN desk[r].row.default ELSE choice = "set"
<1>1. /\ UNCHANGED <<provider, cache>> /\ Model!Writes(r, Model!Idle)
      /\ desk[r].row \in Model!Rows
      /\ models' = [i \in Ids |->
                     IF i = desk[r].id THEN [enabled |-> enabled, default |-> default]
                     ELSE IF choice = "set" /\ models[i] # Nothing
                            THEN [models[i] EXCEPT !.default = FALSE] ELSE models[i]]
  BY DEF Model!PatchModel, Model!Doing, ModelInv, RowsAreRead, RowIsRead
<1>2. default \in BOOLEAN
  BY <1>1 DEF Model!Rows
<1>3. [enabled |-> enabled, default |-> default] \in Model!Rows
  BY <1>2 DEF Model!Rows
<1>4. \A i \in Ids : models[i] # Nothing => [models[i] EXCEPT !.default = FALSE] \in Model!Rows
  BY DEF ModelInv, StoresTyped, Model!Rows
<1> HIDE DEF default
<1>5. models' \in [Ids -> Model!Rows \cup {Nothing}]
  BY <1>1, <1>3, <1>4 DEF ModelInv, StoresTyped
<1>6. StoresTyped'
  BY <1>1, <1>5 DEF ModelInv, StoresTyped
<1> QED
  BY <1>1, <1>6, ModelIdle, WritesInv

LEMMA ModelNext == ModelInv /\ [Model!Next]_(Model!vars) => ModelInv'
<1> SUFFICES ASSUME ModelInv, [Model!Next]_(Model!vars) PROVE ModelInv'
  OBVIOUS
<1>1. CASE Model!CacheExpires \/ UNCHANGED Model!vars
  BY <1>1 DEF Model!CacheExpires, Model!vars, ModelInv, StoresTyped, RowsAreRead, RowIsRead
<1>2. ASSUME NEW address \in Addresses, Model!CreateProvider(address) PROVE ModelInv'
  <2>1. provider' \in Model!Providers /\ UNCHANGED <<cache, models, desk, requests>>
    BY <1>2 DEF Model!CreateProvider, Model!Providers
  <2> QED
    BY <2>1 DEF ModelInv, StoresTyped, RowsAreRead, RowIsRead
<1> QED
  BY <1>1, <1>2, LookupInv, ProviderInv, FetchInv, UpsertInv, CreateSaveInv, PatchInv DEF Model!Next

(* A request that stores what it read, unless it is late, changes nothing. *)
LEMMA SaveChoices ==
  ASSUME ModelInv, NEW r \in Requests, Model!SaveModel(r)
  PROVE  models' = models \/ desk[r].late
BY DEF Model!SaveModel, Model!Doing, ModelInv, StoresTyped, RowsAreRead, RowIsRead

(* Of the requests only the one that writes leaves the state it was in. *)
LEMMA OnlyWriterMoves ==
  ASSUME ModelInv, [Model!Next]_(Model!vars), NEW r \in Requests,
         desk[r].at \in {"saving", "patching"}, desk'[r].at # desk[r].at, models' # models
  PROVE  \/ Model!SaveModel(r)
         \/ \E enabled \in BOOLEAN, choice \in {"keep", "set", "unset"} :
              Model!PatchModel(r, enabled, choice)
<1>1. ASSUME NEW q \in Requests, NEW step, Model!Writes(q, step) PROVE q = r
  <2>1. desk[r] \in ModelRequest
    BY DEF ModelInv
  <2>2. [desk[r] EXCEPT !.late = TRUE].at = desk[r].at
    BY <2>1 DEF ModelRequest
  <2> QED
    BY <1>1, <2>2 DEF Model!Writes
<1>2. ~ UNCHANGED Model!vars
  BY DEF Model!vars
<1>3. PICK q \in Requests :
        \/ Model!CreateModel(q) \/ Model!SaveModel(q)
        \/ \E enabled \in BOOLEAN, choice \in {"keep", "set", "unset"} :
             Model!PatchModel(q, enabled, choice)
  BY <1>2 DEF Model!Next, Model!CacheExpires, Model!CreateProvider, Model!SyncProviderModels, Model!FetchModels,
              Model!UpsertModel, Model!UpdateModel, Model!UpdateProvider, Model!SaveProvider,
              Model!DeleteProvider, Model!DropProvider
<1>4. \E step : Model!Writes(q, step)
  BY <1>3 DEF Model!CreateModel, Model!SaveModel, Model!PatchModel
<1>5. q = r
  BY <1>1, <1>4
<1> QED
  BY <1>3, <1>5 DEF Model!CreateModel, Model!Doing

(* Only a choice of the default, and a late request, adds to the defaults. *)
LEMMA DefaultsStay ==
  ASSUME ModelInv, NEW r \in Requests, Model!CreateModel(r)
  PROVE  Model!Defaults' = Model!Defaults
<1>1. models \in [Ids -> Model!Rows \cup {Nothing}]
  BY DEF ModelInv, StoresTyped
<1>2. CASE models' = models
  BY <1>2 DEF Model!Defaults
<1>3. CASE /\ models[desk[r].id] = Nothing
           /\ models' = [models EXCEPT ![desk[r].id] = [enabled |-> FALSE, default |-> FALSE]]
  <2> SUFFICES ASSUME NEW i \in Ids
               PROVE  (models'[i] # Nothing /\ models'[i].default) <=> (models[i] # Nothing /\ models[i].default)
    BY DEF Model!Defaults
  <2>1. CASE i = desk[r].id
    BY <1>1, <1>3, <2>1
  <2>2. CASE i # desk[r].id
    BY <1>1, <1>3, <2>2
  <2> QED
    BY <2>1, <2>2
<1> QED
  BY <1>2, <1>3 DEF Model!CreateModel

(* Choosing a default takes it from the others; keeping it or giving it up *)
(* adds none, if the row was not written since it was read.                *)
LEMMA PatchDefaults ==
  ASSUME ModelInv, NEW r \in Requests, NEW enabled \in BOOLEAN,
         NEW choice \in {"keep", "set", "unset"}, Model!PatchModel(r, enabled, choice)
  PROVE  \/ Model!Defaults' \subseteq {desk[r].id}
         \/ Model!Defaults' \subseteq Model!Defaults
         \/ desk[r].late
<1> DEFINE default == IF choice = "keep" THEN desk[r].row.default ELSE choice = "set"
<1>1. /\ models \in [Ids -> Model!Rows \cup {Nothing}] /\ desk[r].id \in Ids
      /\ ~desk[r].late => desk[r].row = models[desk[r].id] /\ desk[r].row # Nothing
      /\ models' = [i \in Ids |->
                     IF i = desk[r].id THEN [enabled |-> enabled, default |-> default]
                     ELSE IF choice = "set" /\ models[i] # Nothing
                            THEN [models[i] EXCEPT !.default = FALSE] ELSE models[i]]
  BY DEF Model!PatchModel, Model!Doing, ModelInv, StoresTyped, RowsAreRead, RowIsRead
<1>2. CASE choice = "set"
  <2>1. ASSUME NEW i \in Ids, i # desk[r].id, models'[i] # Nothing PROVE ~models'[i].default
    <3>1. models'[i] = IF models[i] # Nothing THEN [models[i] EXCEPT !.default = FALSE] ELSE models[i]
      BY <1>1, <1>2, <2>1
    <3>2. models[i] \in Model!Rows
      BY <1>1, <2>1, <3>1
    <3> QED
      BY <2>1, <3>1, <3>2 DEF Model!Rows
  <2> QED
    BY <2>1 DEF Model!Defaults
<1>3. CASE choice # "set" /\ ~desk[r].late
  <2>1. ASSUME NEW i \in Ids, models'[i] # Nothing, models'[i].default
        PROVE  models[i] # Nothing /\ models[i].default
    <3>1. CASE i = desk[r].id
      BY <1>1, <1>3, <2>1, <3>1
    <3>2. CASE i # desk[r].id
      BY <1>1, <1>3, <2>1, <3>2
    <3> QED
      BY <3>1, <3>2
  <2> QED
    BY <2>1 DEF Model!Defaults
<1> QED
  BY <1>2, <1>3

LEMMA ChoicesStepped ==
  ASSUME IsFiniteSet(Ids), ModelInv, [Model!Next]_(Model!vars)
  PROVE  Model!ChoicesStep
<1>1. ASSUME NEW r \in Requests, Model!Writing(r, "saving") PROVE desk[r].late
  BY <1>1, OnlyWriterMoves, SaveChoices DEF Model!Writing, Model!Doing, Model!PatchModel
<1>2. ASSUME Cardinality(Model!Defaults) <= 1, Cardinality(Model!Defaults') > 1
      PROVE  \E r \in Requests : /\ desk[r].late
                                 /\ Model!Writing(r, "saving") \/ Model!Writing(r, "patching")
  <2>1. models' # models /\ Model!Defaults' # Model!Defaults
    <3> SUFFICES Model!Defaults' # Model!Defaults
      BY DEF Model!Defaults
    <3> SUFFICES ASSUME Model!Defaults' = Model!Defaults PROVE FALSE
      OBVIOUS
    <3>1. IsFiniteSet(Model!Defaults)
      BY FS_Subset DEF Model!Defaults
    <3>2. Cardinality(Model!Defaults) \in Nat
      BY <3>1, FS_CardinalityType
    <3> QED
      BY <1>2, <3>2
  <2>2. ~(Model!Defaults' \subseteq Model!Defaults)
    <3> SUFFICES ASSUME Model!Defaults' \subseteq Model!Defaults PROVE FALSE
      OBVIOUS
    <3>1. IsFiniteSet(Model!Defaults)
      BY FS_Subset DEF Model!Defaults
    <3>2. Cardinality(Model!Defaults') <= Cardinality(Model!Defaults)
      BY <3>1, FS_Subset
    <3>3. Cardinality(Model!Defaults) \in Nat /\ Cardinality(Model!Defaults') \in Nat
      BY <3>1, FS_Subset, FS_CardinalityType
    <3> QED
      BY <1>2, <3>2, <3>3
  <2>3. ASSUME NEW i, Model!Defaults' \subseteq {i} PROVE FALSE
    <3>1. IsFiniteSet({i}) /\ Cardinality({i}) = 1
      BY FS_Singleton
    <3>2. IsFiniteSet(Model!Defaults') /\ Cardinality(Model!Defaults') <= 1
      BY <2>3, <3>1, FS_Subset
    <3>3. Cardinality(Model!Defaults') \in Nat
      BY <3>2, FS_CardinalityType
    <3> QED
      BY <1>2, <3>2, <3>3
  <2>4. PICK r \in Requests :
          \/ Model!CreateModel(r) \/ Model!SaveModel(r)
          \/ \E enabled \in BOOLEAN, choice \in {"keep", "set", "unset"} :
               Model!PatchModel(r, enabled, choice)
    BY <2>1 DEF Model!Next, Model!CacheExpires, Model!CreateProvider, Model!SyncProviderModels, Model!FetchModels,
                Model!UpsertModel, Model!UpdateModel, Model!UpdateProvider, Model!SaveProvider,
                Model!DeleteProvider, Model!DropProvider, Model!vars
  <2>5. CASE Model!CreateModel(r)
    BY <2>1, <2>5, DefaultsStay
  <2>6. CASE Model!SaveModel(r)
    <3>1. desk[r].late
      BY <2>1, <2>6, SaveChoices
    <3>2. desk[r].at = "saving" /\ desk'[r].at \in {"idle", "syncing"}
      BY <2>6, NextModelTyped DEF Model!SaveModel, Model!Writes, Model!Doing
    <3> QED
      BY <2>1, <3>1, <3>2 DEF Model!Writing, Model!Doing
  <2>7. CASE \E enabled \in BOOLEAN, choice \in {"keep", "set", "unset"} :
               Model!PatchModel(r, enabled, choice)
    <3>1. desk[r].late
      BY <2>2, <2>3, <2>7, PatchDefaults
    <3>2. desk[r].at = "patching" /\ desk'[r].at = "idle"
      BY <2>7, ModelIdle DEF Model!PatchModel, Model!Writes, Model!Doing
    <3> QED
      BY <2>1, <3>1, <3>2 DEF Model!Writing, Model!Doing
  <2> QED
    BY <2>4, <2>5, <2>6, <2>7
<1> QED
  BY <1>1, <1>2, CardSame DEF Model!ChoicesStep

LEMMA ModelsHold == Spec => [](part = "models" => ModelInv)
<1>1. Init => (part = "models" => ModelInv)
  BY ModelInit DEF Init
<1>2. (part = "models" => ModelInv) /\ [Next]_vars => (part = "models" => ModelInv)'
  BY ModelSteps, ModelNext, PartStays
<1> QED
  BY <1>1, <1>2, PTL DEF Spec

(* However syncs and choices of the user overlap: only a request that      *)
(* stores a row another one has written since it was read overwrites a     *)
(* choice or makes a second default (repo/model.go, api/model.go).         *)
THEOREM ChoicesSurvive == ASSUME IsFiniteSet(Ids) PROVE Spec => ChoicesKept
<1>1. (part = "models" => ModelInv) /\ [Next]_vars => [part = "models" => Model!ChoicesStep]_vars
  BY ModelSteps, ChoicesStepped
<1> QED
  BY ModelsHold, <1>1, PTL DEF Spec, ChoicesKept
-----------------------------------------------------------------------------
(* Migrations *)

LEMMA SchemaSteps == [Next]_vars /\ part = "migrations" => [Schema!Next]_(Schema!vars)
BY DEF Next, vars, ApprovalAlone, WorktreeAlone, EvalAlone, PromptAlone, KBaseAlone, SkillAlone,
       AccountAlone, SchemaAlone, ModelAlone, migrationsVars, Schema!vars, Schema!table, Schema!secrets

SomeRows == UNION {[S -> [plain : Schema!Values, sealed : BOOLEAN]] : S \in SUBSET Servers}

Starts ==
  [at : {"down", "migrating", "sealing", "dropping", "indexing", "creating", "recording",
         "seeding", "serving"},
   todo : SUBSET Schema!Versions, rows : SomeRows, key : BOOLEAN]

Working == {"sealing", "dropping", "indexing", "creating", "recording"}

TablesTyped ==
  /\ applied \subseteq Schema!Versions /\ granted \subseteq Permissions
  /\ keyIndex \in BOOLEAN /\ nameIndex \in {"none", "name", "pair"}
  /\ column \in BOOLEAN /\ plain \in [Servers -> Schema!Values] /\ sealed \in [Servers -> BOOLEAN]

(* What is recorded is done, and a secret is in the column or sealed. *)
DataKept ==
  /\ ~column => Schema!Plaintext = {}
  /\ \A w \in Servers : legacy[w] = "json" => sealed[w] \/ (column /\ plain[w] = "json")
  /\ Schema!KeyIndex \in applied => ~keyIndex
  /\ Schema!Encrypt \in applied => Schema!Plaintext = {}
  /\ Schema!DropPlain \in applied => ~column

(* A process has what it does not still have to do behind it, and where it *)
(* is in a migration tells what that one has done.                         *)
StartSound(b) ==
  /\ b.at # "down" => Schema!Versions \ b.todo \subseteq applied
  /\ b.at \in Working => b.todo # {}
  /\ b.at = "sealing" =>
       /\ Schema!Min(b.todo) = Schema!Encrypt
       /\ Schema!Plaintext \subseteq DOMAIN b.rows
       /\ \A w \in DOMAIN b.rows : legacy[w] = "json" => b.rows[w].sealed \/ b.rows[w].plain = "json"
  /\ b.at = "dropping" => Schema!Min(b.todo) = Schema!DropPlain /\ Schema!Plaintext = {}
  /\ b.at \in {"indexing", "creating"} => Schema!Min(b.todo) = Schema!NameIndex
  /\ b.at = "recording" =>
       /\ Schema!Min(b.todo) = Schema!KeyIndex => ~keyIndex
       /\ Schema!Min(b.todo) = Schema!Encrypt => Schema!Plaintext = {}
       /\ Schema!Min(b.todo) = Schema!DropPlain => ~column
  /\ b.at \in {"seeding", "serving"} => b.todo = {}
  /\ b.at = "serving" => granted = Permissions

SchemaInv ==
  /\ TablesTyped /\ DataKept
  /\ boot \in [Starters -> Starts]
  /\ \A n \in Starters : StartSound(boot[n])

LEMMA SchemaSound == SchemaInv => Schema!TypeOK /\ Schema!SecretsKept
<1> SUFFICES ASSUME SchemaInv PROVE Schema!TypeOK /\ Schema!SecretsKept
  OBVIOUS
<1>1. ASSUME NEW n \in Starters PROVE boot[n] \in Starts /\ DOMAIN boot[n].rows \subseteq Servers
  BY DEF SchemaInv, Starts, SomeRows
<1>2. Schema!TypeOK
  BY <1>1 DEF SchemaInv, TablesTyped, Schema!TypeOK, Starts
<1>3. ASSUME NEW n \in Starters, boot[n].at = "serving" PROVE applied = Schema!Versions /\ granted = Permissions
  BY <1>3 DEF SchemaInv, TablesTyped, StartSound
<1>4. Schema!SecretsKept
  BY <1>3 DEF SchemaInv, DataKept, Schema!SecretsKept
<1> QED
  BY <1>2, <1>4

LEMMA DownSound == Schema!Down \in Starts /\ Schema!Down.at = "down"
<1>1. <<>> \in [{} -> [plain : Schema!Values, sealed : BOOLEAN]]
  OBVIOUS
<1>2. <<>> \in SomeRows
  BY <1>1 DEF SomeRows
<1> QED
  BY <1>2 DEF Schema!Down, Starts

LEMMA SchemaInit == Schema!Init => SchemaInv
<1> SUFFICES ASSUME Schema!Init PROVE SchemaInv
  OBVIOUS
<1>1. TablesTyped /\ DataKept
  BY DEF Schema!Init, TablesTyped, DataKept, Schema!Values, Schema!Plaintext, Schema!Versions,
         Schema!Baseline, Schema!KeyIndex, Schema!Encrypt, Schema!DropPlain, Schema!Tables, Schema!NameIndex
<1>2. boot \in [Starters -> Starts] /\ \A n \in Starters : StartSound(boot[n])
  BY DownSound DEF Schema!Init, StartSound, Working
<1> QED
  BY <1>1, <1>2 DEF SchemaInv

(* The first of the versions that are left is one of them. *)
LEMMA FirstIsLeft ==
  ASSUME NEW todo \in SUBSET Schema!Versions, todo # {}
  PROVE  Schema!Min(todo) \in todo
<1>1. todo \subseteq 1 .. 6
  BY DEF Schema!Versions, Schema!Baseline, Schema!NameIndex
<1>2. \E v \in todo : \A w \in todo : v =< w
  <2> SUFFICES ASSUME \A v \in todo : \E w \in todo : ~(v =< w) PROVE FALSE
    OBVIOUS
  <2>1. 1 \notin todo
    BY <1>1
  <2>2. 2 \notin todo
    BY <1>1, <2>1
  <2>3. 3 \notin todo
    BY <1>1, <2>1, <2>2
  <2>4. 4 \notin todo
    BY <1>1, <2>1, <2>2, <2>3
  <2>5. 5 \notin todo
    BY <1>1, <2>1, <2>2, <2>3, <2>4
  <2>6. 6 \notin todo
    BY <1>1, <2>1, <2>2, <2>3, <2>4, <2>5
  <2>7. \A v \in 1 .. 6 : v = 1 \/ v = 2 \/ v = 3 \/ v = 4 \/ v = 5 \/ v = 6
    OBVIOUS
  <2>8. todo = {}
    BY <1>1, <2>1, <2>2, <2>3, <2>4, <2>5, <2>6, <2>7
  <2> QED
    BY <2>8
<1> QED
  BY <1>2 DEF Schema!Min

(* What no step takes back. *)
Grows ==
  /\ applied \subseteq applied' /\ Schema!Plaintext' \subseteq Schema!Plaintext
  /\ (keyIndex' => keyIndex) /\ (column' => column)
  /\ legacy' = legacy
  /\ granted = Permissions => granted' = Permissions

LEMMA ElsewhereSound ==
  ASSUME NEW m \in Starters, boot'[m] = boot[m], StartSound(boot[m]), Grows
  PROVE  StartSound(boot[m])'
BY DEF StartSound, Grows

LEMMA StartStep ==
  ASSUME SchemaInv, NEW n \in Starters, NEW b \in Starts, boot' = [boot EXCEPT ![n] = b],
         Grows, TablesTyped', DataKept', StartSound(boot[n])'
  PROVE  SchemaInv'
<1>1. boot' \in [Starters -> Starts]
  BY DEF SchemaInv
<1>2. ASSUME NEW m \in Starters PROVE StartSound(boot[m])'
  <2>1. CASE m = n
    BY <2>1
  <2>2. CASE m # n
    BY <2>2, ElsewhereSound DEF SchemaInv
  <2> QED
    BY <2>1, <2>2
<1> QED
  BY <1>1, <1>2 DEF SchemaInv

LEMMA StartFails ==
  ASSUME SchemaInv, NEW n \in Starters, Schema!Fails(n), Grows, TablesTyped', DataKept'
  PROVE  SchemaInv'
<1>1. boot' = [boot EXCEPT ![n] = Schema!Down] /\ boot'[n] = Schema!Down
  BY DEF Schema!Fails, SchemaInv
<1>2. StartSound(boot[n])'
  BY <1>1, DownSound DEF StartSound, Working
<1> QED
  BY <1>1, <1>2, DownSound, StartStep

LEMMA DataStays ==
  ASSUME SchemaInv, UNCHANGED <<Schema!table, Schema!secrets, keyIndex, nameIndex>>
  PROVE  Grows /\ TablesTyped' /\ DataKept'
BY DEF SchemaInv, Schema!table, Schema!secrets, Grows, TablesTyped, DataKept, Schema!Plaintext

(* The steps that only take a process from one place to the next, when the *)
(* tables stay: what is left to show is what holds at that place.          *)
LEMMA GoesOn ==
  ASSUME SchemaInv, NEW n \in Starters, NEW place, Schema!To(n, place),
         place \in {"sealing", "dropping", "indexing", "creating", "recording", "seeding", "serving"}
  PROVE  LET b == [boot[n] EXCEPT !.at = place]
         IN /\ b \in Starts /\ boot' = [boot EXCEPT ![n] = b] /\ boot'[n] = b
            /\ b.at = place /\ b.todo = boot[n].todo /\ b.rows = boot[n].rows
<1> DEFINE b == [boot[n] EXCEPT !.at = place]
<1>1. boot[n] \in Starts
  BY DEF SchemaInv
<1>2. b \in Starts /\ b.at = place /\ b.todo = boot[n].todo /\ b.rows = boot[n].rows
  BY <1>1 DEF Starts
<1>3. boot' = [boot EXCEPT ![n] = b] /\ boot'[n] = b
  BY DEF Schema!To, SchemaInv
<1> QED
  BY <1>2, <1>3

LEMMA StepsOn ==
  ASSUME SchemaInv, NEW n \in Starters, NEW place, Schema!To(n, place), boot[n].at # "down",
         place \in {"sealing", "dropping", "indexing", "creating", "recording", "seeding", "serving"},
         Grows, TablesTyped', DataKept',
         place \in Working => boot[n].todo # {},
         place \in {"seeding", "serving"} => boot[n].todo = {},
         place # "sealing",
         place = "dropping" => Schema!Min(boot[n].todo) = Schema!DropPlain /\ Schema!Plaintext' = {},
         place \in {"indexing", "creating"} => Schema!Min(boot[n].todo) = Schema!NameIndex,
         place = "recording" =>
           /\ Schema!Min(boot[n].todo) = Schema!KeyIndex => ~keyIndex'
           /\ Schema!Min(boot[n].todo) = Schema!Encrypt => Schema!Plaintext' = {}
           /\ Schema!Min(boot[n].todo) = Schema!DropPlain => ~column',
         place = "serving" => granted' = Permissions
  PROVE  SchemaInv'
<1> DEFINE b == [boot[n] EXCEPT !.at = place]
<1>1. /\ b \in Starts /\ boot' = [boot EXCEPT ![n] = b] /\ boot'[n] = b
      /\ b.at = place /\ b.todo = boot[n].todo
  BY GoesOn
<1>2. Schema!Versions \ boot[n].todo \subseteq applied'
  BY DEF SchemaInv, StartSound, Grows
<1> HIDE DEF b
<1>3. StartSound(boot[n])'
  BY <1>1, <1>2 DEF StartSound
<1> QED
  BY <1>1, <1>3, StartStep

LEMMA BeginInv ==
  ASSUME SchemaInv, NEW n \in Starters, NEW key \in BOOLEAN, Schema!appliedVersions(n, key)
  PROVE  SchemaInv'
<1> DEFINE b == [at |-> "migrating", todo |-> Schema!Versions \ applied, rows |-> <<>>, key |-> key]
<1>1. boot' = [boot EXCEPT ![n] = b] /\ boot'[n] = b
  BY DEF Schema!appliedVersions, SchemaInv
<1>2. b \in Starts
  BY DownSound DEF Starts, Schema!Down
<1>3. Grows /\ TablesTyped' /\ DataKept'
  BY DataStays DEF Schema!appliedVersions
<1>4. StartSound(boot[n])'
  BY <1>1, <1>3 DEF StartSound, Working, Grows
<1> HIDE DEF b
<1> QED
  BY <1>1, <1>2, <1>3, <1>4, StartStep

LEMMA PlainMigrationsInv ==
  ASSUME SchemaInv, NEW n \in Starters,
         \/ Schema!baselineSchema(n) \/ Schema!migrateCompositeSessionKey(n) \/ Schema!addTables(n)
         \/ Schema!migrateMCPCompositeNameUnique(n) \/ Schema!DropIndex(n) \/ Schema!CreateIndex(n)
         \/ Schema!RunMigrations(n)
  PROVE  SchemaInv'
<1>1. Grows /\ TablesTyped' /\ DataKept'
  <2>1. TablesTyped /\ DataKept
    BY DEF SchemaInv
  <2>2. /\ UNCHANGED <<applied, granted, column, plain, sealed, legacy>>
        /\ keyIndex' \in {keyIndex, FALSE} /\ nameIndex' \in {nameIndex, "none", "pair"}
    BY DEF Schema!baselineSchema, Schema!migrateCompositeSessionKey, Schema!addTables,
           Schema!migrateMCPCompositeNameUnique, Schema!DropIndex, Schema!CreateIndex,
           Schema!RunMigrations, Schema!table, Schema!secrets
  <2>3. Schema!Plaintext' = Schema!Plaintext
    BY <2>2 DEF Schema!Plaintext
  <2>4. TablesTyped'
    BY <2>1, <2>2 DEF TablesTyped
  <2>5. keyIndex' => keyIndex
    BY <2>1, <2>2 DEF TablesTyped
  <2>6. DataKept'
    BY <2>1, <2>2, <2>3, <2>5 DEF DataKept
  <2> QED
    BY <2>2, <2>3, <2>4, <2>5, <2>6 DEF Grows
<1>2. boot[n] \in Starts /\ StartSound(boot[n])
  BY DEF SchemaInv
<1>3. CASE Schema!baselineSchema(n) \/ Schema!addTables(n) \/ Schema!migrateCompositeSessionKey(n)
  <2>1. /\ Schema!To(n, "recording") /\ boot[n].at = "migrating" /\ boot[n].todo # {}
        /\ Schema!Min(boot[n].todo) = Schema!KeyIndex => ~keyIndex'
        /\ Schema!Min(boot[n].todo) # Schema!Encrypt /\ Schema!Min(boot[n].todo) # Schema!DropPlain
    BY <1>3 DEF Schema!baselineSchema, Schema!addTables, Schema!migrateCompositeSessionKey,
                Schema!Up, Schema!Baseline, Schema!KeyIndex, Schema!Encrypt, Schema!DropPlain, Schema!Tables
  <2> QED
    BY <1>1, <2>1, StepsOn
<1>4. CASE Schema!migrateMCPCompositeNameUnique(n) \/ Schema!DropIndex(n) \/ Schema!CreateIndex(n)
  <2>1. /\ boot[n].at # "down" /\ boot[n].todo # {}
        /\ Schema!Min(boot[n].todo) = Schema!NameIndex
        /\ \E place \in {"indexing", "creating", "recording"} : Schema!To(n, place)
    BY <1>2, <1>4 DEF Schema!migrateMCPCompositeNameUnique, Schema!DropIndex, Schema!CreateIndex,
                      Schema!Up, StartSound, Working
  <2>2. /\ Schema!NameIndex # Schema!KeyIndex /\ Schema!NameIndex # Schema!Encrypt
        /\ Schema!NameIndex # Schema!DropPlain
    BY DEF Schema!NameIndex, Schema!KeyIndex, Schema!Encrypt, Schema!DropPlain
  <2> QED
    BY <1>1, <2>1, <2>2, StepsOn
<1>5. CASE Schema!RunMigrations(n)
  <2>1. Schema!To(n, "seeding") /\ boot[n].at = "migrating" /\ boot[n].todo = {}
    BY <1>5 DEF Schema!RunMigrations
  <2> QED
    BY <1>1, <2>1, StepsOn DEF Working
<1> QED
  BY <1>3, <1>4, <1>5

LEMMA EncryptInv ==
  ASSUME SchemaInv, NEW n \in Starters, Schema!migrateMCPSecretEncryption(n)
  PROVE  SchemaInv'
<1>1. Grows /\ TablesTyped' /\ DataKept'
  BY DataStays DEF Schema!migrateMCPSecretEncryption
<1>2. boot[n] \in Starts /\ StartSound(boot[n]) /\ UNCHANGED <<column, plain, sealed, legacy, applied>>
  BY DEF SchemaInv, Schema!migrateMCPSecretEncryption, Schema!secrets, Schema!table
<1>3. boot[n].at = "migrating" /\ boot[n].todo # {} /\ Schema!Min(boot[n].todo) = Schema!Encrypt
  BY DEF Schema!migrateMCPSecretEncryption, Schema!Up
<1>4. Schema!Plaintext' = Schema!Plaintext
  BY <1>2 DEF Schema!Plaintext
<1>5. CASE boot' = [boot EXCEPT ![n].at = "recording"] /\ (~column \/ Schema!Plaintext = {})
  <2>1. Schema!Plaintext' = {} /\ Schema!To(n, "recording")
    BY <1>4, <1>5 DEF SchemaInv, DataKept, Schema!To
  <2>2. Schema!Encrypt # Schema!KeyIndex /\ Schema!Encrypt # Schema!DropPlain
    BY DEF Schema!KeyIndex, Schema!Encrypt, Schema!DropPlain
  <2> QED
    BY <1>1, <1>3, <2>1, <2>2, StepsOn
<1>6. CASE boot' = [boot EXCEPT ![n] = Schema!Down]
  BY <1>1, <1>6, StartFails DEF Schema!Fails
<1>7. CASE /\ column
           /\ boot' = [boot EXCEPT ![n].at = "sealing",
                                   ![n].rows = [w \in Schema!Plaintext |-> [plain |-> plain[w], sealed |-> sealed[w]]]]
  <2> DEFINE read == [w \in Schema!Plaintext |-> [plain |-> plain[w], sealed |-> sealed[w]]]
             b == [boot[n] EXCEPT !.at = "sealing", !.rows = read]
  <2>1. read \in SomeRows
    <3>1. Schema!Plaintext \in SUBSET Servers
      BY DEF Schema!Plaintext
    <3>2. read \in [Schema!Plaintext -> [plain : Schema!Values, sealed : BOOLEAN]]
      BY <3>1 DEF SchemaInv, TablesTyped
    <3> QED
      BY <3>1, <3>2 DEF SomeRows
  <2>2. DOMAIN read = Schema!Plaintext
    OBVIOUS
  <2>3. \A w \in DOMAIN read : legacy[w] = "json" => read[w].sealed \/ read[w].plain = "json"
    BY DEF SchemaInv, DataKept, Schema!Plaintext
  <2>4. boot' = [boot EXCEPT ![n] = b] /\ boot'[n] = b
    BY <1>7 DEF SchemaInv
  <2> HIDE DEF read
  <2>5. b \in Starts /\ b.at = "sealing" /\ b.todo = boot[n].todo /\ b.rows = read
    BY <1>2, <2>1 DEF Starts
  <2> HIDE DEF b
  <2>6. StartSound(boot[n])'
    BY <1>2, <1>3, <1>4, <2>2, <2>3, <2>4, <2>5 DEF StartSound, Working
  <2> QED
    BY <1>1, <2>4, <2>5, <2>6, StartStep
<1> QED
  BY <1>5, <1>6, <1>7 DEF Schema!migrateMCPSecretEncryption

LEMMA SealInv ==
  ASSUME SchemaInv, NEW n \in Starters, NEW w \in Servers, Schema!SealSecrets(n, w)
  PROVE  SchemaInv'
<1> DEFINE kept == boot[n].rows[w]
           rest == DOMAIN boot[n].rows \ {w}
<1>1. boot[n] \in Starts /\ StartSound(boot[n]) /\ TablesTyped /\ DataKept
  BY DEF SchemaInv
<1>2. /\ boot[n].at = "sealing" /\ w \in DOMAIN boot[n].rows
      /\ Schema!Min(boot[n].todo) = Schema!Encrypt /\ boot[n].todo # {}
      /\ UNCHANGED <<applied, granted, keyIndex, nameIndex, column, legacy>>
  BY <1>1 DEF Schema!SealSecrets, Schema!table, StartSound, Working
<1>3. PICK S \in SUBSET Servers : boot[n].rows \in [S -> [plain : Schema!Values, sealed : BOOLEAN]]
  BY <1>1 DEF Starts, SomeRows
<1>4. CASE ~column
  <2>1. Schema!Fails(n) /\ UNCHANGED <<sealed, plain>>
    BY <1>4 DEF Schema!SealSecrets
  <2>2. Grows /\ TablesTyped' /\ DataKept'
    BY <1>2, <2>1, DataStays DEF Schema!table, Schema!secrets
  <2> QED
    BY <2>1, <2>2, StartFails
<1>5. CASE column
  <2> DEFINE left == [x \in rest |-> boot[n].rows[x]]
             next == IF rest = {} THEN "recording" ELSE "sealing"
             b == [boot[n] EXCEPT !.rows = left, !.at = next]
  <2>1. /\ sealed' = [sealed EXCEPT ![w] = kept.sealed \/ kept.plain = "json"]
        /\ plain' = [plain EXCEPT ![w] = "none"]
    BY <1>5 DEF Schema!SealSecrets
  <2>2. boot' = [boot EXCEPT ![n] = b] /\ boot'[n] = b
    <3>1. boot' = [boot EXCEPT ![n].rows = [x \in rest |-> boot[n].rows[x]],
                               ![n].at = IF rest = {} THEN "recording" ELSE @]
      BY <1>5 DEF Schema!SealSecrets
    <3> QED
      BY <3>1, <1>2 DEF SchemaInv
  <2>3. /\ kept \in [plain : Schema!Values, sealed : BOOLEAN]
        /\ rest \in SUBSET Servers
        /\ [x \in rest |-> boot[n].rows[x]] \in [rest -> [plain : Schema!Values, sealed : BOOLEAN]]
    BY <1>2, <1>3
  <2>4. left \in SomeRows /\ next \in {"recording", "sealing"}
    BY <2>3 DEF SomeRows
  <2>5. TablesTyped'
    BY <1>1, <1>2, <2>1, <2>3 DEF TablesTyped, Schema!Values
  <2>6. Schema!Plaintext' = Schema!Plaintext \ {w}
    BY <1>1, <2>1 DEF Schema!Plaintext, TablesTyped
  <2>7. Grows
    BY <1>2, <2>6 DEF Grows
  <2>8. legacy[w] = "json" => kept.sealed \/ kept.plain = "json"
    BY <1>1, <1>2 DEF StartSound
  <2>9. DataKept'
    <3>1. ASSUME NEW x \in Servers, legacy[x] = "json"
          PROVE  sealed'[x] \/ (column /\ plain'[x] = "json")
      <4>1. CASE x = w
        BY <1>1, <2>1, <2>8, <3>1, <4>1 DEF TablesTyped
      <4>2. CASE x # w
        BY <1>1, <2>1, <3>1, <4>2 DEF TablesTyped, DataKept
      <4> QED
        BY <4>1, <4>2
    <3> QED
      BY <1>1, <1>2, <2>6, <3>1 DEF DataKept
  <2>10. b \in Starts /\ b.todo = boot[n].todo /\ b.rows = left /\ b.at = next
    <3> HIDE DEF left, next
    <3> QED
      BY <1>1, <2>4 DEF Starts
  <2>11. /\ Schema!Plaintext' \subseteq rest
         /\ \A x \in rest : legacy[x] = "json" => boot[n].rows[x].sealed \/ boot[n].rows[x].plain = "json"
    BY <1>1, <1>2, <2>6 DEF StartSound
  <2>12. Schema!Versions \ boot[n].todo \subseteq applied
    BY <1>1, <1>2 DEF StartSound
  <2> HIDE DEF b, kept, rest
  <2>13. StartSound(boot[n])'
    <3>1. CASE rest = {}
      <4>1. boot'[n].at = "recording" /\ boot'[n].todo = boot[n].todo /\ Schema!Plaintext' = {}
        BY <2>2, <2>10, <2>11, <3>1
      <4>2. Schema!Encrypt # Schema!KeyIndex /\ Schema!Encrypt # Schema!DropPlain
        BY DEF Schema!KeyIndex, Schema!Encrypt, Schema!DropPlain
      <4> QED
        BY <1>2, <2>12, <4>1, <4>2 DEF StartSound
    <3>2. CASE rest # {}
      <4>1. /\ boot'[n].at = "sealing" /\ boot'[n].todo = boot[n].todo
            /\ boot'[n].rows = [x \in rest |-> boot[n].rows[x]]
        BY <2>2, <2>10, <3>2
      <4>2. /\ DOMAIN boot'[n].rows = rest
            /\ \A x \in rest : boot'[n].rows[x] = boot[n].rows[x]
        BY <4>1
      <4> QED
        BY <1>2, <2>11, <2>12, <4>1, <4>2 DEF StartSound, Working
    <3> QED
      BY <3>1, <3>2
  <2> QED
    BY <2>2, <2>5, <2>7, <2>9, <2>10, <2>13, StartStep
<1> QED
  BY <1>4, <1>5, <1>1 DEF TablesTyped

LEMMA DropInv ==
  ASSUME SchemaInv, NEW n \in Starters,
         Schema!dropLegacyMCPPlaintextColumns(n) \/ Schema!DropColumn(n)
  PROVE  SchemaInv'
<1>1. StartSound(boot[n]) /\ TablesTyped /\ DataKept
  BY DEF SchemaInv
<1>2. Schema!DropPlain # Schema!KeyIndex /\ Schema!DropPlain # Schema!Encrypt
  BY DEF Schema!KeyIndex, Schema!Encrypt, Schema!DropPlain
<1>3. CASE Schema!dropLegacyMCPPlaintextColumns(n)
  <2>1. Grows /\ TablesTyped' /\ DataKept'
    BY <1>3, DataStays DEF Schema!dropLegacyMCPPlaintextColumns
  <2>2. /\ boot[n].at = "migrating" /\ boot[n].todo # {} /\ Schema!Min(boot[n].todo) = Schema!DropPlain
        /\ UNCHANGED <<column, plain>>
    BY <1>3 DEF Schema!dropLegacyMCPPlaintextColumns, Schema!Up, Schema!secrets
  <2>3. Schema!Plaintext' = Schema!Plaintext
    BY <2>2 DEF Schema!Plaintext
  <2>4. CASE Schema!Fails(n)
    BY <2>1, <2>4, StartFails
  <2>5. CASE Schema!To(n, "dropping") /\ Schema!Plaintext = {}
    BY <2>1, <2>2, <2>3, <2>5, StepsOn
  <2>6. CASE Schema!To(n, "recording") /\ ~column
    BY <1>2, <2>1, <2>2, <2>6, StepsOn
  <2>7. \/ Schema!Fails(n)
        \/ Schema!To(n, "dropping") /\ column /\ Schema!Plaintext = {}
        \/ Schema!To(n, "recording") /\ ~column
    BY <1>3 DEF Schema!dropLegacyMCPPlaintextColumns
  <2> QED
    BY <2>4, <2>5, <2>6, <2>7
<1>4. CASE Schema!DropColumn(n)
  <2>1. /\ boot[n].at = "dropping" /\ boot[n].todo # {} /\ Schema!Min(boot[n].todo) = Schema!DropPlain
        /\ Schema!Plaintext = {} /\ ~column' /\ plain' = [w \in Servers |-> "none"]
        /\ UNCHANGED <<applied, granted, keyIndex, nameIndex, sealed, legacy>>
    BY <1>1, <1>4 DEF Schema!DropColumn, Schema!table, StartSound, Working
  <2>2. Schema!Plaintext' = {}
    BY <2>1 DEF Schema!Plaintext
  <2>3. Grows
    BY <2>1, <2>2 DEF Grows
  <2>4. TablesTyped'
    BY <1>1, <1>4, <2>1 DEF TablesTyped, Schema!DropColumn, Schema!Values
  <2>5. \A w \in Servers : legacy[w] = "json" => sealed[w]
    BY <1>1, <2>1 DEF DataKept, Schema!Plaintext
  <2>6. DataKept'
    BY <1>1, <2>1, <2>2, <2>5 DEF DataKept
  <2>7. CASE Schema!Fails(n)
    BY <2>3, <2>4, <2>6, <2>7, StartFails
  <2>8. CASE Schema!To(n, "recording")
    BY <1>2, <2>1, <2>3, <2>4, <2>6, <2>8, StepsOn
  <2> QED
    BY <1>4, <2>7, <2>8 DEF Schema!DropColumn
<1> QED
  BY <1>3, <1>4

LEMMA RecordInv ==
  ASSUME SchemaInv, NEW n \in Starters, Schema!Record(n)
  PROVE  SchemaInv'
<1> DEFINE v == Schema!Min(boot[n].todo)
<1>1. boot[n] \in Starts /\ StartSound(boot[n]) /\ TablesTyped /\ DataKept
  BY DEF SchemaInv
<1>2. /\ boot[n].at = "recording" /\ boot[n].todo # {} /\ applied' = applied \cup {v}
      /\ UNCHANGED <<granted, keyIndex, nameIndex, column, plain, sealed, legacy>>
  BY <1>1 DEF Schema!Record, Schema!secrets, StartSound, Working
<1>3. v \in Schema!Versions
  BY <1>1, <1>2, FirstIsLeft DEF Starts
<1>4. Schema!Plaintext' = Schema!Plaintext
  BY <1>2 DEF Schema!Plaintext
<1>5. Grows /\ TablesTyped'
  BY <1>1, <1>2, <1>3, <1>4 DEF Grows, TablesTyped
<1>6. DataKept'
  BY <1>1, <1>2, <1>4 DEF DataKept, StartSound
<1>7. CASE v \in applied
  <2>1. Schema!Fails(n)
    BY <1>7 DEF Schema!Record
  <2> QED
    BY <2>1, <1>5, <1>6, StartFails
<1>8. CASE v \notin applied
  <2> DEFINE b == [boot[n] EXCEPT !.at = "migrating", !.todo = boot[n].todo \ {v}]
  <2>1. boot' = [boot EXCEPT ![n] = b] /\ boot'[n] = b
    BY <1>8 DEF Schema!Record, SchemaInv
  <2>2. b \in Starts /\ b.at = "migrating" /\ b.todo = boot[n].todo \ {v}
    BY <1>1 DEF Starts
  <2>3. Schema!Versions \ b.todo \subseteq applied'
    BY <1>1, <1>2, <2>2 DEF StartSound
  <2> HIDE DEF b, v
  <2>4. StartSound(boot[n])'
    BY <2>1, <2>2, <2>3 DEF StartSound, Working
  <2> QED
    BY <1>5, <1>6, <2>1, <2>2, <2>4, StartStep
<1> QED
  BY <1>7, <1>8

LEMMA SeedInv ==
  ASSUME SchemaInv, NEW n \in Starters, Schema!seedRoles(n)
  PROVE  SchemaInv'
<1>1. StartSound(boot[n]) /\ TablesTyped /\ DataKept
  BY DEF SchemaInv
<1>2. /\ boot[n].at = "seeding" /\ boot[n].todo = {}
      /\ UNCHANGED <<applied, keyIndex, nameIndex, column, plain, sealed, legacy>>
  BY <1>1 DEF Schema!seedRoles, Schema!secrets, StartSound
<1>3. Schema!Plaintext' = Schema!Plaintext
  BY <1>2 DEF Schema!Plaintext
<1>4. DataKept'
  BY <1>1, <1>2, <1>3 DEF DataKept
<1>5. CASE UNCHANGED boot /\ \E p \in Permissions \ granted : granted' = granted \cup {p}
  <2>1. Grows /\ TablesTyped'
    BY <1>1, <1>2, <1>3, <1>5 DEF Grows, TablesTyped
  <2>2. \A m \in Starters : StartSound(boot[m])'
    BY <1>5, <2>1, ElsewhereSound DEF SchemaInv
  <2> QED
    BY <1>4, <1>5, <2>1, <2>2 DEF SchemaInv
<1>6. CASE granted = Permissions /\ Schema!To(n, "serving") /\ UNCHANGED granted
  <2>1. Grows /\ TablesTyped'
    BY <1>1, <1>2, <1>3, <1>6 DEF Grows, TablesTyped
  <2> QED
    BY <1>2, <1>4, <1>6, <2>1, StepsOn DEF Working
<1> QED
  BY <1>5, <1>6 DEF Schema!seedRoles

LEMMA SchemaNext == SchemaInv /\ [Schema!Next]_(Schema!vars) => SchemaInv'
<1> SUFFICES ASSUME SchemaInv, [Schema!Next]_(Schema!vars) PROVE SchemaInv'
  OBVIOUS
<1>1. CASE UNCHANGED Schema!vars
  <2>1. UNCHANGED <<applied, granted, keyIndex, nameIndex, column, plain, sealed, legacy, boot>>
    BY <1>1 DEF Schema!vars, Schema!table, Schema!secrets
  <2>2. Grows /\ TablesTyped' /\ DataKept'
    BY <2>1, DataStays DEF Schema!table, Schema!secrets
  <2>3. \A m \in Starters : StartSound(boot[m])'
    BY <2>1, <2>2, ElsewhereSound DEF SchemaInv
  <2> QED
    BY <2>1, <2>2, <2>3 DEF SchemaInv
<1>2. ASSUME NEW n \in Starters, Schema!Crash(n) PROVE SchemaInv'
  <2>1. Schema!Fails(n) /\ Grows /\ TablesTyped' /\ DataKept'
    BY <1>2, DataStays DEF Schema!Crash
  <2> QED
    BY <2>1, StartFails
<1> QED
  BY <1>1, <1>2, BeginInv, PlainMigrationsInv, EncryptInv, SealInv, DropInv, RecordInv, SeedInv
  DEF Schema!Next

LEMMA SchemasHold == Spec => [](part = "migrations" => SchemaInv)
<1>1. Init => (part = "migrations" => SchemaInv)
  BY SchemaInit DEF Init
<1>2. (part = "migrations" => SchemaInv) /\ [Next]_vars => (part = "migrations" => SchemaInv)'
  BY SchemaSteps, SchemaNext, PartStays
<1> QED
  BY <1>1, <1>2, PTL DEF Spec

(* Wherever starts crash and however they overlap: a secret that can be    *)
(* parsed is in the column or sealed, a version that is recorded has done  *)
(* its work, and a server serves on the whole schema (repo/migrate.go).    *)
THEOREM SecretsSurvive == Spec => []SecretsKept
<1>1. (part = "migrations" => SchemaInv) => SecretsKept
  BY SchemaSound DEF SecretsKept
<1> QED
  BY SchemasHold, <1>1, PTL
-----------------------------------------------------------------------------
(* Access *)

LEMMA AccountSteps == [Next]_vars /\ part = "access" => [Account!Next]_(Account!vars)
BY DEF Next, vars, ApprovalAlone, WorktreeAlone, EvalAlone, PromptAlone, KBaseAlone, SkillAlone,
       AccountAlone, SchemaAlone, ModelAlone, accessVars, Account!vars, Account!rows, Account!credentials

LEMMA CardinalityAgrees == \A S : Account!Cardinality(S) = Cardinality(S)
BY DEF Account!Cardinality, Cardinality

AccountRequest ==
  [at : {"idle", "insert", "count", "save", "move", "saveTenant", "delete"},
   user : Users \cup {NoUser}, row : Account!Rows \cup {NoUser}, tenant : Tenants \cup {NoTenant},
   status : {"none", "active", "disabled"}, excuse : SUBSET Account!Excuses]

RowsTyped ==
  /\ users \in [Users -> Account!Rows \cup {NoUser}]
  /\ tenants \in [Tenants -> {"none", "active", "disabled", "deleted"}]

CredentialsTyped == tokens \subseteq Users \X Account!Roles /\ keys \subseteq Users

Filled(q) ==
  /\ q.at \in {"insert", "count", "save"} => q.user \in Users /\ q.row \in Account!Rows
  /\ q.at = "move" => q.user \in Users
  /\ q.at \in {"saveTenant", "delete"} => q.tenant \in Tenants
  /\ q.at = "saveTenant" => q.status # "none"

Joinable(t) == t = NoTenant \/ tenants[t] # "deleted"

(* What a request has checked holds until another one writes. *)
TenantChecked(q) ==
  "overlapped" \notin q.excuse =>
    /\ q.at = "insert" => Joinable(q.row.tenant)
    /\ q.at = "move" => Joinable(q.tenant)
    /\ q.at \in {"count", "save"} =>
         Account!Exists(q.user) /\ (q.row.tenant = users[q.user].tenant \/ Joinable(q.row.tenant))
    /\ q.at = "delete" => \A u \in Users : Account!Exists(u) => users[u].tenant # q.tenant

AdminLeft(q) ==
  q.at = "save" /\ q.excuse = {} =>
    \/ q.row.role = "admin" /\ q.row.status = "active"
    \/ Account!Admins = {}
    \/ \E a \in Account!Admins : a # q.user

RequestSound(q) == Filled(q) /\ TenantChecked(q) /\ AdminLeft(q)

AccountInv ==
  /\ RowsTyped /\ CredentialsTyped
  /\ desk \in [Requests -> AccountRequest]
  /\ \A r \in Requests : RequestSound(desk[r])

LEMMA AccountTyped == AccountInv => Account!TypeOK
BY DEF AccountInv, RowsTyped, CredentialsTyped, AccountRequest, Account!TypeOK

LEMMA AccountIdle ==
  /\ Account!Idle \in AccountRequest /\ Account!Idle.at = "idle" /\ Account!Idle.excuse = {}
BY DEF Account!Idle, AccountRequest

LEMMA AccountInit == Account!Init => AccountInv
<1> SUFFICES ASSUME Account!Init PROVE AccountInv
  OBVIOUS
<1>1. RowsTyped /\ CredentialsTyped
  BY DEF Account!Init, RowsTyped, CredentialsTyped, Account!Rows, Account!Roles
<1>2. desk \in [Requests -> AccountRequest] /\ \A r \in Requests : RequestSound(desk[r])
  BY AccountIdle DEF Account!Init, RequestSound, Filled, TenantChecked, AdminLeft
<1> QED
  BY <1>1, <1>2 DEF AccountInv

(* A step that leaves users and tenants as they are, and of one request at *)
(* most.                                                                   *)
LEMMA AccountStays ==
  ASSUME AccountInv, UNCHANGED <<users, tenants>>, CredentialsTyped',
         desk' \in [Requests -> AccountRequest],
         \A r \in Requests : desk'[r] = desk[r] \/ RequestSound(desk[r])'
  PROVE  AccountInv'
<1>1. RowsTyped'
  BY DEF AccountInv, RowsTyped
<1>2. ASSUME NEW r \in Requests, desk'[r] = desk[r] PROVE RequestSound(desk[r])'
  <2>1. RequestSound(desk[r])
    BY DEF AccountInv
  <2>2. Account!Admins' = Account!Admins
    BY DEF Account!Admins, Account!Exists
  <2>3. Filled(desk[r])'
    BY <1>2, <2>1 DEF RequestSound, Filled
  <2>4. TenantChecked(desk[r])'
    BY <1>2, <2>1 DEF RequestSound, TenantChecked, Joinable, Account!Exists
  <2>5. AdminLeft(desk[r])'
    BY <1>2, <2>1, <2>2 DEF RequestSound, AdminLeft
  <2> QED
    BY <2>3, <2>4, <2>5 DEF RequestSound
<1> QED
  BY <1>1, <1>2 DEF AccountInv

LEMMA ReadsInv ==
  ASSUME AccountInv, NEW r \in Requests, NEW by \in Users, NEW request \in AccountRequest,
         Account!Reads(r, by, request), RequestSound(request)
  PROVE  AccountInv'
<1>1. /\ desk' = [desk EXCEPT ![r] = request]
      /\ UNCHANGED <<users, tenants, tokens, keys>>
  BY DEF Account!Reads, Account!rows, Account!credentials
<1>2. desk' \in [Requests -> AccountRequest] /\ desk'[r] = request
  BY <1>1 DEF AccountInv
<1>3. Account!Admins' = Account!Admins
  BY <1>1 DEF Account!Admins, Account!Exists
<1>4. Filled(desk[r])'
  BY <1>2 DEF RequestSound, Filled
<1>5. TenantChecked(desk[r])'
  BY <1>1, <1>2 DEF RequestSound, TenantChecked, Joinable, Account!Exists
<1>6. AdminLeft(desk[r])'
  BY <1>2, <1>3 DEF RequestSound, AdminLeft
<1>7. RequestSound(desk[r])'
  BY <1>4, <1>5, <1>6 DEF RequestSound
<1>8. CredentialsTyped'
  BY <1>1 DEF AccountInv, CredentialsTyped
<1> QED
  BY <1>1, <1>2, <1>7, <1>8, AccountStays DEF AccountInv

(* A write leaves nobody with what was read before it. *)
LEMMA WritesAccountInv ==
  ASSUME AccountInv, NEW r \in Requests, Account!Writes(r), RowsTyped'
  PROVE  AccountInv'
<1>1. /\ desk' = [q \in Requests |-> IF q = r \/ desk[q] = Account!Idle THEN Account!Idle
                                     ELSE [desk[q] EXCEPT !.excuse = @ \cup {"overlapped"}]]
      /\ UNCHANGED <<tokens, keys>>
  BY DEF Account!Writes, Account!credentials
<1>2. CredentialsTyped'
  BY <1>1 DEF AccountInv, CredentialsTyped
<1>3. ASSUME NEW q \in Requests PROVE desk'[q] \in AccountRequest /\ RequestSound(desk[q])'
  <2>1. desk[q] \in AccountRequest /\ Filled(desk[q])
    BY DEF AccountInv, RequestSound
  <2>2. CASE desk'[q] = Account!Idle
    BY <2>2, AccountIdle DEF RequestSound, Filled, TenantChecked, AdminLeft
  <2>3. CASE desk'[q] = [desk[q] EXCEPT !.excuse = @ \cup {"overlapped"}]
    <3>1. /\ desk'[q] \in AccountRequest
          /\ desk'[q].at = desk[q].at /\ desk'[q].user = desk[q].user /\ desk'[q].row = desk[q].row
          /\ desk'[q].tenant = desk[q].tenant /\ desk'[q].status = desk[q].status
          /\ "overlapped" \in desk'[q].excuse
      BY <2>1, <2>3 DEF AccountRequest, Account!Excuses
    <3>2. Filled(desk[q])'
      BY <2>1, <3>1 DEF Filled
    <3> QED
      BY <3>1, <3>2 DEF RequestSound, TenantChecked, AdminLeft
  <2> QED
    BY <1>1, <2>2, <2>3
<1>4. desk' \in [Requests -> AccountRequest]
  BY <1>1, <1>3
<1> QED
  BY <1>2, <1>3, <1>4 DEF AccountInv

LEMMA OnTyped ==
  ASSUME NEW place \in {"insert", "count", "save", "move", "saveTenant", "delete"},
         NEW u \in Users \cup {NoUser}, NEW kept \in Account!Rows \cup {NoUser}
  PROVE  LET request == Account!On(place, u, kept)
         IN /\ request \in AccountRequest
            /\ request.at = place /\ request.user = u /\ request.row = kept /\ request.tenant = NoTenant
            /\ request.status = "none" /\ request.excuse = {}
BY DEF Account!On, Account!Idle, AccountRequest

LEMMA OpenIsJoinable == \A t \in Account!Open : t \in Tenants \cup {NoTenant} /\ Joinable(t)
BY DEF Account!Open, Joinable

(* If there are other administrators than u, or none. *)
LEMMA OtherAdmins ==
  ASSUME NEW u, u \notin Account!Admins
  PROVE  Account!Admins = {} \/ \E a \in Account!Admins : a # u
OBVIOUS

LEMMA UserReadsInv ==
  ASSUME AccountInv, NEW r \in Requests, NEW by \in Users, NEW u \in Users,
         \/ Account!DisableUser(r, by, u) \/ Account!EnableUser(r, by, u)
         \/ Account!ResetPassword(r, by, u)
  PROVE  AccountInv'
<1>1. users[u] \in Account!Rows /\ Account!Exists(u)
  BY DEF AccountInv, RowsTyped, Account!Exists, Account!DisableUser, Account!EnableUser, Account!ResetPassword
<1>2. PICK place \in {"count", "save"}, mode \in {"active", "disabled"} :
        /\ Account!Reads(r, by, Account!On(place, u, [users[u] EXCEPT !.status = mode]))
        /\ \/ place = "count" \/ u \notin Account!Admins
           \/ [users[u] EXCEPT !.status = mode] = users[u]
  <2>1. CASE Account!DisableUser(r, by, u)
    <3>1. users[u].role # "admin" => u \notin Account!Admins
      BY DEF Account!Admins
    <3> QED
      BY <2>1, <3>1 DEF Account!DisableUser
  <2>2. CASE Account!EnableUser(r, by, u)
    <3>1. u \notin Account!Admins
      BY <2>2 DEF Account!EnableUser, Account!Admins
    <3> QED
      BY <2>2, <3>1 DEF Account!EnableUser
  <2>3. CASE Account!ResetPassword(r, by, u)
    <3>1. users[u].status \in {"active", "disabled"} /\ [users[u] EXCEPT !.status = users[u].status] = users[u]
      BY <1>1 DEF Account!Rows
    <3> QED
      BY <2>3, <3>1 DEF Account!ResetPassword
  <2> QED
    BY <2>1, <2>2, <2>3
<1> DEFINE kept == [users[u] EXCEPT !.status = mode]
           request == Account!On(place, u, kept)
<1>3. /\ kept \in Account!Rows /\ kept.tenant = users[u].tenant
      /\ u \in Account!Admins /\ kept = users[u] => kept.role = "admin" /\ kept.status = "active"
  BY <1>1 DEF Account!Rows, Account!Admins
<1> HIDE DEF kept
<1>4. /\ request \in AccountRequest /\ request.at = place /\ request.user = u /\ request.row = kept
      /\ request.excuse = {}
  BY <1>3, OnTyped
<1> HIDE DEF request
<1>5. Filled(request) /\ TenantChecked(request)
  BY <1>1, <1>3, <1>4 DEF Filled, TenantChecked
<1>6. AdminLeft(request)
  BY <1>2, <1>3, <1>4, OtherAdmins DEF AdminLeft, kept
<1>7. Account!Reads(r, by, request)
  BY <1>2 DEF request, kept
<1> QED
  BY <1>4, <1>5, <1>6, <1>7, ReadsInv DEF RequestSound

LEMMA CreateUserInv ==
  ASSUME AccountInv, NEW r \in Requests, NEW by \in Users, NEW u \in Users, NEW kept \in Account!Rows,
         Account!CreateUser(r, by, u, kept)
  PROVE  AccountInv'
<1> DEFINE request == Account!On("insert", u, kept)
<1>1. /\ request \in AccountRequest /\ request.at = "insert" /\ request.user = u /\ request.row = kept
      /\ request.excuse = {}
  BY OnTyped
<1>2. Joinable(kept.tenant) /\ Account!Reads(r, by, request)
  BY OpenIsJoinable DEF Account!CreateUser
<1> HIDE DEF request
<1>3. RequestSound(request)
  BY <1>1, <1>2 DEF RequestSound, Filled, TenantChecked, AdminLeft
<1> QED
  BY <1>1, <1>2, <1>3, ReadsInv

LEMMA UpdateUserInv ==
  ASSUME AccountInv, NEW r \in Requests, NEW by \in Users, NEW u \in Users, NEW kept \in Account!Rows,
         Account!UpdateUser(r, by, u, kept)
  PROVE  AccountInv'
<1>1. /\ users[u] \in Account!Rows /\ Account!Exists(u)
      /\ by = u => kept.role \in {"admin", users[u].role} /\ kept.status \in {"active", users[u].status}
      /\ kept.tenant = users[u].tenant \/ Joinable(kept.tenant)
  BY OpenIsJoinable
  DEF AccountInv, RowsTyped, Account!Exists, Account!UpdateUser, Account!Rows, Account!Roles
<1>2. PICK role \in {kept.role, users[u].role} :
        Account!Reads(r, by, [Account!On("save", u, [kept EXCEPT !.role = role]) EXCEPT
                                !.excuse = IF by \in Account!Admins THEN {} ELSE {"outsider"}])
  BY DEF Account!UpdateUser
<1> DEFINE new == [kept EXCEPT !.role = role]
           excuse == IF by \in Account!Admins THEN {} ELSE {"outsider"}
           bare == Account!On("save", u, new)
           request == [bare EXCEPT !.excuse = excuse]
<1>3. /\ new \in Account!Rows /\ new.tenant = kept.tenant /\ new.status = kept.status /\ new.role = role
  BY <1>1 DEF Account!Rows
<1>4. excuse \in SUBSET Account!Excuses /\ "overlapped" \notin excuse /\ (excuse = {} => by \in Account!Admins)
  BY DEF Account!Excuses
<1> HIDE DEF new, excuse
<1>5. bare \in AccountRequest /\ bare.at = "save" /\ bare.user = u /\ bare.row = new
  BY <1>3, OnTyped
<1> HIDE DEF bare
<1>6. /\ request \in AccountRequest /\ request.at = "save" /\ request.user = u /\ request.row = new
      /\ request.excuse = excuse
  BY <1>4, <1>5 DEF AccountRequest
<1>7. Account!Reads(r, by, request)
  BY <1>2 DEF bare, new, excuse
<1> HIDE DEF request
<1>8. Filled(request) /\ TenantChecked(request)
  BY <1>1, <1>3, <1>6 DEF Filled, TenantChecked
<1>9. AdminLeft(request)
  <2> SUFFICES ASSUME excuse = {}, by = u PROVE new.role = "admin" /\ new.status = "active"
    BY <1>4, <1>6 DEF AdminLeft
  <2>1. users[u].role = "admin" /\ users[u].status = "active"
    BY <1>4 DEF Account!Admins
  <2> QED
    BY <1>1, <1>2, <1>3, <2>1
<1> QED
  BY <1>6, <1>7, <1>8, <1>9, ReadsInv DEF RequestSound

LEMMA TenantReadsInv ==
  ASSUME AccountInv, NEW r \in Requests, NEW by \in Users,
         \/ \E u \in Users : Account!RemoveTenantMember(r, by, u)
         \/ \E u \in Users, t \in Tenants : Account!AddTenantMember(r, by, u, t)
         \/ \E t \in Tenants : Account!DeleteTenant(r, by, t)
         \/ \E t \in Tenants, mode \in {"active", "disabled"} : Account!UpdateTenant(r, by, t, mode)
  PROVE  AccountInv'
<1>1. ASSUME NEW u \in Users, Account!RemoveTenantMember(r, by, u) PROVE AccountInv'
  <2> DEFINE request == Account!On("move", u, NoUser)
  <2>1. /\ request \in AccountRequest /\ request.at = "move" /\ request.user = u
        /\ request.tenant = NoTenant
    BY OnTyped
  <2>2. Account!Reads(r, by, request)
    BY <1>1 DEF Account!RemoveTenantMember
  <2> HIDE DEF request
  <2>3. RequestSound(request)
    BY <2>1 DEF RequestSound, Filled, TenantChecked, AdminLeft, Joinable
  <2> QED
    BY <2>1, <2>2, <2>3, ReadsInv
<1>2. ASSUME NEW u \in Users, NEW t \in Tenants, Account!AddTenantMember(r, by, u, t) PROVE AccountInv'
  <2> DEFINE bare == Account!On("move", u, NoUser)
             request == [bare EXCEPT !.tenant = t]
  <2>1. bare \in AccountRequest /\ bare.at = "move" /\ bare.user = u
    BY OnTyped
  <2>2. Account!Reads(r, by, request) /\ Joinable(t)
    BY <1>2 DEF Account!AddTenantMember, Joinable
  <2> HIDE DEF bare
  <2>3. request \in AccountRequest /\ request.at = "move" /\ request.user = u /\ request.tenant = t
    BY <2>1 DEF AccountRequest
  <2> HIDE DEF request
  <2>4. RequestSound(request)
    BY <2>2, <2>3 DEF RequestSound, Filled, TenantChecked, AdminLeft
  <2> QED
    BY <2>2, <2>3, <2>4, ReadsInv
<1>3. ASSUME NEW t \in Tenants, Account!DeleteTenant(r, by, t) PROVE AccountInv'
  <2> DEFINE bare == Account!On("delete", NoUser, NoUser)
             request == [bare EXCEPT !.tenant = t]
  <2>1. bare \in AccountRequest /\ bare.at = "delete"
    BY OnTyped
  <2>2. Account!Reads(r, by, request) /\ \A u \in Users : Account!Exists(u) => users[u].tenant # t
    BY <1>3 DEF Account!DeleteTenant
  <2> HIDE DEF bare
  <2>3. request \in AccountRequest /\ request.at = "delete" /\ request.tenant = t
    BY <2>1 DEF AccountRequest
  <2> HIDE DEF request
  <2>4. RequestSound(request)
    BY <2>2, <2>3 DEF RequestSound, Filled, TenantChecked, AdminLeft
  <2> QED
    BY <2>2, <2>3, <2>4, ReadsInv
<1>4. ASSUME NEW t \in Tenants, NEW mode \in {"active", "disabled"}, Account!UpdateTenant(r, by, t, mode)
      PROVE AccountInv'
  <2> DEFINE bare == Account!On("saveTenant", NoUser, NoUser)
             request == [bare EXCEPT !.tenant = t, !.status = mode]
  <2>1. bare \in AccountRequest /\ bare.at = "saveTenant"
    BY OnTyped
  <2>2. Account!Reads(r, by, request)
    BY <1>4 DEF Account!UpdateTenant
  <2> HIDE DEF bare
  <2>3. /\ request \in AccountRequest /\ request.at = "saveTenant" /\ request.tenant = t
        /\ request.status = mode
    BY <2>1 DEF AccountRequest
  <2> HIDE DEF request
  <2>4. RequestSound(request)
    BY <2>3 DEF RequestSound, Filled, TenantChecked, AdminLeft
  <2> QED
    BY <2>2, <2>3, <2>4, ReadsInv
<1> QED
  BY <1>1, <1>2, <1>3, <1>4

LEMMA CountInv ==
  ASSUME AccountInv, NEW r \in Requests, Account!CountAdmins(r)
  PROVE  AccountInv'
<1>1. desk[r] \in AccountRequest /\ Filled(desk[r]) /\ TenantChecked(desk[r]) /\ desk[r].at = "count"
  BY DEF AccountInv, RequestSound, Account!CountAdmins
<1>2. UNCHANGED <<users, tenants, tokens, keys>>
  BY DEF Account!CountAdmins, Account!rows, Account!credentials
<1>3. CredentialsTyped' /\ Account!Admins' = Account!Admins
  BY <1>2 DEF AccountInv, CredentialsTyped, Account!Admins, Account!Exists
<1>4. CASE desk' = [desk EXCEPT ![r] = Account!Idle]
  <2>1. desk' \in [Requests -> AccountRequest] /\ desk'[r] = Account!Idle
    BY <1>4, AccountIdle DEF AccountInv
  <2>2. RequestSound(desk[r])'
    BY <2>1, AccountIdle DEF RequestSound, Filled, TenantChecked, AdminLeft
  <2> QED
    BY <1>2, <1>3, <1>4, <2>1, <2>2, AccountStays DEF AccountInv
<1>5. ASSUME NEW step \in AccountRequest, step.at = "save",
             step.user = desk[r].user, step.row = desk[r].row, desk[r].excuse \subseteq step.excuse,
             desk' = [desk EXCEPT ![r] = step],
             step.excuse = {} => \E a \in Account!Admins : a # desk[r].user
      PROVE  AccountInv'
  <2>1. desk' \in [Requests -> AccountRequest] /\ desk'[r] = step
    BY <1>5 DEF AccountInv
  <2>2. Filled(desk[r])'
    BY <1>1, <1>5, <2>1 DEF Filled
  <2>3. TenantChecked(desk[r])'
    BY <1>1, <1>2, <1>5, <2>1 DEF TenantChecked, Joinable, Account!Exists
  <2>4. AdminLeft(desk[r])'
    BY <1>3, <1>5, <2>1 DEF AdminLeft
  <2> QED
    BY <1>2, <1>3, <1>5, <2>1, <2>2, <2>3, <2>4, AccountStays DEF AccountInv, RequestSound
<1>6. CASE ~(Cardinality(Account!Admins) <= 1) /\ desk' = [desk EXCEPT ![r].at = "save"]
  <2> DEFINE step == [desk[r] EXCEPT !.at = "save"]
  <2>1. \E a \in Account!Admins : a # desk[r].user
    <3> SUFFICES ASSUME Account!Admins \subseteq {desk[r].user} PROVE FALSE
      OBVIOUS
    <3>1. IsFiniteSet({desk[r].user}) /\ Cardinality({desk[r].user}) = 1
      BY FS_Singleton
    <3>2. Cardinality(Account!Admins) <= 1
      BY <3>1, FS_Subset
    <3> QED
      BY <1>6, <3>2
  <2>2. /\ step \in AccountRequest /\ step.at = "save" /\ step.user = desk[r].user
        /\ step.row = desk[r].row /\ step.excuse = desk[r].excuse
    BY <1>1 DEF AccountRequest
  <2>3. desk' = [desk EXCEPT ![r] = step]
    BY <1>6 DEF AccountInv
  <2> HIDE DEF step
  <2> QED
    BY <1>5, <2>1, <2>2, <2>3
<1>7. CASE desk' = [desk EXCEPT ![r].at = "save", ![r].excuse = @ \cup {"uncounted"}]
  <2> DEFINE step == [desk[r] EXCEPT !.at = "save", !.excuse = desk[r].excuse \cup {"uncounted"}]
  <2>1. /\ step \in AccountRequest /\ step.at = "save" /\ step.user = desk[r].user
        /\ step.row = desk[r].row /\ step.excuse = desk[r].excuse \cup {"uncounted"}
    BY <1>1 DEF AccountRequest, Account!Excuses
  <2>2. desk' = [desk EXCEPT ![r] = step]
    BY <1>7 DEF AccountInv
  <2> HIDE DEF step
  <2> QED
    BY <1>5, <2>1, <2>2
<1> QED
  BY <1>4, <1>6, <1>7, CardinalityAgrees DEF Account!CountAdmins

LEMMA WriteInv ==
  ASSUME AccountInv, NEW r \in Requests,
         \/ Account!Insert(r) \/ Account!Save(r) \/ Account!SaveTenant(r)
         \/ Account!Delete(r) \/ Account!MoveUserToTenant(r)
  PROVE  AccountInv'
<1>1. desk[r] \in AccountRequest /\ Filled(desk[r]) /\ RowsTyped
  BY DEF AccountInv, RequestSound
<1>2. CASE Account!Insert(r) \/ Account!Save(r)
  <2>1. RowsTyped'
    BY <1>1, <1>2 DEF RowsTyped, Filled, Account!Insert, Account!Save
  <2>2. Account!Writes(r)
    BY <1>2 DEF Account!Insert, Account!Save
  <2> QED
    BY <2>1, <2>2, WritesAccountInv
<1>3. CASE Account!SaveTenant(r) \/ Account!Delete(r)
  <2>1. RowsTyped'
    BY <1>1, <1>3 DEF RowsTyped, AccountRequest, Account!SaveTenant, Account!Delete
  <2>2. Account!Writes(r)
    BY <1>3 DEF Account!SaveTenant, Account!Delete
  <2> QED
    BY <2>1, <2>2, WritesAccountInv
<1>4. CASE Account!MoveUserToTenant(r)
  <2>1. ASSUME Account!Exists(desk[r].user) PROVE RowsTyped'
    <3>1. /\ users[desk[r].user] \in Account!Rows /\ desk[r].tenant \in Tenants \cup {NoTenant}
          /\ desk[r].user \in Users
      BY <1>1, <1>4, <2>1
      DEF RowsTyped, Filled, AccountRequest, Account!Exists, Account!MoveUserToTenant
    <3>2. [users[desk[r].user] EXCEPT !.tenant = desk[r].tenant] \in Account!Rows
      BY <3>1 DEF Account!Rows
    <3>3. /\ users' = [users EXCEPT ![desk[r].user] = [users[desk[r].user] EXCEPT !.tenant = desk[r].tenant]]
          /\ tenants' = tenants
      BY <1>1, <1>4, <2>1 DEF Account!MoveUserToTenant, RowsTyped
    <3> QED
      BY <1>1, <3>1, <3>2, <3>3 DEF RowsTyped
  <2>2. ASSUME ~Account!Exists(desk[r].user) PROVE RowsTyped'
    BY <1>1, <1>4, <2>2 DEF RowsTyped, Account!MoveUserToTenant
  <2>3. Account!Writes(r)
    BY <1>4 DEF Account!MoveUserToTenant
  <2> QED
    BY <2>1, <2>2, <2>3, WritesAccountInv
<1> QED
  BY <1>2, <1>3, <1>4

LEMMA RegisterInv ==
  ASSUME AccountInv, NEW u \in Users, Account!Register(u)
  PROVE  AccountInv'
<1> DEFINE newcomer == [role |-> "developer", status |-> "active", tenant |-> NoTenant]
<1>1. /\ users' = [users EXCEPT ![u] = newcomer] /\ ~Account!Exists(u)
      /\ tokens' = tokens \cup {<<u, "developer">>}
      /\ UNCHANGED <<tenants, keys, desk>>
  BY DEF Account!Register
<1>2. newcomer \in Account!Rows
  BY DEF Account!Rows, Account!Roles
<1>3. RowsTyped' /\ CredentialsTyped' /\ desk' \in [Requests -> AccountRequest]
  BY <1>1, <1>2 DEF AccountInv, RowsTyped, CredentialsTyped, Account!Roles
<1>4. users' \in [Users -> Account!Rows \cup {NoUser}] /\ users'[u] = newcomer
      /\ \A v \in Users : v # u => users'[v] = users[v]
  BY <1>1, <1>3 DEF AccountInv, RowsTyped
<1>5. Account!Admins' = Account!Admins
  <2>1. u \notin Account!Admins' /\ u \notin Account!Admins
    BY <1>1, <1>4 DEF Account!Admins
  <2> QED
    BY <1>4, <2>1 DEF Account!Admins, Account!Exists
<1>6. ASSUME NEW r \in Requests PROVE RequestSound(desk[r])'
  <2>1. desk'[r] = desk[r] /\ Filled(desk[r]) /\ TenantChecked(desk[r]) /\ AdminLeft(desk[r])
    BY <1>1 DEF AccountInv, RequestSound
  <2>2. Filled(desk[r])' /\ AdminLeft(desk[r])'
    BY <1>5, <2>1 DEF Filled, AdminLeft
  <2>3. TenantChecked(desk[r])'
    <3>1. \A t : Joinable(t)' <=> Joinable(t)
      BY <1>1 DEF Joinable
    <3>2. ASSUME desk[r].at \in {"count", "save"}, "overlapped" \notin desk[r].excuse
          PROVE  /\ Account!Exists(desk[r].user)' /\ users'[desk[r].user] = users[desk[r].user]
      <4>1. Account!Exists(desk[r].user) /\ desk[r].user \in Users
        BY <2>1, <3>2 DEF TenantChecked, Filled
      <4> QED
        BY <1>1, <1>4, <4>1 DEF Account!Exists
    <3>3. ASSUME desk[r].at = "delete", "overlapped" \notin desk[r].excuse, NEW v \in Users,
                 Account!Exists(v)'
          PROVE  users'[v].tenant # desk[r].tenant
      <4>1. CASE v = u
        BY <1>4, <2>1, <3>3, <4>1, AccessAssumption DEF Filled
      <4>2. CASE v # u
        BY <1>4, <2>1, <3>3, <4>2 DEF TenantChecked, Account!Exists
      <4> QED
        BY <4>1, <4>2
    <3> QED
      BY <2>1, <3>1, <3>2, <3>3 DEF TenantChecked
  <2> QED
    BY <2>2, <2>3 DEF RequestSound
<1> QED
  BY <1>3, <1>6 DEF AccountInv

LEMMA CreateTenantInv ==
  ASSUME AccountInv, NEW by \in Users, NEW t \in Tenants, Account!CreateTenant(by, t)
  PROVE  AccountInv'
<1>1. /\ tenants' = [tenants EXCEPT ![t] = "active"]
      /\ UNCHANGED <<users, tokens, keys, desk>>
  BY DEF Account!CreateTenant, Account!credentials
<1>2. RowsTyped' /\ CredentialsTyped' /\ Account!Admins' = Account!Admins
  BY <1>1 DEF AccountInv, RowsTyped, CredentialsTyped, Account!Admins, Account!Exists
<1>3. \A s \in Tenants \cup {NoTenant} : Joinable(s) => Joinable(s)'
  BY <1>1 DEF AccountInv, RowsTyped, Joinable
<1>4. ASSUME NEW r \in Requests PROVE RequestSound(desk[r])'
  <2>1. /\ desk'[r] = desk[r] /\ desk[r] \in AccountRequest
        /\ Filled(desk[r]) /\ TenantChecked(desk[r]) /\ AdminLeft(desk[r])
    BY <1>1 DEF AccountInv, RequestSound
  <2>2. Filled(desk[r])' /\ AdminLeft(desk[r])'
    BY <1>2, <2>1 DEF Filled, AdminLeft
  <2>3. /\ desk[r].tenant \in Tenants \cup {NoTenant}
        /\ desk[r].at \in {"insert", "count", "save"} => desk[r].row.tenant \in Tenants \cup {NoTenant}
    BY <2>1 DEF AccountRequest, Filled, Account!Rows
  <2>4. TenantChecked(desk[r])'
    BY <1>1, <1>3, <2>1, <2>3 DEF TenantChecked, Account!Exists
  <2> QED
    BY <2>2, <2>4 DEF RequestSound
<1> QED
  BY <1>1, <1>2, <1>4 DEF AccountInv

LEMMA CredentialsInv ==
  ASSUME AccountInv,
         \/ \E u \in Users : Account!Login(u) \/ Account!CreateAPIKey(u) \/ Account!RevokeAPIKey(u)
         \/ \E token \in tokens : Account!TokenExpires(token)
         \/ UNCHANGED Account!vars
  PROVE  AccountInv' /\ UNCHANGED <<users, tenants>>
<1>1. UNCHANGED <<users, tenants, desk>>
  BY DEF Account!Login, Account!CreateAPIKey, Account!RevokeAPIKey, Account!TokenExpires,
         Account!vars, Account!rows
<1>2. CredentialsTyped'
  <2>1. ASSUME NEW u \in Users, Account!Login(u) PROVE CredentialsTyped'
    <3>1. users[u].role \in Account!Roles
      BY <2>1 DEF AccountInv, RowsTyped, Account!Login, Account!Exists, Account!Rows
    <3> QED
      BY <2>1, <3>1 DEF AccountInv, CredentialsTyped, Account!Login
  <2>2. ASSUME NEW u \in Users, Account!CreateAPIKey(u) \/ Account!RevokeAPIKey(u) PROVE CredentialsTyped'
    BY <2>2 DEF AccountInv, CredentialsTyped, Account!CreateAPIKey, Account!RevokeAPIKey
  <2>3. ASSUME NEW token \in tokens, Account!TokenExpires(token) PROVE CredentialsTyped'
    BY <2>3 DEF AccountInv, CredentialsTyped, Account!TokenExpires
  <2>4. CASE UNCHANGED Account!vars
    BY <2>4 DEF AccountInv, CredentialsTyped, Account!vars, Account!credentials
  <2> QED
    BY <2>1, <2>2, <2>3, <2>4
<1> QED
  BY <1>1, <1>2, AccountStays DEF AccountInv

(* What an administrator's request reads before it writes. *)
UserReading(r, by, u) ==
  \/ \E kept \in Account!Rows :
       Account!CreateUser(r, by, u, kept) \/ Account!UpdateUser(r, by, u, kept)
  \/ Account!DisableUser(r, by, u) \/ Account!EnableUser(r, by, u) \/ Account!ResetPassword(r, by, u)
  \/ Account!RemoveTenantMember(r, by, u)
  \/ \E t \in Tenants : Account!AddTenantMember(r, by, u, t)

TenantReading(r, by, t) ==
  \/ \E mode \in {"active", "disabled"} : Account!UpdateTenant(r, by, t, mode)
  \/ Account!DeleteTenant(r, by, t)

Writing(r) ==
  \/ Account!Insert(r) \/ Account!Save(r) \/ Account!SaveTenant(r)
  \/ Account!Delete(r) \/ Account!MoveUserToTenant(r)

LEMMA AccountActions ==
  ASSUME [Account!Next]_(Account!vars)
  PROVE  \/ \E u \in Users : Account!Login(u) \/ Account!CreateAPIKey(u) \/ Account!RevokeAPIKey(u)
         \/ \E token \in tokens : Account!TokenExpires(token)
         \/ UNCHANGED Account!vars
         \/ \E u \in Users : Account!Register(u)
         \/ \E r \in Requests, by, u \in Users : UserReading(r, by, u)
         \/ \E r \in Requests, by \in Users, t \in Tenants : TenantReading(r, by, t)
         \/ \E by \in Users, t \in Tenants : Account!CreateTenant(by, t)
         \/ \E r \in Requests : Account!CountAdmins(r)
         \/ \E r \in Requests : Writing(r)
BY DEF Account!Next, UserReading, TenantReading, Writing

LEMMA AccountNext == AccountInv /\ [Account!Next]_(Account!vars) => AccountInv'
<1> SUFFICES ASSUME AccountInv, [Account!Next]_(Account!vars) PROVE AccountInv'
  OBVIOUS
<1>1. ASSUME NEW r \in Requests, NEW by \in Users, NEW u \in Users, UserReading(r, by, u) PROVE AccountInv'
  BY <1>1, CreateUserInv, UpdateUserInv, UserReadsInv, TenantReadsInv DEF UserReading
<1>2. ASSUME NEW r \in Requests, NEW by \in Users, NEW t \in Tenants, TenantReading(r, by, t) PROVE AccountInv'
  BY <1>2, TenantReadsInv DEF TenantReading
<1>3. ASSUME NEW r \in Requests, Writing(r) PROVE AccountInv'
  BY <1>3, WriteInv DEF Writing
<1> QED
  BY <1>1, <1>2, <1>3, AccountActions, CredentialsInv, RegisterInv, CreateTenantInv, CountInv

-----------------------------------------------------------------------------

(* Whoever writes has done so when its request is over. *)
LEMMA WriterIsExcused ==
  ASSUME AccountInv, NEW r \in Requests, Writing(r), NEW excuses, desk[r].excuse \cap excuses # {}
  PROVE  Account!Excused(excuses)
<1>1. desk[r].at # "idle" /\ Account!Writes(r)
  BY DEF Writing, Account!Insert, Account!Save, Account!SaveTenant, Account!Delete, Account!MoveUserToTenant
<1>2. desk'[r] = Account!Idle
  BY <1>1 DEF Account!Writes
<1> QED
  BY <1>1, <1>2 DEF Account!Excused

(* A row that is changed in its tenant alone is an administrator's as before. *)
LEMMA AdminsLeft ==
  ASSUME AccountInv, NEW r \in Requests, Writing(r), desk[r].excuse = {},
         Account!Admins # {}
  PROVE  Account!Admins' # {}
<1>1. desk[r] \in AccountRequest /\ Filled(desk[r]) /\ AdminLeft(desk[r]) /\ RowsTyped
  BY DEF AccountInv, RequestSound
<1>2. CASE Account!Insert(r)
  <2>1. \A u \in Account!Admins : users'[u] = users[u]
    BY <1>1, <1>2 DEF Account!Insert, RowsTyped, Account!Admins, Account!Exists
  <2> QED
    BY <2>1 DEF Account!Admins, Account!Exists
<1>3. CASE Account!Save(r)
  <2>1. /\ users' = [users EXCEPT ![desk[r].user] = desk[r].row] /\ desk[r].at = "save"
        /\ desk[r].user \in Users /\ desk[r].row \in Account!Rows
    BY <1>1, <1>3 DEF Account!Save, Filled
  <2>2. CASE desk[r].row.role = "admin" /\ desk[r].row.status = "active"
    <3>1. desk[r].user \in Account!Admins'
      BY <1>1, <2>1, <2>2, AccessAssumption DEF RowsTyped, Account!Admins, Account!Exists
    <3> QED
      BY <3>1
  <2>3. ASSUME NEW a \in Account!Admins, a # desk[r].user PROVE Account!Admins' # {}
    <3>1. a \in Users /\ users'[a] = users[a]
      BY <1>1, <2>1, <2>3 DEF RowsTyped, Account!Admins
    <3> QED
      BY <2>3, <3>1 DEF Account!Admins, Account!Exists
  <2> QED
    BY <1>1, <2>1, <2>2, <2>3 DEF AdminLeft
<1>4. CASE Account!SaveTenant(r) \/ Account!Delete(r)
  BY <1>4 DEF Account!SaveTenant, Account!Delete, Account!Admins, Account!Exists
<1>5. CASE Account!MoveUserToTenant(r)
  <2>1. PICK a \in Account!Admins : TRUE
    OBVIOUS
  <2>2. a \in Users /\ users[a] \in Account!Rows /\ users[a].role = "admin" /\ users[a].status = "active"
    BY <1>1 DEF Account!Admins, Account!Exists, RowsTyped
  <2>3. users'[a] = users[a] \/ users'[a] = [users[a] EXCEPT !.tenant = desk[r].tenant]
    BY <1>1, <1>5, <2>2 DEF Account!MoveUserToTenant, RowsTyped
  <2>4. desk[r].tenant \in Tenants \cup {NoTenant}
    BY <1>1 DEF AccountRequest
  <2>5. users'[a] \in Account!Rows /\ users'[a].role = "admin" /\ users'[a].status = "active"
    BY <2>2, <2>3, <2>4 DEF Account!Rows
  <2>6. a \in Account!Admins'
    BY <2>2, <2>5, AccessAssumption DEF Account!Admins, Account!Exists
  <2> QED
    BY <2>6
<1> QED
  BY <1>2, <1>3, <1>4, <1>5 DEF Writing

(* Who is in a deleted tenant after a write was there before, unless the   *)
(* request had been overtaken.                                             *)
LEMMA NobodyIsOrphaned ==
  ASSUME AccountInv, NEW r \in Requests, Writing(r), "overlapped" \notin desk[r].excuse
  PROVE  Account!Orphans' \subseteq Account!Orphans
<1>1. desk[r] \in AccountRequest /\ Filled(desk[r]) /\ TenantChecked(desk[r]) /\ RowsTyped
  BY DEF AccountInv, RequestSound
<1> SUFFICES ASSUME NEW u \in Users, Account!Exists(u)', users'[u].tenant # NoTenant,
                    tenants'[users'[u].tenant] = "deleted"
             PROVE  /\ Account!Exists(u) /\ users[u].tenant # NoTenant
                    /\ tenants[users[u].tenant] = "deleted"
  BY DEF Account!Orphans
<1>2. CASE Account!Insert(r)
  <2>1. tenants' = tenants /\ (users'[u] = users[u] \/ (u = desk[r].user /\ users'[u] = desk[r].row))
    BY <1>1, <1>2 DEF Account!Insert, RowsTyped
  <2>2. users'[u] = desk[r].row => Joinable(users'[u].tenant)
    BY <1>1, <1>2 DEF Account!Insert, TenantChecked
  <2> QED
    BY <2>1, <2>2 DEF Joinable, Account!Exists
<1>3. CASE Account!Save(r)
  <2>1. /\ tenants' = tenants
        /\ users'[u] = users[u] \/ (u = desk[r].user /\ users'[u] = desk[r].row)
    BY <1>1, <1>3 DEF Account!Save, RowsTyped
  <2>2. CASE users'[u] = users[u]
    BY <2>1, <2>2 DEF Account!Exists
  <2>3. CASE u = desk[r].user /\ users'[u] = desk[r].row
    <3>1. Account!Exists(u) /\ (users'[u].tenant = users[u].tenant \/ Joinable(users'[u].tenant))
      BY <1>1, <1>3, <2>3 DEF Account!Save, TenantChecked
    <3> QED
      BY <2>1, <3>1 DEF Joinable
  <2> QED
    BY <2>1, <2>2, <2>3
<1>4. CASE Account!SaveTenant(r)
  <2>1. /\ users' = users /\ tenants' = [tenants EXCEPT ![desk[r].tenant] = desk[r].status]
        /\ desk[r].status \in {"none", "active", "disabled"} /\ desk[r].tenant \in Tenants
    BY <1>1, <1>4 DEF Account!SaveTenant, AccountRequest, Filled
  <2>2. users[u].tenant \in Tenants
    BY <1>1, <2>1 DEF RowsTyped, Account!Rows, Account!Exists
  <2> QED
    BY <1>1, <2>1, <2>2 DEF RowsTyped, Account!Exists
<1>5. CASE Account!Delete(r)
  <2>1. /\ users' = users /\ tenants' = [tenants EXCEPT ![desk[r].tenant] = "deleted"]
        /\ Account!Exists(u) /\ users[u].tenant # desk[r].tenant
    BY <1>1, <1>5 DEF Account!Delete, TenantChecked, Account!Exists
  <2>2. users[u].tenant \in Tenants
    BY <1>1, <2>1 DEF RowsTyped, Account!Rows, Account!Exists
  <2> QED
    BY <1>1, <2>1, <2>2 DEF RowsTyped
<1>6. CASE Account!MoveUserToTenant(r)
  <2>1. tenants' = tenants /\ Joinable(desk[r].tenant) /\ desk[r].user \in Users
    BY <1>1, <1>6 DEF Account!MoveUserToTenant, TenantChecked, Filled
  <2>2. CASE users'[u] = users[u]
    BY <2>1, <2>2 DEF Account!Exists
  <2>3. CASE /\ u = desk[r].user /\ Account!Exists(u)
             /\ users'[u] = [users[u] EXCEPT !.tenant = desk[r].tenant]
    <3>1. users[u] \in Account!Rows
      BY <1>1, <2>3 DEF RowsTyped, Account!Exists
    <3>2. users'[u].tenant = desk[r].tenant
      BY <2>3, <3>1 DEF Account!Rows
    <3> QED
      BY <2>1, <3>2 DEF Joinable
  <2>4. \/ users'[u] = users[u]
        \/ /\ u = desk[r].user /\ Account!Exists(u)
           /\ users'[u] = [users[u] EXCEPT !.tenant = desk[r].tenant]
    BY <1>1, <1>6, <2>1 DEF Account!MoveUserToTenant, RowsTyped
  <2> QED
    BY <2>2, <2>3, <2>4
<1> QED
  BY <1>2, <1>3, <1>4, <1>5, <1>6 DEF Writing

LEMMA AccountsStepped ==
  ASSUME AccountInv, [Account!Next]_(Account!vars)
  PROVE  Account!AccountsStep
<1>1. CASE UNCHANGED <<users, tenants>>
  BY <1>1 DEF Account!AccountsStep, Account!Admins, Account!Orphans, Account!Exists
<1>2. ASSUME NEW u \in Users, Account!Register(u) PROVE Account!AccountsStep
  <2>1. /\ ~Account!Exists(u) /\ tenants' = tenants
        /\ users' = [users EXCEPT ![u] = [role |-> "developer", status |-> "active", tenant |-> NoTenant]]
    BY <1>2 DEF Account!Register
  <2>2. /\ users'[u].tenant = NoTenant
        /\ \A v \in Users : v # u => users'[v] = users[v]
    BY <2>1 DEF AccountInv, RowsTyped
  <2>3. Account!Admins \subseteq Account!Admins'
    BY <2>1, <2>2 DEF Account!Admins, Account!Exists
  <2>4. Account!Orphans' \subseteq Account!Orphans
    BY <2>1, <2>2 DEF Account!Orphans, Account!Exists
  <2> QED
    BY <2>3, <2>4 DEF Account!AccountsStep
<1>3. ASSUME NEW by \in Users, NEW t \in Tenants, Account!CreateTenant(by, t) PROVE Account!AccountsStep
  <2>1. users' = users /\ tenants' = [tenants EXCEPT ![t] = "active"]
    BY <1>3 DEF Account!CreateTenant
  <2>2. Account!Admins' = Account!Admins
    BY <2>1 DEF Account!Admins, Account!Exists
  <2>3. ASSUME NEW u \in Users, users[u] # NoUser, users[u].tenant # NoTenant,
               tenants'[users[u].tenant] = "deleted"
        PROVE  tenants[users[u].tenant] = "deleted"
    <3>1. users[u].tenant \in Tenants
      BY <2>3 DEF AccountInv, RowsTyped, Account!Rows
    <3> QED
      BY <2>1, <2>3, <3>1 DEF AccountInv, RowsTyped
  <2>4. Account!Orphans' \subseteq Account!Orphans
    BY <2>1, <2>3 DEF Account!Orphans, Account!Exists
  <2> QED
    BY <2>2, <2>4 DEF Account!AccountsStep
<1>4. ASSUME NEW r \in Requests, Writing(r) PROVE Account!AccountsStep
  <2>1. desk[r].excuse \subseteq Account!Excuses
    BY DEF AccountInv, AccountRequest
  <2>2. CASE desk[r].excuse = {}
    BY <1>4, <2>2, AdminsLeft, NobodyIsOrphaned DEF Account!AccountsStep
  <2>3. CASE desk[r].excuse # {}
    <3>1. Account!Excused(Account!Excuses)
      BY <1>4, <2>1, <2>3, WriterIsExcused
    <3>2. "overlapped" \in desk[r].excuse => Account!Excused({"overlapped"})
      BY <1>4, WriterIsExcused
    <3> QED
      BY <1>4, <3>1, <3>2, NobodyIsOrphaned DEF Account!AccountsStep
  <2> QED
    BY <2>2, <2>3
<1>5. ASSUME NEW r \in Requests, NEW by \in Users, NEW u \in Users, UserReading(r, by, u)
      PROVE  UNCHANGED <<users, tenants>>
  BY <1>5 DEF UserReading, Account!CreateUser, Account!UpdateUser, Account!DisableUser,
              Account!EnableUser, Account!ResetPassword, Account!RemoveTenantMember,
              Account!AddTenantMember, Account!Reads, Account!rows
<1>6. ASSUME NEW r \in Requests, NEW by \in Users, NEW t \in Tenants, TenantReading(r, by, t)
      PROVE  UNCHANGED <<users, tenants>>
  BY <1>6 DEF TenantReading, Account!UpdateTenant, Account!DeleteTenant, Account!Reads, Account!rows
<1>7. ASSUME NEW r \in Requests, Account!CountAdmins(r) PROVE UNCHANGED <<users, tenants>>
  BY <1>7 DEF Account!CountAdmins, Account!rows
<1> QED
  BY <1>1, <1>2, <1>3, <1>4, <1>5, <1>6, <1>7, AccountActions, CredentialsInv

LEMMA AccountsHold == Spec => [](part = "access" => AccountInv)
<1>1. Init => (part = "access" => AccountInv)
  BY AccountInit DEF Init
<1>2. (part = "access" => AccountInv) /\ [Next]_vars => (part = "access" => AccountInv)'
  BY AccountSteps, AccountNext, PartStays
<1> QED
  BY <1>1, <1>2, PTL DEF Spec

(* An installation keeps an active administrator, and nobody is left in a  *)
(* tenant that is deleted, but by a request that was overtaken, by a       *)
(* caller who is no administrator any more, or by one that could not count *)
(* them (api/admin.go, repo/tenant.go).                                    *)
THEOREM AdminsKept == Spec => AccountsSound
<1>1. (part = "access" => AccountInv) /\ [Next]_vars => [part = "access" => Account!AccountsStep]_vars
  BY AccountSteps, AccountsStepped
<1> QED
  BY AccountsHold, <1>1, PTL DEF Spec, AccountsSound

-----------------------------------------------------------------------------
(* The types of all nine *)

(* Whichever component runs, and whatever it does: its state keeps to the  *)
(* types its module names.  Above those of the variables themselves, that  *)
(* a chunk is shorter than twice the target for any text, that a run stays *)
(* within its list, and that a start is at a step there is.                *)
THEOREM TypesHold == Spec => []TypesOK
<1>1. (part = "approvals" => ApprovalInv) => (part = "approvals" => Approval!TypeOK)
  BY DEF ApprovalInv
<1>2. (part = "worktrees" => WorktreeInv) => (part = "worktrees" => Worktree!TypeOK)
  BY DEF WorktreeInv
<1>3. (part = "evaluation" => EvalInv /\ EvalBounded) => (part = "evaluation" => Eval!TypeOK)
  BY EvalTypes
<1>4. (part = "promptiter" => PromptInv) => (part = "promptiter" => Prompt!TypeOK)
  BY DEF PromptInv
<1>5. (part = "knowledge" => KnowledgeInv) => (part = "knowledge" => KBase!TypeOK)
  BY KnowledgeTypes
<1>6. (part = "skills" => SkillInv) => (part = "skills" => Skill!TypeOK)
  BY SkillTyped
<1>7. (part = "access" => AccountInv) => (part = "access" => Account!TypeOK)
  BY AccountTyped
<1>8. (part = "migrations" => SchemaInv) => (part = "migrations" => Schema!TypeOK)
  BY SchemaSound
<1>9. (part = "models" => ModelInv) => (part = "models" => Model!TypeOK)
  BY ModelTyped
<1> QED
  BY ApprovalsHold, WorktreesHold, EvaluationHolds, PromptsHold, KnowledgeHolds, SkillsHold, AccountsHold,
     SchemasHold, ModelsHold, <1>1, <1>2, <1>3, <1>4, <1>5, <1>6, <1>7, <1>8, <1>9, PTL DEF TypesOK
=============================================================================
