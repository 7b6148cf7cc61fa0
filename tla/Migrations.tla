----------------------------- MODULE Migrations -----------------------------
(***************************************************************************)
(* What a server does to its database before it serves (repo/migrate.go,   *)
(* repo/db.go): it runs, in order, the migrations that the table of        *)
(* versions does not have yet and records each after it, then adds the     *)
(* permissions that are missing.  There are no transactions around it: a   *)
(* migration a crash has cut short is run again.  Several nodes may start  *)
(* on one database.                                                        *)
(*                                                                         *)
(* The migrations that only add tables and columns (0005 to 0012 and 0014) *)
(* are one, "tables"; the two columns of secrets, which are treated alike, *)
(* are one; a legacy value is one that can be parsed or one that cannot.   *)
(***************************************************************************)
EXTENDS Naturals, FiniteSets, FiniteSetsExt

CONSTANTS
  Starters,     \* processes that start on the database
  Servers,      \* rows of mcp_servers, with their secrets
  Permissions,  \* that the roles declare
  MaxCrashes

VARIABLES
  applied,  \* schema_migrations
  keyIndex, \* whether sessions has the index of old on the key alone
  nameIndex,\* idx_user_mcp: on the "name", on the "pair" of user and name, or "none"
  column,   \* whether the column of plain secrets is there
  plain, sealed,  \* per row: the plain value, and whether there is a sealed one
  legacy,   \* the plain values there were
  granted,  \* permissions in the database
  boot,     \* per process: where it is in NewDB
  crashes

table == <<applied, granted>>
secrets == <<column, plain, sealed, legacy>>
vars == <<table, keyIndex, nameIndex, secrets, boot, crashes>>

Baseline == 1
KeyIndex == 2
Encrypt == 3
DropPlain == 4
Tables == 5
NameIndex == 6
Versions == Baseline .. NameIndex

Values == {"none", "json", "broken"}
Down == [at |-> "down", todo |-> {}, rows |-> <<>>, key |-> FALSE]

TypeOK ==
  /\ applied \subseteq Versions /\ granted \subseteq Permissions
  /\ keyIndex \in BOOLEAN /\ nameIndex \in {"none", "name", "pair"}
  /\ column \in BOOLEAN /\ plain \in [Servers -> Values] /\ sealed \in [Servers -> BOOLEAN]
  /\ \A n \in Starters :
       /\ boot[n].at \in {"down", "migrating", "sealing", "dropping", "indexing", "creating",
                          "recording", "seeding", "serving"}
       /\ boot[n].todo \subseteq Versions /\ DOMAIN boot[n].rows \subseteq Servers

(* A new database, one from before there were migrations, or one that was  *)
(* last migrated before the sixth of these.                                *)
Init ==
  /\ \/ /\ applied = {} /\ keyIndex = FALSE /\ nameIndex = "none" /\ column = FALSE
        /\ plain = [w \in Servers |-> "none"] /\ sealed = [w \in Servers |-> FALSE]
        /\ granted = {}
     \/ /\ applied = {} /\ keyIndex = TRUE /\ nameIndex = "name" /\ column = TRUE
        /\ plain \in [Servers -> Values] /\ sealed = [w \in Servers |-> FALSE]
        /\ granted \in SUBSET Permissions
     \/ /\ applied = Versions \ {NameIndex} /\ keyIndex = FALSE /\ nameIndex = "name" /\ column = FALSE
        /\ plain = [w \in Servers |-> "none"] /\ sealed = [w \in Servers |-> TRUE]
        /\ granted \in SUBSET Permissions
  /\ legacy = plain
  /\ boot = [n \in Starters |-> Down]
  /\ crashes = 0

-----------------------------------------------------------------------------
To(n, at) == boot' = [boot EXCEPT ![n].at = at]
Fails(n) == boot' = [boot EXCEPT ![n] = Down]

(* The versions are read once, and the key is there or not.                *)
appliedVersions(n, key) ==
  /\ boot[n] = Down
  /\ boot' = [boot EXCEPT ![n] = [at |-> "migrating", todo |-> Versions \ applied, rows |-> <<>>, key |-> key]]
  /\ UNCHANGED <<table, keyIndex, nameIndex, secrets, crashes>>

Up(n, version) == boot[n].at = "migrating" /\ boot[n].todo # {} /\ Min(boot[n].todo) = version

(* AutoMigrate adds what is missing and goes by the name of an index.      *)
baselineSchema(n) ==
  /\ Up(n, Baseline) /\ To(n, "recording")
  /\ nameIndex' = IF nameIndex = "none" THEN "pair" ELSE nameIndex
  /\ UNCHANGED <<table, keyIndex, secrets, crashes>>

migrateCompositeSessionKey(n) ==
  /\ Up(n, KeyIndex) /\ To(n, "recording")
  /\ keyIndex' = FALSE
  /\ UNCHANGED <<table, nameIndex, secrets, crashes>>

Plaintext == {w \in Servers : plain[w] # "none"}

(* Without a key there is no start as long as there is something to seal.  *)
migrateMCPSecretEncryption(n) ==
  /\ Up(n, Encrypt)
  /\ boot' = IF ~column \/ Plaintext = {} THEN [boot EXCEPT ![n].at = "recording"]
             ELSE IF ~boot[n].key THEN [boot EXCEPT ![n] = Down]
             ELSE [boot EXCEPT ![n].at = "sealing",
                               ![n].rows = [w \in Plaintext |-> [plain |-> plain[w], sealed |-> sealed[w]]]]
  /\ UNCHANGED <<table, keyIndex, nameIndex, secrets, crashes>>

(* One statement for a row: what could not be parsed is gone.              *)
SealSecrets(n, w) ==
  /\ boot[n].at = "sealing" /\ w \in DOMAIN boot[n].rows
  /\ LET row == boot[n].rows[w]
         rest == DOMAIN boot[n].rows \ {w}
     IN IF column
          THEN /\ sealed' = [sealed EXCEPT ![w] = row.sealed \/ row.plain = "json"]
               /\ plain' = [plain EXCEPT ![w] = "none"]
               /\ boot' = [boot EXCEPT ![n].rows = [x \in rest |-> boot[n].rows[x]],
                                       ![n].at = IF rest = {} THEN "recording" ELSE @]
          ELSE Fails(n) /\ UNCHANGED <<sealed, plain>>
  /\ UNCHANGED <<table, keyIndex, nameIndex, column, legacy, crashes>>

dropLegacyMCPPlaintextColumns(n) ==
  /\ Up(n, DropPlain)
  /\ IF column /\ Plaintext # {} THEN Fails(n) ELSE To(n, IF column THEN "dropping" ELSE "recording")
  /\ UNCHANGED <<table, keyIndex, nameIndex, secrets, crashes>>

DropColumn(n) ==
  /\ boot[n].at = "dropping"
  /\ IF column THEN To(n, "recording") ELSE Fails(n)
  /\ column' = FALSE /\ plain' = [w \in Servers |-> "none"]
  /\ UNCHANGED <<table, keyIndex, nameIndex, sealed, legacy, crashes>>

addTables(n) ==
  /\ Up(n, Tables) /\ To(n, "recording")
  /\ UNCHANGED <<table, keyIndex, nameIndex, secrets, crashes>>

migrateMCPCompositeNameUnique(n) ==
  /\ Up(n, NameIndex) /\ To(n, IF nameIndex = "name" THEN "indexing" ELSE "recording")
  /\ UNCHANGED <<table, keyIndex, nameIndex, secrets, crashes>>

DropIndex(n) ==
  /\ boot[n].at = "indexing" /\ To(n, "creating")
  /\ nameIndex' = "none"
  /\ UNCHANGED <<table, keyIndex, secrets, crashes>>

CreateIndex(n) ==
  /\ boot[n].at = "creating" /\ To(n, "recording")
  /\ nameIndex' = IF nameIndex = "none" THEN "pair" ELSE nameIndex
  /\ UNCHANGED <<table, keyIndex, secrets, crashes>>

(* Fault variant: a migration is recorded when it has begun.               *)
RecordBegun(n) ==
  /\ boot[n].at \in {"recording", "sealing"} /\ boot[n].todo # {} /\ Min(boot[n].todo) \notin applied
  /\ applied' = applied \cup {Min(boot[n].todo)}
  /\ boot' = IF boot[n].at = "sealing" THEN boot
             ELSE [boot EXCEPT ![n].at = "migrating", ![n].todo = @ \ {Min(@)}]
  /\ UNCHANGED <<granted, keyIndex, nameIndex, secrets, crashes>>

(* The version is a key: the second to record it fails to start.           *)
Record(n) ==
  /\ boot[n].at = "recording"
  /\ applied' = applied \cup {Min(boot[n].todo)}
  /\ IF Min(boot[n].todo) \in applied THEN Fails(n)
     ELSE boot' = [boot EXCEPT ![n].at = "migrating", ![n].todo = @ \ {Min(@)}]
  /\ UNCHANGED <<granted, keyIndex, nameIndex, secrets, crashes>>

RunMigrations(n) ==
  /\ boot[n].at = "migrating" /\ boot[n].todo = {} /\ To(n, "seeding")
  /\ UNCHANGED <<table, keyIndex, nameIndex, secrets, crashes>>

seedRoles(n) ==
  /\ boot[n].at = "seeding"
  /\ \/ \E p \in Permissions \ granted : granted' = granted \cup {p} /\ UNCHANGED boot
     \/ granted = Permissions /\ To(n, "serving") /\ UNCHANGED granted
  /\ UNCHANGED <<applied, keyIndex, nameIndex, secrets, crashes>>

Crash(n) ==
  /\ boot[n] # Down /\ crashes < MaxCrashes
  /\ crashes' = crashes + 1
  /\ Fails(n)
  /\ UNCHANGED <<table, keyIndex, nameIndex, secrets>>

Next == \E n \in Starters :
  \/ \E key \in BOOLEAN : appliedVersions(n, key)
  \/ baselineSchema(n) \/ migrateCompositeSessionKey(n) \/ migrateMCPSecretEncryption(n)
  \/ \E w \in Servers : SealSecrets(n, w)
  \/ dropLegacyMCPPlaintextColumns(n) \/ DropColumn(n) \/ addTables(n)
  \/ migrateMCPCompositeNameUnique(n) \/ DropIndex(n) \/ CreateIndex(n)
  \/ Record(n) \/ RunMigrations(n) \/ seedRoles(n) \/ Crash(n)

Spec == Init /\ [][Next]_vars

-----------------------------------------------------------------------------
(* repo/db.go: the plain secrets are dropped only "after 0003 has dealt     *)
(* with them".  Wherever nodes crash and however their starts overlap, a    *)
(* secret that can be parsed is either still there in plain or sealed, a    *)
(* version that is recorded has done its work for good, and a server serves *)
(* on nothing less than the whole schema.                                   *)
SecretsKept ==
  /\ \A w \in Servers : legacy[w] = "json" => sealed[w] \/ (column /\ plain[w] = "json")
  /\ KeyIndex \in applied => ~keyIndex
  /\ Encrypt \in applied => Plaintext = {}
  /\ DropPlain \in applied => ~column
  /\ \A n \in Starters : boot[n].at = "serving" => applied = Versions /\ granted = Permissions

(* repo/migrate.go: one that fails midway "is run again at the next start,  *)
(* safe because it is idempotent": when 0013 is recorded, the names of a    *)
(* user are unique.                                                         *)
NamesUnique == NameIndex \in applied => nameIndex = "pair"
=============================================================================
