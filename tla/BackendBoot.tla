----------------------------- MODULE BackendBoot -----------------------------
(***************************************************************************)
(* How processes of the backend come up over one data directory: the first  *)
(* accounts (bootstrap_env_credentials, and setup_admin once a process      *)
(* serves), the key of the credential vault (ensure_credential_vault) and   *)
(* what it encrypts: the credential of the saved router, and the key of an  *)
(* AI provider, which is enabled.                                           *)
(*                                                                         *)
(* Several processes may boot together, and each may die between any two    *)
(* statements or system calls.  The settings are those of one installation  *)
(* and stay as they are; a statement of the database takes effect as a      *)
(* whole.                                                                   *)
(***************************************************************************)
EXTENDS FiniteSets

CONSTANTS
    Processes,  \* processes of the backend
    Keys,       \* keys Fernet.generate_key may return
    Configured  \* the key AUTH_VAULT_KEY gives, or SECRET_KEY

VARIABLES
    settings,   \* where the vault's key comes from, and the accounts configured
    users,      \* rows of app_users
    keyFile,    \* vault.key
    credential, \* credential[s]: what is stored of the secret s
    process,    \* process[p]: the statement p is at, and its key
    died,       \* history: a process died between the two accounts it seeds
    replaced    \* history: SECRET_KEY took the place of a lost key

bootVars == <<settings, users, keyFile, credential, process, died, replaced>>

Secrets == {"router", "provider"}
NoKey == "no key"
VaultKeys == Keys \cup {Configured}

User(role, by) == [role |-> role, by |-> by]
By == Processes \cup {"environment"}

NoFile == [is |-> "absent", key |-> NoKey]
EmptyFile == [is |-> "empty", key |-> NoKey]
TornFile == [is |-> "torn", key |-> NoKey]
KeyFile(key) == [is |-> "whole", key |-> key]

NoCredential == [is |-> "none", key |-> NoKey]
Plain == [is |-> "plain", key |-> NoKey]
Encrypted(key) == [is |-> "encrypted", key |-> key]

Off == [at |-> "off", key |-> NoKey]
At(at, key) == [at |-> at, key |-> key]

Settings == [vault : {"explicit", "derived", "generated"}, admin : BOOLEAN, readonly : BOOLEAN]

BootTypeOK ==
    /\ settings \in Settings
    /\ users \subseteq [role : {"admin", "readonly"}, by : By]
    /\ keyFile \in {NoFile, EmptyFile, TornFile} \cup {KeyFile(key) : key \in VaultKeys}
    /\ credential \in [Secrets ->
          {NoCredential, Plain} \cup {Encrypted(key) : key \in VaultKeys}]
    /\ process \in [Processes -> [key : VaultKeys \cup {NoKey},
          at : {"off", "seed", "admin", "readonly", "key", "check", "create", "write", "reread",
                "migrate", "providers", "up", "setup"}]]
    /\ died \in BOOLEAN /\ replaced \in BOOLEAN

Goes(p, at, key) == process' = [process EXCEPT ![p] = At(at, key)]

-----------------------------------------------------------------------------
(* Accounts.                                                               *)

Boot(p) ==
    /\ process[p] = Off
    /\ Goes(p, "seed", NoKey)
    /\ UNCHANGED <<settings, users, keyFile, credential, died, replaced>>

CheckUsers(p) ==
    /\ process[p].at = "seed"
    /\ Goes(p, IF users = {} /\ settings.admin THEN "admin" ELSE "key", NoKey)
    /\ UNCHANGED <<settings, users, keyFile, credential, died, replaced>>

HasAdmin == \E user \in users : user.role = "admin"

\* A unique index admits one administrator: who comes second seeds nothing.
SeedAdmin(p) ==
    /\ process[p].at = "admin"
    /\ users' = IF HasAdmin THEN users ELSE users \cup {User("admin", "environment")}
    /\ Goes(p, IF ~ HasAdmin /\ settings.readonly THEN "readonly" ELSE "key", NoKey)
    /\ UNCHANGED <<settings, keyFile, credential, died, replaced>>

SeedReadonly(p) ==
    /\ process[p].at = "readonly"
    /\ users' = users \cup {User("readonly", "environment")}
    /\ Goes(p, "key", NoKey)
    /\ UNCHANGED <<settings, keyFile, credential, died, replaced>>

\* setup_admin asks whether there is a user, hashes the password and inserts.
AskSetup(p) ==
    /\ process[p].at = "up" /\ users = {}
    /\ Goes(p, "setup", process[p].key)
    /\ UNCHANGED <<settings, users, keyFile, credential, died, replaced>>

MayInsert == users = {}

InsertAdmin(p) ==
    /\ process[p].at = "setup"
    /\ users' = IF MayInsert THEN users \cup {User("admin", p)} ELSE users
    /\ Goes(p, "up", process[p].key)
    /\ UNCHANGED <<settings, keyFile, credential, died, replaced>>

-----------------------------------------------------------------------------
(* The vault's key.                                                        *)

\* The configured key, or that of the file, whatever encrypted what is stored;
\* a file that holds no key ends the boot.
ReadKey(p) ==
    /\ process[p].at = "key"
    /\ IF settings.vault = "explicit" THEN Goes(p, "migrate", Configured)
       ELSE IF keyFile.is = "whole" THEN Goes(p, "migrate", keyFile.key)
       ELSE IF keyFile.is = "torn" THEN process' = [process EXCEPT ![p] = Off]
       ELSE IF settings.vault = "derived" THEN Goes(p, "create", Configured)
       ELSE Goes(p, "check", NoKey)
    /\ UNCHANGED <<settings, users, keyFile, credential, died, replaced>>

InUse == {keyFile.key} \cup {credential[s].key : s \in Secrets}
         \cup {process[p].key : p \in Processes}

\* No new key, if a router's credential is encrypted with one that is gone
\* (has_encrypted_credentials); the keys of providers are not looked at.
Locked == credential["router"].is = "encrypted"

Generate(p) ==
    /\ process[p].at = "check"
    /\ IF Locked THEN process' = [process EXCEPT ![p] = Off]
       ELSE \E key \in Keys \ InUse : Goes(p, "create", key)
    /\ UNCHANGED <<settings, users, keyFile, credential, died, replaced>>

\* The file is created, empty, by one process only.
CreateFile(p) ==
    /\ process[p].at = "create"
    /\ keyFile' = IF keyFile = NoFile THEN EmptyFile ELSE keyFile
    /\ Goes(p, IF keyFile = NoFile THEN "write" ELSE "reread", process[p].key)
    /\ UNCHANGED <<settings, users, credential, died, replaced>>

WriteFile(p) ==
    /\ process[p].at = "write"
    /\ keyFile' = KeyFile(process[p].key)
    /\ Goes(p, "migrate", process[p].key)
    /\ UNCHANGED <<settings, users, credential, died, replaced>>

\* The file of another process counts, once it is written; before, the boot
\* ends.
InEffect(p) == keyFile.key

MutantNoKeyYet == FALSE
NoKeyYet == keyFile.is # "whole"

Reread(p) ==
    /\ process[p].at = "reread"
    /\ IF NoKeyYet THEN process' = [process EXCEPT ![p] = Off]
       ELSE Goes(p, "migrate", InEffect(p))
    /\ UNCHANGED <<settings, users, keyFile, credential, died, replaced>>

\* migrate_vault.
Migrate(p) ==
    /\ process[p].at = "migrate"
    /\ credential' = [credential EXCEPT !["router"] =
                          IF @ = Plain THEN Encrypted(process[p].key) ELSE @]
    /\ Goes(p, "providers", process[p].key)
    /\ UNCHANGED <<settings, users, keyFile, died, replaced>>

Readable(p, s) == credential[s].is = "encrypted" => credential[s].key = process[p].key

\* The providers are built with their keys: one that cannot be read ends the
\* boot, and so does it every boot after.
LoadProviders(p) ==
    /\ process[p].at = "providers"
    /\ IF Readable(p, "provider") THEN Goes(p, "up", process[p].key)
       ELSE process' = [process EXCEPT ![p] = Off]
    /\ UNCHANGED <<settings, users, keyFile, credential, died, replaced>>

\* An administrator saves a router or a provider, or removes it.
SaveCredential(p, s) ==
    /\ process[p].at = "up"
    /\ \E new \in {Encrypted(process[p].key), NoCredential} :
          credential' = [credential EXCEPT ![s] = new]
    /\ UNCHANGED <<settings, users, keyFile, process, died, replaced>>

-----------------------------------------------------------------------------
(* Failures.                                                               *)

Die(p) ==
    /\ process[p] # Off
    /\ process' = [process EXCEPT ![p] = Off]
    /\ died' = (died \/ process[p].at = "readonly")
    /\ keyFile' \in {keyFile} \cup (IF process[p].at = "write" THEN {TornFile} ELSE {})
    /\ UNCHANGED <<settings, users, credential, replaced>>

\* The key file is lost, or taken away because it holds no key, while nothing
\* runs: a database restored without it, a volume that was not kept.
LoseFile ==
    /\ \A p \in Processes : process[p] = Off
    /\ keyFile # NoFile
    /\ keyFile' = NoFile
    /\ replaced' = (replaced \/ (settings.vault = "derived" /\ keyFile.key \in Keys))
    /\ UNCHANGED <<settings, users, credential, process, died>>

OfRouter(router) == [s \in Secrets |-> IF s = "router" THEN router ELSE NoCredential]

\* An installation may be new, or one of before the vault, with its credential
\* in plain text, or have a key already: the configured one, or one that was
\* generated before SECRET_KEY was set.
BootInit ==
    /\ settings \in Settings
    /\ users = {}
    /\ process = [p \in Processes |-> Off]
    /\ died = FALSE /\ replaced = FALSE
    /\ \/ /\ keyFile = NoFile
          /\ \E router \in {NoCredential, Plain} : credential = OfRouter(router)
       \/ \E key \in (IF settings.vault = "generated" THEN {} ELSE {Configured})
                     \cup (IF settings.vault = "explicit" THEN {} ELSE Keys) :
             /\ keyFile = IF settings.vault = "explicit" THEN NoFile ELSE KeyFile(key)
             /\ credential = OfRouter(Encrypted(key))

BootNext ==
    \/ \E p \in Processes :
          \/ Boot(p) \/ CheckUsers(p) \/ SeedAdmin(p) \/ SeedReadonly(p)
          \/ ReadKey(p) \/ Generate(p) \/ CreateFile(p) \/ WriteFile(p) \/ Reread(p)
          \/ Migrate(p) \/ LoadProviders(p) \/ AskSetup(p) \/ InsertAdmin(p) \/ Die(p)
          \/ \E s \in Secrets : SaveCredential(p, s)
    \/ LoseFile

-----------------------------------------------------------------------------
(* Properties.                                                             *)

\* A process that serves can read the credential of the router and the key of
\* the provider, whichever process encrypted them, however boots raced and died
\* (_persist_vault_key: "on a concurrent-boot race the already-written key
\* wins"; ensure_credential_vault: "so restarts decrypt existing ciphertext"):
\* unless the file with the key was lost and SECRET_KEY gives another, which is
\* taken with no look at what is encrypted.
CredentialIsReadable ==
    ~ replaced => \A p \in Processes, s \in Secrets :
                      process[p].at \in {"up", "setup"} => Readable(p, s)

\* There is one administrator at most, of the environment or of the setup page
\* (insert_admin: "exactly one concurrent caller succeeds"), and once nobody is
\* seeding, the readonly account that is configured is beside the administrator
\* of the environment, unless a process died between the two.
AccountsAreSeeded ==
    /\ \A u, v \in users : u.role = "admin" /\ v.role = "admin" => u = v
    /\ User("readonly", "environment") \in users => User("admin", "environment") \in users
    /\ (settings.admin /\ settings.readonly /\ users # {} /\ ~ died
            /\ \A p \in Processes : process[p].at # "readonly")
          => users = {User("admin", "environment"), User("readonly", "environment")}

\* The two together: however processes boot beside each other, die and boot
\* again, those that serve can use what is stored and the accounts are those of
\* one boot.
BootKeepsAccess == CredentialIsReadable /\ AccountsAreSeeded
=============================================================================
