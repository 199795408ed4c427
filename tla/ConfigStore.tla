------------------------------ MODULE ConfigStore ------------------------------
(***************************************************************************)
(* The stored configuration (configstore/store.go), the settings handlers  *)
(* that change it (handler/settings.go), the users that are kept in it     *)
(* (rbac/rbac.go, main.go) and the hot reload (main.go OnReload).          *)
(*                                                                         *)
(* Every change copies the configuration (Get), edits the copy, puts it in *)
(* place (Update), takes a snapshot, writes it to a temporary file and     *)
(* renames that (Save), and reloads the running parts.  The store's lock   *)
(* is held for each of these steps, not across them.                       *)
(*                                                                         *)
(* serial, acked, unsaved, unapplied, usersImported and pruneAsked are     *)
(* history variables: whether requests that change the store have been one *)
(* at a time since the start, the configuration the last successful answer *)
(* promised, whether the last save failed, whether a change was put in     *)
(* place and not reloaded, whether the users are those of an import, and   *)
(* whether anybody asked for services to be pruned for real.               *)
(***************************************************************************)
EXTENDS EnvConfig

CONSTANTS
  Envs,           \* environments the bridge may be started in
  Editors,        \* requests under way at a time
  Edits,          \* what they may ask for
  AccountNames,   \* names of users other than the primary admin
  NoConfig,       \* no configuration file
  Mask,           \* "***"
  FirstMinted,    \* generated keys are FirstMinted, FirstMinted + 1, ...
  MaxEdits,       \* bound: requests, one at a time
  MaxOverlapping, \* bound: requests that may overlap
  MaxCrashes      \* bound: crashes

Options == [addr : Int, force : BOOLEAN, secret : Int, dry : DrySettings \cup {"unset"}]
Target == [id : Int, source : Int, host : HostValues, keys : Seq(Int)]
StoredConfig == [opts : Options, targets : Seq(Target), users : [AccountNames -> Int]]

(* Requests of the settings handlers and of the user administration.  The  *)
(* password 0 stands for no user of that name.                             *)
EditRequests ==
  [do : {"patch"}, valid : BOOLEAN, addr : Int, force : BOOLEAN, secret : Int,
   dry : DrySettings \cup {"unset"}]
    \cup [do : {"add"}, target : Target] \cup [do : {"drop", "mint"}, id : Int]
    \cup [do : {"unkey"}, id : Int, index : Nat \ {0}] \cup [do : {"import"}, masked : BOOLEAN]
    \cup [do : {"account"}, name : AccountNames, pass : Int]

ASSUME ConfigAssumption ==
  /\ {FirstMinted, MaxEdits, MaxOverlapping, MaxCrashes} \subseteq Nat /\ Mask \in Int
  /\ Envs \subseteq Environments /\ Edits \subseteq EditRequests
  /\ NoConfig \notin StoredConfig

VARIABLES
  env,            \* the environment
  proc,           \* "down", "up" or "exited"
  disk,           \* the configuration file
  mem,            \* Store.current
  running,        \* the configuration in the running parts: [front, back]
  accounts,       \* rbac.Manager.users without the primary admin
  backup,         \* the last exported configuration
  req,            \* requests: [at, edit, draft, snap, conv]
  minted,         \* keys generated so far
  edits, crashes,
  serial, acked, unsaved, unapplied, usersImported, pruneAsked

(* What the steps of a request leave alone once it has begun.              *)
aside == <<env, proc, backup, minted, edits, crashes, serial, pruneAsked>>
storeVars == <<aside, disk, mem, running, accounts, req, acked, unsaved, unapplied, usersImported>>

NoUsers == [n \in AccountNames |-> 0]
Blank == [opts |-> [addr |-> 0, force |-> FALSE, secret |-> 0, dry |-> "unset"],
          targets |-> <<>>, users |-> NoUsers]
-----------------------------------------------------------------------------
(* The members of a finite set of numbers in ascending order: the nth is   *)
(* the one with n - 1 smaller ones.                                        *)
Sorted(S) ==
  [n \in 1..Cardinality(S) |-> CHOOSE x \in S : Cardinality({y \in S : y < x}) = n - 1]

(* MigrateFromEnv: targets sorted by id, each with its keys sorted.        *)
KeysOf(l, id) == {k \in DOMAIN l.routes : l.routes[k].target = id}
StoredTarget(l, id) ==
  [id |-> id, source |-> l.targets[id].source, host |-> l.targets[id].host,
   keys |-> Sorted(KeysOf(l, id))]
MigrateFromEnv(l) ==
  [opts |-> l.opts, users |-> NoUsers,
   targets |-> [i \in 1..Cardinality(DOMAIN l.targets) |->
                  StoredTarget(l, Sorted(DOMAIN l.targets)[i])]]

(* ToConfig: of two targets with the same key the later one gets it; an    *)
(* absent dry-run setting means a dry run.                                 *)
Named(targets, id) == targets[Latest({i \in DOMAIN targets : targets[i].id = id})]
Holder(targets, k) == targets[Latest({i \in DOMAIN targets : k \in Range(targets[i].keys)})]
Converted(targets, opts) ==
  LET ids == {targets[i].id : i \in DOMAIN targets}
      keys == UNION {Range(targets[i].keys) : i \in DOMAIN targets}
  IN  [targets |-> [id \in ids |-> [source |-> Named(targets, id).source,
                                    host |-> Named(targets, id).host]],
       routes |-> [k \in keys |-> [source |-> Holder(targets, k).source,
                                   target |-> Holder(targets, k).id]],
       default |-> IF ids = {} THEN 0 ELSE Lowest(ids),
       opts |-> [opts EXCEPT !.dry = IF @ = "unset" THEN "dry" ELSE @]]
ToConfig(sc) == Converted(sc.targets, sc.opts)

NoRequest == [at |-> "idle", edit |-> [do |-> "none"],
              draft |-> Blank, snap |-> Blank, conv |-> ToConfig(Blank)]

(* maskConfig.                                                             *)
Masked(t) == [t EXCEPT !.keys = [j \in DOMAIN @ |-> Mask]]
MaskConfig(sc) ==
  [sc EXCEPT !.opts.secret = IF @ = 0 THEN 0 ELSE Mask,
             !.targets = [i \in DOMAIN @ |-> Masked(@[i])]]
-----------------------------------------------------------------------------
(* The handlers return the configurations they may go on with: one, or     *)
(* none when they refuse.  sc is the copy they got from the store, fresh   *)
(* the key generateAPIKey returns.                                         *)

\* Faulty variant: the dry-run setting is applied like the other booleans.
PatchDirectly(e, sc) ==
  IF ~e.valid THEN {} ELSE
  {[sc EXCEPT !.opts = [addr |-> IF e.addr = 0 THEN sc.opts.addr ELSE e.addr,
                        force |-> e.force,
                        secret |-> IF e.secret \in {0, Mask} THEN sc.opts.secret ELSE e.secret,
                        dry |-> IF e.dry = "dry" THEN "dry" ELSE "delete"]]}

(* Text and numbers when given, a secret unless masked, booleans always,   *)
(* the dry-run setting when given.                                         *)
PatchSettings(e, sc) ==
  IF ~e.valid THEN {} ELSE
  {[sc EXCEPT !.opts = [addr |-> IF e.addr = 0 THEN sc.opts.addr ELSE e.addr,
                        force |-> e.force,
                        secret |-> IF e.secret \in {0, Mask} THEN sc.opts.secret ELSE e.secret,
                        dry |-> IF e.dry = "unset" THEN sc.opts.dry ELSE e.dry]]}

Places(sc, id) == {i \in DOMAIN sc.targets : sc.targets[i].id = id}

(* A target needs a host name (in valid characters) and a new id; without  *)
(* keys it gets one.                                                       *)
AddTarget(e, sc, fresh) ==
  IF e.target.host = NoHost \/ Places(sc, e.target.id) # {} THEN {} ELSE
  {[sc EXCEPT !.targets =
      Append(@, [e.target EXCEPT !.keys = IF @ = <<>> THEN <<fresh>> ELSE @])]}

(* The targets of other ids remain, in their order.                        *)
DeleteTarget(e, sc) ==
  LET kept == DOMAIN sc.targets \ Places(sc, e.id)
  IN  IF Places(sc, e.id) = {} THEN {} ELSE
      {[sc EXCEPT !.targets = [n \in 1..Cardinality(kept) |-> sc.targets[Sorted(kept)[n]]]]}

(* Keys are deleted by their place in the list.                            *)
WithoutKey(keys, n) == SubSeq(keys, 1, n - 1) \o SubSeq(keys, n + 1, Len(keys))
DeleteKey(e, sc) ==
  {[sc EXCEPT !.targets[i].keys = WithoutKey(@, e.index)] :
      i \in {p \in Places(sc, e.id) : e.index <= Len(sc.targets[p].keys)}}

GenerateKey(e, sc, fresh) ==
  {[sc EXCEPT !.targets[i].keys = Append(@, fresh)] : i \in Places(sc, e.id)}

\* Faulty variant: the last key of a target is not restored.
StoredKeysButLast(sc, id, j) ==
  {sc.targets[p].keys[j] : p \in {o \in Places(sc, id) : j < Len(sc.targets[o].keys)}}

(* Masked secrets of an import are taken from the present configuration,   *)
(* keys by their place in the target of the same id.                       *)
StoredKeys(sc, id, j) ==
  {sc.targets[p].keys[j] : p \in {o \in Places(sc, id) : j <= Len(sc.targets[o].keys)}}
Restored(t, sc) ==
  [t EXCEPT !.keys = [j \in DOMAIN @ |->
     IF @[j] = Mask /\ StoredKeys(sc, t.id, j) # {} THEN CHOOSE k \in StoredKeys(sc, t.id, j) : TRUE
     ELSE @[j]]]
RestoreSecrets(file, sc) ==
  [file EXCEPT !.opts.secret = IF @ \in {0, Mask} THEN sc.opts.secret ELSE @,
               !.targets = [i \in DOMAIN @ |-> Restored(@[i], sc)]]

(* An import needs a target, and a host name in each.                      *)
ImportConfig(e, sc) ==
  IF backup = NoConfig THEN {}
  ELSE IF backup.targets = <<>> THEN {}
  ELSE IF \E i \in DOMAIN backup.targets : backup.targets[i].host = NoHost THEN {}
  ELSE {RestoreSecrets(IF e.masked THEN MaskConfig(backup) ELSE backup, sc)}

(* fresh is a key nobody has.                                              *)
Drafts(e, sc, fresh) ==
  CASE e.do = "patch" -> PatchSettings(e, sc)
    [] e.do = "add" -> AddTarget(e, sc, fresh)
    [] e.do = "drop" -> DeleteTarget(e, sc)
    [] e.do = "unkey" -> DeleteKey(e, sc)
    [] e.do = "mint" -> GenerateKey(e, sc, fresh)
    [] e.do = "import" -> ImportConfig(e, sc)
-----------------------------------------------------------------------------
StoreInit ==
  /\ env \in Envs /\ proc = "down"
  /\ disk = NoConfig /\ mem = Blank
  /\ running = [front |-> ToConfig(Blank), back |-> ToConfig(Blank)]
  /\ accounts = NoUsers /\ backup = NoConfig
  /\ req = [q \in Editors |-> NoRequest]
  /\ minted = 0 /\ edits = 0 /\ crashes = 0
  /\ serial = TRUE /\ acked = NoConfig /\ unsaved = FALSE /\ unapplied = FALSE
  /\ usersImported = FALSE /\ pruneAsked = FALSE

Run(sc, c) ==
  /\ proc' = "up" /\ mem' = sc /\ running' = [front |-> c, back |-> c]
  /\ accounts' = sc.users

(* main: with a configuration file the targets of the environment do not   *)
(* matter; the users are restored from it.                                 *)
StartFromFile ==
  /\ proc = "down" /\ disk # NoConfig /\ LoadEnv(env).ok
  /\ Run(disk, ToConfig(disk))
  /\ UNCHANGED <<env, disk, backup, req, minted, edits, crashes, serial, acked, unsaved,
                 unapplied, usersImported, pruneAsked>>

(* main: without a file the environment is stored, and goes on being used  *)
(* until the first reload.                                                 *)
FromEnv(l) == [targets |-> l.targets, routes |-> l.routes, default |-> l.default, opts |-> l.opts]
StartFromEnv ==
  /\ proc = "down" /\ disk = NoConfig /\ LoadEnv(env).ok
  /\ LET l == LoadEnv(env)
     IN  /\ disk' = MigrateFromEnv(l) /\ acked' = disk'
         /\ Run(disk', FromEnv(l))
         /\ pruneAsked' = (env.opts.dry = "delete")
  /\ UNCHANGED <<env, backup, req, minted, edits, crashes, serial, unsaved, unapplied,
                 usersImported>>

(* main exits: the environment is in error, the file cannot be read or     *)
(* decrypted, or the migrated configuration cannot be saved.               *)
StartFails ==
  /\ proc = "down" /\ proc' = "exited"
  /\ UNCHANGED <<env, disk, mem, running, accounts, backup, req, minted, edits, crashes,
                 serial, acked, unsaved, unapplied, usersImported, pruneAsked>>

(* The file has been renamed and the request not been answered.            *)
Renamed(q) == req[q].at \in {"convert", "front", "back", "answer"}

(* The process ends; requests under way are not answered.                  *)
StoreCrash ==
  /\ proc = "up" /\ crashes < MaxCrashes /\ crashes' = crashes + 1
  /\ proc' = "down" /\ req' = [q \in Editors |-> NoRequest]
  /\ acked' = IF serial /\ \A q \in Editors : ~Renamed(q) THEN acked ELSE disk
  /\ serial' = TRUE /\ unsaved' = FALSE /\ unapplied' = FALSE /\ usersImported' = FALSE
  /\ mem' = Blank /\ accounts' = NoUsers
  /\ running' = [front |-> ToConfig(Blank), back |-> ToConfig(Blank)]
  /\ UNCHANGED <<env, disk, backup, minted, edits, pruneAsked>>
-----------------------------------------------------------------------------
Quiet == \A q \in Editors : req[q].at = "idle"
Begin(q) ==
  /\ proc = "up" /\ req[q].at = "idle"
  /\ edits < (IF serial /\ Quiet THEN MaxEdits ELSE MaxOverlapping) /\ edits' = edits + 1
  /\ serial' = (serial /\ Quiet)

(* A settings handler refuses, or goes on with a changed copy of the       *)
(* configuration.                                                          *)
Edit(q, e) ==
  /\ Begin(q) /\ e.do # "account"
  /\ LET drafts == Drafts(e, mem, FirstMinted + minted)
     IN  \/ drafts = {} /\ UNCHANGED <<req, minted>>
         \/ \E d \in drafts :
              /\ req' = [req EXCEPT ![q] =
                            [NoRequest EXCEPT !.at = "update", !.edit = e, !.draft = d]]
              /\ minted' = IF e.do \in {"add", "mint"} THEN minted + 1 ELSE minted
  /\ pruneAsked' = (pruneAsked \/ (e.do = "patch" /\ e.dry = "delete"))
  /\ UNCHANGED <<env, proc, disk, mem, running, accounts, backup, crashes, acked, unsaved,
                 unapplied, usersImported>>

(* Update puts the copy in place of the current configuration.             *)
Update(q) ==
  /\ req[q].at = "update"
  /\ mem' = req[q].draft /\ req' = [req EXCEPT ![q].at = "save"]
  /\ unapplied' = TRUE
  /\ usersImported' = (usersImported \/ req[q].edit.do = "import")
  /\ UNCHANGED <<aside, disk, running, accounts, acked, unsaved>>

(* AddUser and RemoveUser change the users in memory,                      *)
ChangeAccount(q, e) ==
  /\ Begin(q) /\ e.do = "account"
  /\ accounts' = [accounts EXCEPT ![e.name] = e.pass]
  /\ req' = [req EXCEPT ![q] = [NoRequest EXCEPT !.at = "collect", !.edit = e]]
  /\ UNCHANGED <<env, proc, disk, mem, running, backup, minted, crashes, acked, unsaved,
                 unapplied, usersImported, pruneAsked>>

(* onSave then lists them with PersistableUsers                            *)
PersistableUsers(q) ==
  /\ req[q].at = "collect"
  /\ req' = [req EXCEPT ![q].at = "users", ![q].draft.users = accounts]
  /\ UNCHANGED <<aside, disk, mem, running, accounts, acked, unsaved, unapplied, usersImported>>

(* and SetUsers puts the list into the current configuration.              *)
SetUsers(q) ==
  /\ req[q].at = "users"
  /\ mem' = [mem EXCEPT !.users = req[q].draft.users]
  /\ req' = [req EXCEPT ![q].at = "save", ![q].draft = mem']
  /\ usersImported' = FALSE
  /\ UNCHANGED <<aside, disk, running, accounts, acked, unsaved, unapplied>>
-----------------------------------------------------------------------------
(* Save copies the current configuration under the lock,                   *)
Snapshot(q) ==
  /\ req[q].at = "save"
  /\ req' = [req EXCEPT ![q].at = "rename", ![q].snap = mem]
  /\ UNCHANGED <<aside, disk, mem, running, accounts, acked, unsaved, unapplied, usersImported>>

AfterSave(q) == IF req[q].edit.do = "account" THEN "answer" ELSE "convert"

(* encrypts and writes it to a temporary file, and renames that;           *)
RenameConfig(q) ==
  /\ req[q].at = "rename"
  /\ disk' = req[q].snap /\ unsaved' = FALSE
  /\ req' = [req EXCEPT ![q].at = AfterSave(q)]
  /\ UNCHANGED <<aside, mem, running, accounts, acked, unapplied, usersImported>>

\* Faulty variant: the error is logged and the handler goes on.
SaveFailsQuietly(q) ==
  /\ req[q].at = "rename"
  /\ unsaved' = TRUE
  /\ req' = [req EXCEPT ![q].at = AfterSave(q)]
  /\ UNCHANGED <<aside, disk, mem, running, accounts, acked, unapplied, usersImported>>

(* when any of this fails the answer is an error, there is no reload, and  *)
(* the change stays in the current configuration.                          *)
SaveFails(q) ==
  /\ req[q].at = "rename"
  /\ unsaved' = TRUE
  /\ req' = [req EXCEPT ![q] = NoRequest]
  /\ UNCHANGED <<aside, disk, mem, running, accounts, acked, unapplied, usersImported>>

(* reload: convert the current configuration,                              *)
Convert(q) ==
  /\ req[q].at = "convert"
  /\ req' = [req EXCEPT ![q].at = "front", ![q].conv = ToConfig(mem)]
  /\ unapplied' = FALSE
  /\ UNCHANGED <<aside, disk, mem, running, accounts, acked, unsaved, usersImported>>

(* OnReload: keys and targets of the webhook handler, the API client;      *)
(* then the hosts are prepared in Icinga2,                                 *)
ReloadFront(q) ==
  /\ req[q].at = "front"
  /\ running' = [running EXCEPT !.front = req[q].conv]
  /\ req' = [req EXCEPT ![q].at = "back"]
  /\ UNCHANGED <<aside, disk, mem, accounts, acked, unsaved, unapplied, usersImported>>

\* Faulty variant: hosts that cannot be prepared end the reload.
ReloadBackOrNot(q) ==
  /\ req[q].at = "back"
  /\ running' \in {running, [running EXCEPT !.back = req[q].conv]}
  /\ req' = [req EXCEPT ![q].at = "answer"]
  /\ UNCHANGED <<aside, disk, mem, accounts, acked, unsaved, unapplied, usersImported>>

(* and, whether or not that worked, the targets of the other handlers,     *)
(* the history limits and the pruning.                                     *)
ReloadBack(q) ==
  /\ req[q].at = "back"
  /\ running' = [running EXCEPT !.back = req[q].conv]
  /\ req' = [req EXCEPT ![q].at = "answer"]
  /\ UNCHANGED <<aside, disk, mem, accounts, acked, unsaved, unapplied, usersImported>>

Acknowledge(q) ==
  /\ req[q].at = "answer"
  /\ acked' = req[q].draft /\ req' = [req EXCEPT ![q] = NoRequest]
  /\ UNCHANGED <<aside, disk, mem, running, accounts, unsaved, unapplied, usersImported>>

(* HandleExportConfig: a backup of the current configuration, unmasked.    *)
Export ==
  /\ proc = "up" /\ backup # mem /\ backup' = mem
  /\ UNCHANGED <<env, proc, disk, mem, running, accounts, req, minted, edits, crashes, serial,
                 acked, unsaved, unapplied, usersImported, pruneAsked>>

StoreNext ==
  \/ StartFromFile \/ StartFromEnv \/ StartFails \/ StoreCrash \/ Export
  \/ \E q \in Editors :
       \/ \E e \in Edits : Edit(q, e) \/ ChangeAccount(q, e)
       \/ Update(q) \/ PersistableUsers(q) \/ SetUsers(q)
       \/ Snapshot(q) \/ RenameConfig(q) \/ SaveFails(q)
       \/ Convert(q) \/ ReloadFront(q) \/ ReloadBack(q) \/ Acknowledge(q)

StoreSpec == StoreInit /\ [][StoreNext]_storeVars
-----------------------------------------------------------------------------
DistinctIds(sc) ==
  \A i, j \in DOMAIN sc.targets : sc.targets[i].id = sc.targets[j].id => i = j

(* What was answered as done is what a restart finds: while requests come  *)
(* one at a time, the file holds the configuration of the last successful  *)
(* answer, through failed saves and crashes at any step.                   *)
AckedIsStored ==
  serial /\ (\A q \in Editors : ~Renamed(q)) => disk = acked

Routing(c) == [k \in DOMAIN c.routes |-> c.routes[k].target]
SameService(c, d) ==
  /\ Routing(c) = Routing(d)
  /\ c.targets = d.targets /\ c.default = d.default /\ c.opts = d.opts

(* Between requests that came one at a time, with the last save done and   *)
(* every change applied, the file, the current configuration, the running  *)
(* parts and the users in memory agree; the running parts do so from the   *)
(* start, when they run on the environment that was migrated.              *)
RunningMatchesStored ==
  proc = "up" /\ serial /\ Quiet =>
    /\ ~unsaved => mem = disk
    /\ ~unapplied => /\ SameService(running.front, ToConfig(mem))
                     /\ SameService(running.back, ToConfig(mem))
    /\ ~usersImported => accounts = mem.users

(* Services are pruned for real only if somebody asked for that, in the    *)
(* environment or in a settings request: leaving the dry-run setting out   *)
(* never turns deletion on.                                                *)
PruneOnlyIfAsked ==
  running.back.opts.dry = "delete" => pruneAsked

(* A masked copy can be sent back: imported over the configuration it was  *)
(* made from it changes nothing, keys and password included.  Secrets are  *)
(* found back by the target's id, so no two targets may share one.         *)
MaskedCopyIsHarmless ==
  DistinctIds(mem) /\ RestoreSecrets(MaskConfig(mem), mem) = mem
=============================================================================
