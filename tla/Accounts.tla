------------------------------- MODULE Accounts -------------------------------
(***************************************************************************)
(* Dashboard accounts: the RBAC users (rbac/rbac.go), the login sessions   *)
(* (auth/session.go, handler/login.go, handler/session_mw.go) and the      *)
(* checks in front of the admin and settings handlers (handler/admin.go,   *)
(* handler/settings.go, main.go).                                          *)
(*                                                                         *)
(* A request runs through its checks on a goroutine of its own.  Manager   *)
(* locks for single reads and writes only, so users change between them:   *)
(* Authenticate compares, and upgrades a legacy hash, outside the lock it  *)
(* read the user under.  What a change of users does to the stored         *)
(* configuration is the subject of ConfigStore.                            *)
(*                                                                         *)
(* administered, raced, knew and granted are history variables: the users  *)
(* as administrators last set them, users changed while a login with their *)
(* legacy hash was under way, and whether a request's credentials and its  *)
(* permission were good at some time since it arrived.                     *)
(***************************************************************************)
EXTENDS Integers, FiniteSets

CONSTANTS
  Users,            \* names of RBAC users other than the primary admin
  Primary,          \* ADMIN_USER
  Passwords,
  PrimaryPass,      \* ADMIN_PASS
  Dialogs,          \* requests
  Tokens,           \* session tokens
  Legacy,           \* stored users at startup: [name -> [pass, role]], old hashes
  Operations,       \* what a request may ask for, see Needs
  SessionTTL,       \* lifetime of a session
  MaxClock          \* bound: the clock

Roles == {"viewer", "operator", "admin"}
Forms == {"plain", "legacy", "bcrypt"}    \* of a stored password

ASSUME AccountsAssumption ==
  /\ Primary \notin Users /\ PrimaryPass \in Passwords
  /\ DOMAIN Legacy \subseteq Users
  /\ \A n \in DOMAIN Legacy : Legacy[n].pass \in Passwords /\ Legacy[n].role \in Roles
  /\ \A o \in Operations :
       /\ o.do \in {"add", "remove"} => o.name \in Users \cup {Primary}
       /\ o.do = "add" => o.form \in Forms /\ o.pass \in Passwords /\ o.role \in Roles
  /\ SessionTTL \in Nat /\ MaxClock \in Nat

VARIABLES
  users,            \* Manager.users: name -> [form, pass, role]
  sessions,         \* SessionStore.sessions: token -> [name, pass, expiry]
  clock,
  dialog,           \* what each request does next, or its outcome
  creds,            \* its user name and password
  entry,            \* the user Authenticate read for it
  op,               \* what it asks for
  administered, raced, knew, granted

accountVars == <<users, administered, raced>>
dialogVars == <<dialog, creds, entry, op, knew, granted>>
accessVars == <<accountVars, sessions, clock, dialogVars>>

NoCreds == [name |-> Primary, pass |-> PrimaryPass]
NoEntry == [form |-> "plain", pass |-> PrimaryPass, role |-> "viewer"]

(* rolePermissions, by groups that are granted together.                   *)
Grants(role) ==
  CASE role = "viewer" -> {"view"}
    [] role = "operator" -> {"view", "operate"}
    [] role = "admin" -> {"view", "operate", "delete", "config", "users"}

(* The permission an operation needs: none for a login and behind          *)
(* requireAuth (status, history), else what its handler asks for.          *)
Needs(o) ==
  CASE o.do \in {"login", "read"} -> {}
    [] o.do \in {"add", "remove"} -> {"users"}
    [] OTHER -> {o.do}

(* main: the primary admin with its plain password from the environment    *)
(* and the users restored from the store.                                  *)
AccessInit ==
  /\ users = [n \in DOMAIN Legacy \cup {Primary} |->
                IF n = Primary THEN [form |-> "plain", pass |-> PrimaryPass, role |-> "admin"]
                ELSE [form |-> "legacy", pass |-> Legacy[n].pass, role |-> Legacy[n].role]]
  /\ sessions = [t \in {} |-> [name |-> Primary, pass |-> PrimaryPass, expiry |-> 0]]
  /\ clock = 0
  /\ dialog = [d \in Dialogs |-> "new"] /\ creds = [d \in Dialogs |-> NoCreds]
  /\ entry = [d \in Dialogs |-> NoEntry] /\ op = [d \in Dialogs |-> [do |-> "view"]]
  /\ administered = Legacy /\ raced = {}
  /\ knew = [d \in Dialogs |-> FALSE] /\ granted = [d \in Dialogs |-> FALSE]
-----------------------------------------------------------------------------
IsPrimary(c) == c.name = Primary /\ c.pass = PrimaryPass
Matches(c, us) == IsPrimary(c) \/ (c.name \in DOMAIN us /\ us[c.name].pass = c.pass)

(* requirePermission lets the primary name pass; checkAuth of the settings *)
(* does so only with the primary password.                                 *)
Permits(c, o, us) ==
  \/ Needs(o) = {}
  \/ c.name = Primary /\ (o.do = "config" => IsPrimary(c))
  \/ c.name \in DOMAIN us /\ Needs(o) \subseteq Grants(us[c.name].role)

(* History: note what is good for request d, and for all under way when    *)
(* the users change.                                                       *)
NoteArrival(d) ==
  /\ knew' = [knew EXCEPT ![d] = Matches(creds'[d], users)]
  /\ granted' = [granted EXCEPT ![d] = Permits(creds'[d], op'[d], users)]
NoteChange ==
  /\ knew' = [d \in Dialogs |-> knew[d] \/ (dialog[d] # "new" /\ Matches(creds[d], users'))]
  /\ granted' = [d \in Dialogs |->
                   granted[d] \/ (dialog[d] # "new" /\ Permits(creds[d], op[d], users'))]

(* A request with an Authorization header, or the login form.              *)
ArriveBasic(d, c, o) ==
  /\ dialog[d] = "new" /\ dialog' = [dialog EXCEPT ![d] = "look"]
  /\ creds' = [creds EXCEPT ![d] = c] /\ op' = [op EXCEPT ![d] = o]
  /\ NoteArrival(d)
  /\ UNCHANGED <<accountVars, sessions, clock, entry>>

\* Faulty variant: a live session is taken for an authenticated user.
ArriveCookieTrusted(d, t, o) ==
  /\ dialog[d] = "new" /\ o.do # "login" /\ t \in DOMAIN sessions
  /\ IF clock > sessions[t].expiry
       THEN /\ sessions' = [u \in DOMAIN sessions \ {t} |-> sessions[u]]
            /\ dialog' = [dialog EXCEPT ![d] = "refused"]
            /\ UNCHANGED <<creds, op, knew, granted>>
       ELSE /\ dialog' = [dialog EXCEPT ![d] = "permit"]
            /\ creds' = [creds EXCEPT ![d] = [name |-> sessions[t].name, pass |-> sessions[t].pass]]
            /\ op' = [op EXCEPT ![d] = o]
            /\ NoteArrival(d)
            /\ UNCHANGED sessions
  /\ UNCHANGED <<accountVars, clock, entry>>

(* A request with a session cookie: SessionAuthMiddleware turns a live     *)
(* session into an Authorization header.  Get removes an expired one; an   *)
(* unknown token leaves the request without credentials.                   *)
ArriveCookie(d, t, o) ==
  /\ dialog[d] = "new" /\ o.do # "login" /\ t \in DOMAIN sessions
  /\ IF clock > sessions[t].expiry
       THEN /\ sessions' = [u \in DOMAIN sessions \ {t} |-> sessions[u]]
            /\ dialog' = [dialog EXCEPT ![d] = "refused"]
            /\ UNCHANGED <<creds, op, knew, granted>>
       ELSE /\ dialog' = [dialog EXCEPT ![d] = "look"]
            /\ creds' = [creds EXCEPT ![d] = [name |-> sessions[t].name, pass |-> sessions[t].pass]]
            /\ op' = [op EXCEPT ![d] = o]
            /\ NoteArrival(d)
            /\ UNCHANGED sessions
  /\ UNCHANGED <<accountVars, clock, entry>>

Move(d, what) == dialog' = [dialog EXCEPT ![d] = what]

(* checkAuth, valid, requireAuth: the primary credentials, or else         *)
(* Authenticate reads the user under the lock.                             *)
Look(d) ==
  /\ dialog[d] = "look"
  /\ \/ IsPrimary(creds[d]) /\ Move(d, "permit") /\ UNCHANGED entry
     \/ /\ ~IsPrimary(creds[d]) /\ creds[d].name \notin DOMAIN users
        /\ Move(d, "refused") /\ UNCHANGED entry
     \/ /\ ~IsPrimary(creds[d]) /\ creds[d].name \in DOMAIN users
        /\ Move(d, "compare") /\ entry' = [entry EXCEPT ![d] = users[creds[d].name]]
  /\ UNCHANGED <<accountVars, sessions, clock, creds, op, knew, granted>>

(* Authenticate compares with what it read, without the lock.              *)
Compare(d) ==
  /\ dialog[d] = "compare"
  /\ Move(d, IF entry[d].pass # creds[d].pass THEN "refused"
             ELSE IF entry[d].form = "legacy" THEN "upgrade" ELSE "permit")
  /\ UNCHANGED <<accountVars, sessions, clock, creds, entry, op, knew, granted>>

Hashed(c, role) == [form |-> "bcrypt", pass |-> c.pass, role |-> role]
SetUser(n, u) == users' = [m \in DOMAIN users \cup {n} |-> IF m = n THEN u ELSE users[m]]

\* Faulty variant: the user read before the comparison is written back.
UpgradeStale(d) ==
  /\ dialog[d] = "upgrade" /\ Move(d, "permit")
  /\ IF creds[d].name \in DOMAIN users
       THEN SetUser(creds[d].name, Hashed(creds[d], entry[d].role)) /\ NoteChange
       ELSE UNCHANGED <<users, knew, granted>>
  /\ UNCHANGED <<administered, raced, sessions, clock, creds, entry, op>>

(* upgradeLegacyPassword: hash the password again, unless hashing fails or *)
(* the user is gone by now; the role is the one of the present user.       *)
UpgradeLegacy(d) ==
  /\ dialog[d] = "upgrade" /\ Move(d, "permit")
  /\ \/ /\ creds[d].name \in DOMAIN users
        /\ SetUser(creds[d].name, Hashed(creds[d], users[creds[d].name].role)) /\ NoteChange
     \/ UNCHANGED <<users, knew, granted>>    \* the user is gone, or hashing failed
  /\ UNCHANGED <<administered, raced, sessions, clock, creds, entry, op>>

(* requirePermission; a login starts a session under a new token, unless   *)
(* the source of random tokens fails.                                      *)
Permit(d) ==
  /\ dialog[d] = "permit"
  /\ \/ /\ op[d].do # "login"
        /\ Move(d, IF Permits(creds[d], op[d], users) THEN "act" ELSE "refused")
        /\ UNCHANGED sessions
     \/ \E t \in Tokens \ DOMAIN sessions :
          /\ op[d].do = "login" /\ Move(d, "served")
          /\ sessions' = [u \in DOMAIN sessions \cup {t} |->
                            IF u # t THEN sessions[u]
                            ELSE [name |-> creds[d].name, pass |-> creds[d].pass,
                                  expiry |-> clock + SessionTTL]]
     \/ op[d].do = "login" /\ Move(d, "failed") /\ UNCHANGED sessions
  /\ UNCHANGED <<accountVars, clock, creds, entry, op, knew, granted>>

InFlight(n) == \E d \in Dialogs : dialog[d] \in {"compare", "upgrade"} /\ creds[d].name = n

(* HandleCreateUser, AddUser: hash a plain password and store; when the    *)
(* user cannot be saved the answer is an error and the user stays.         *)
ActAdd(d) ==
  /\ dialog[d] = "act" /\ op[d].do = "add"
  /\ Move(d, "served") \/ Move(d, "failed")
  /\ LET n == op[d].name
     IN  /\ SetUser(n, [form |-> IF op[d].form = "plain" THEN "bcrypt" ELSE op[d].form,
                        pass |-> op[d].pass, role |-> op[d].role])
         /\ administered' = [m \in DOMAIN administered \cup {n} |->
              IF m = n THEN [pass |-> op[d].pass, role |-> op[d].role] ELSE administered[m]]
         /\ raced' = IF InFlight(n) THEN raced \cup {n} ELSE raced \ {n}
  /\ NoteChange
  /\ UNCHANGED <<sessions, clock, creds, entry, op>>

(* The body is malformed or incomplete, or the password cannot be hashed.  *)
ActAddRefused(d) ==
  /\ dialog[d] = "act" /\ op[d].do = "add" /\ Move(d, "refused")
  /\ UNCHANGED <<accountVars, sessions, clock, creds, entry, op, knew, granted>>

Without(f, n) == [m \in DOMAIN f \ {n} |-> f[m]]

(* HandleDeleteUser, RemoveUser: not oneself, not the primary admin; a     *)
(* change that cannot be saved is an error, with the user gone.            *)
ActRemove(d) ==
  /\ dialog[d] = "act" /\ op[d].do = "remove"
  /\ LET n == op[d].name
     IN  \/ /\ n \in {creds[d].name, Primary} \/ n \notin DOMAIN users
            /\ Move(d, "refused")
            /\ UNCHANGED <<accountVars, knew, granted>>
         \/ /\ n \notin {creds[d].name, Primary} /\ n \in DOMAIN users
            /\ Move(d, "served") \/ Move(d, "failed")
            /\ users' = Without(users, n) /\ administered' = Without(administered, n)
            /\ NoteChange /\ UNCHANGED raced
  /\ UNCHANGED <<sessions, clock, creds, entry, op>>

(* Any other handler.                                                      *)
ActOther(d) ==
  /\ dialog[d] = "act" /\ op[d].do \notin {"add", "remove"} /\ Move(d, "served")
  /\ UNCHANGED <<accountVars, sessions, clock, creds, entry, op, knew, granted>>
-----------------------------------------------------------------------------
(* HandleLogout deletes the session, whoever asks.                         *)
Logout(t) ==
  /\ t \in DOMAIN sessions /\ sessions' = Without(sessions, t)
  /\ UNCHANGED <<accountVars, clock, dialogVars>>

EvictExpired ==
  /\ \E t \in DOMAIN sessions : clock > sessions[t].expiry
  /\ sessions' = [t \in {u \in DOMAIN sessions : clock <= sessions[u].expiry} |-> sessions[t]]
  /\ UNCHANGED <<accountVars, clock, dialogVars>>

ClockTick ==
  /\ clock < MaxClock /\ clock' = clock + 1
  /\ UNCHANGED <<accountVars, sessions, dialogVars>>

Credentials == [name : Users \cup {Primary}, pass : Passwords]

AccessNext ==
  \/ \E d \in Dialogs :
       \/ \E o \in Operations : \E c \in Credentials : ArriveBasic(d, c, o)
       \/ \E o \in Operations : \E t \in Tokens : ArriveCookie(d, t, o)
       \/ Look(d) \/ Compare(d) \/ UpgradeLegacy(d) \/ Permit(d)
       \/ ActAdd(d) \/ ActAddRefused(d) \/ ActRemove(d) \/ ActOther(d)
  \/ \E t \in Tokens : Logout(t)
  \/ EvictExpired \/ ClockTick

AccessSpec == AccessInit /\ [][AccessNext]_accessVars
-----------------------------------------------------------------------------
Account == [form : Forms, pass : Passwords, role : Roles]

AccessTypeOK ==
  /\ DOMAIN users \subseteq Users \cup {Primary}
  /\ \A n \in DOMAIN users : users[n] \in Account
  /\ DOMAIN sessions \subseteq Tokens /\ clock \in 0..MaxClock
  /\ \A t \in DOMAIN sessions :
       sessions[t].name \in Users \cup {Primary} /\ sessions[t].pass \in Passwords
  /\ creds \in [Dialogs -> Credentials] /\ entry \in [Dialogs -> Account]
  /\ op \in [Dialogs -> Operations \cup {[do |-> "view"]}]
  /\ dialog \in [Dialogs -> {"new", "look", "compare", "upgrade", "permit", "act",
                             "served", "failed", "refused"}]

(* A request is served only if its credentials were right and its          *)
(* permission was there at some time since it arrived: a session outlives  *)
(* a password change or the removal of its user, its requests do not.      *)
ServedWasEntitled ==
  \A d \in Dialogs : dialog[d] = "served" => knew[d] /\ granted[d]

(* The users are those administrators set, with the role and the password  *)
(* last set, and the primary admin, whom nobody removes: no login brings a *)
(* removed user or an old role back, and only a login under way with the   *)
(* legacy hash can bring an old password back.                             *)
AccountsAsAdministered ==
  /\ Primary \in DOMAIN users
  /\ DOMAIN users \ {Primary} = DOMAIN administered \ {Primary}
  /\ \A n \in DOMAIN administered :
       /\ users[n].role = administered[n].role
       /\ users[n].pass = administered[n].pass \/ n \in raced
=============================================================================
