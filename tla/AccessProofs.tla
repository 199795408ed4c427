---------------------------- MODULE AccessProofs ----------------------------
(***************************************************************************)
(* Theorems about who is let in, for every value of the constants:         *)
(*   Accounts        any users, passwords, sessions, operations and number *)
(*                   of concurrent requests;                               *)
(*   IngressLimiter  any addresses, rates, bursts, idle times, intervals.  *)
(* The two share no state.                                                 *)
(***************************************************************************)
EXTENDS Accounts, IngressLimiter, TLAPS

(* Accounts: nobody is served who was not entitled, and the users are      *)
(* those administrators set in spite of the password upgrades of logins.   *)

FlagTypes == knew \in [Dialogs -> BOOLEAN] /\ granted \in [Dialogs -> BOOLEAN]

(* What is known of one request.  The notes cover the present users, not   *)
(* only those of its arrival; what Authenticate read was present then; and *)
(* each check passed leaves its note behind.                               *)
Noted(d) ==
  /\ Matches(creds[d], users) => knew[d]
  /\ Permits(creds[d], op[d], users) => granted[d]
Checked(d) ==
  /\ dialog[d] = "compare" /\ entry[d].pass = creds[d].pass => knew[d]
  /\ dialog[d] \in {"upgrade", "permit", "act", "served"} => knew[d]
  /\ dialog[d] \in {"act", "served"} => granted[d]

Entitled(d) == (dialog[d] \notin {"new", "refused"} => Noted(d)) /\ Checked(d)
RequestInv == \A d \in Dialogs : Entitled(d)

(* What a login under way has read of a user is what administrators set,   *)
(* unless they set the user again since, which raced records.              *)
LoginInv ==
  \A d \in Dialogs :
    LET n == creds[d].name
    IN  /\ dialog[d] \in {"compare", "upgrade"} /\ n \in DOMAIN administered =>
             entry[d].pass = administered[n].pass \/ n \in raced
        /\ dialog[d] = "upgrade" => entry[d].pass = creds[d].pass
-----------------------------------------------------------------------------
(* Types.                                                                  *)
LEMMA TypesInit == AccessInit => AccessTypeOK /\ FlagTypes
<1> SUFFICES ASSUME AccessInit PROVE AccessTypeOK /\ FlagTypes
  OBVIOUS
<1> USE AccountsAssumption DEF AccessInit, Account, Roles, Forms
<1>1. DOMAIN users \subseteq Users \cup {Primary} /\ \A n \in DOMAIN users : users[n] \in Account
  OBVIOUS
<1>2. /\ creds \in [Dialogs -> Credentials] /\ entry \in [Dialogs -> Account]
      /\ op \in [Dialogs -> Operations \cup {[do |-> "view"]}]
  BY DEF NoCreds, NoEntry, Credentials
<1>3. DOMAIN sessions = {} /\ clock \in 0..MaxClock
  OBVIOUS
<1>4. dialog \in [Dialogs -> {"new", "look", "compare", "upgrade", "permit", "act",
                              "served", "failed", "refused"}]
  OBVIOUS
<1>5. FlagTypes
  BY Zenon DEF FlagTypes
<1>. QED
  BY <1>1, <1>2, <1>3, <1>4, <1>5 DEF AccessTypeOK

(* The next-state relation, request by request.                            *)
Arrives(d) ==
  \/ \E c \in Credentials, o \in Operations : ArriveBasic(d, c, o)
  \/ \E t \in Tokens, o \in Operations : ArriveCookie(d, t, o)
Advances(d) == Look(d) \/ Compare(d) \/ Permit(d) \/ ActAddRefused(d) \/ ActOther(d)
Changes(d) == UpgradeLegacy(d) \/ ActAdd(d) \/ ActRemove(d)
Rests == (\E t \in Tokens : Logout(t)) \/ EvictExpired \/ ClockTick \/ UNCHANGED accessVars

LEMMA Cases ==
  ASSUME [AccessNext]_accessVars
  PROVE  Rests \/ \E d \in Dialogs : Arrives(d) \/ Advances(d) \/ Changes(d)
BY DEF AccessNext, Arrives, Advances, Changes, Rests

LEMMA FlagsStep ==
  ASSUME FlagTypes, [AccessNext]_accessVars
  PROVE  FlagTypes'
<1>1. CASE Rests
  BY <1>1 DEF Rests, Logout, EvictExpired, ClockTick, accessVars, dialogVars, FlagTypes
<1>2. \A c, o, us : Matches(c, us) \in BOOLEAN /\ Permits(c, o, us) \in BOOLEAN
  BY Zenon DEF Matches, Permits
<1>3. ASSUME NEW d \in Dialogs, NoteArrival(d) PROVE FlagTypes'
  BY <1>2, <1>3, Zenon DEF FlagTypes, NoteArrival
<1>4. ASSUME NoteChange PROVE FlagTypes'
  BY <1>2, <1>4, Zenon DEF FlagTypes, NoteChange
<1>5. ASSUME NEW d \in Dialogs, Arrives(d) PROVE FlagTypes'
  BY <1>3, <1>5 DEF Arrives, ArriveBasic, ArriveCookie, FlagTypes
<1>6. ASSUME NEW d \in Dialogs, Advances(d) PROVE FlagTypes'
  BY <1>6 DEF Advances, Look, Compare, Permit, ActAddRefused, ActOther, FlagTypes
<1>7. ASSUME NEW d \in Dialogs, Changes(d) PROVE FlagTypes'
  BY <1>4, <1>7 DEF Changes, UpgradeLegacy, ActAdd, ActRemove, FlagTypes
<1>. QED
  BY <1>1, <1>5, <1>6, <1>7, Cases

(* Each action keeps the types of what it assigns.                         *)
States == {"new", "look", "compare", "upgrade", "permit", "act", "served", "failed", "refused"}

LEMMA UsersTyped ==
  ASSUME AccessTypeOK, [AccessNext]_accessVars
  PROVE  DOMAIN users' \subseteq Users \cup {Primary} /\ \A n \in DOMAIN users' : users'[n] \in Account
<1> DEFINE Goal == /\ DOMAIN users' \subseteq Users \cup {Primary}
                   /\ \A n \in DOMAIN users' : users'[n] \in Account
<1>1. CASE UNCHANGED users
  BY <1>1 DEF AccessTypeOK
<1>2. ASSUME NEW n \in Users \cup {Primary}, NEW u \in Account, SetUser(n, u) PROVE Goal
  BY <1>2 DEF SetUser, AccessTypeOK
<1>3. ASSUME NEW d \in Dialogs, UpgradeLegacy(d) PROVE Goal
  <2>1. CASE UNCHANGED users
    BY <1>1, <2>1
  <2>2. CASE /\ creds[d].name \in DOMAIN users
             /\ SetUser(creds[d].name, Hashed(creds[d], users[creds[d].name].role))
    <3>1. users[creds[d].name].role \in Roles /\ creds[d].pass \in Passwords
      BY <2>2 DEF AccessTypeOK, Account, Credentials
    <3>2. Hashed(creds[d], users[creds[d].name].role) \in Account
      BY <3>1 DEF Hashed, Account, Forms
    <3>. QED
      BY <1>2, <2>2, <3>2 DEF AccessTypeOK
  <2>. QED
    BY <1>3, <2>1, <2>2 DEF UpgradeLegacy
<1>4. ASSUME NEW d \in Dialogs, ActAdd(d) PROVE Goal
  <2>1. op[d] \in Operations /\ op[d].do = "add"
    BY <1>4 DEF ActAdd, AccessTypeOK
  <2> DEFINE u == [form |-> IF op[d].form = "plain" THEN "bcrypt" ELSE op[d].form,
                   pass |-> op[d].pass, role |-> op[d].role]
  <2>2. u \in Account /\ op[d].name \in Users \cup {Primary}
    BY <2>1, AccountsAssumption DEF Account, Forms
  <2>3. SetUser(op[d].name, u)
    BY <1>4 DEF ActAdd
  <2> HIDE DEF u
  <2>. QED
    BY <1>2, <2>2, <2>3
<1>5. ASSUME NEW d \in Dialogs, ActRemove(d) PROVE Goal
  BY <1>5 DEF ActRemove, Without, accountVars, AccessTypeOK
<1>6. ASSUME NEW d \in Dialogs, Arrives(d) \/ Advances(d) PROVE UNCHANGED users
  BY <1>6 DEF Arrives, Advances, ArriveBasic, ArriveCookie, Look, Compare, Permit, ActAddRefused,
     ActOther, accountVars
<1>7. CASE Rests
  BY <1>1, <1>7 DEF Rests, Logout, EvictExpired, ClockTick, accessVars, accountVars
<1>. QED
  BY <1>1, <1>3, <1>4, <1>5, <1>6, <1>7, Cases DEF Changes

LEMMA SessionsTyped ==
  ASSUME AccessTypeOK, [AccessNext]_accessVars
  PROVE  /\ DOMAIN sessions' \subseteq Tokens /\ clock' \in 0..MaxClock
         /\ \A t \in DOMAIN sessions' :
              sessions'[t].name \in Users \cup {Primary} /\ sessions'[t].pass \in Passwords
<1> USE DEF AccessTypeOK
<1>1. CASE UNCHANGED sessions /\ UNCHANGED clock
  BY <1>1
<1>2. ASSUME NEW d \in Dialogs, Permit(d)
      PROVE  /\ DOMAIN sessions' \subseteq Tokens /\ clock' \in 0..MaxClock
             /\ \A t \in DOMAIN sessions' :
                  sessions'[t].name \in Users \cup {Primary} /\ sessions'[t].pass \in Passwords
  <2>1. creds[d].name \in Users \cup {Primary} /\ creds[d].pass \in Passwords /\ UNCHANGED clock
    BY <1>2 DEF Credentials, Permit
  <2>2. CASE UNCHANGED sessions
    BY <2>1, <2>2
  <2>3. CASE \E t \in Tokens \ DOMAIN sessions :
               sessions' = [u \in DOMAIN sessions \cup {t} |->
                              IF u # t THEN sessions[u]
                              ELSE [name |-> creds[d].name, pass |-> creds[d].pass,
                                    expiry |-> clock + SessionTTL]]
    BY <2>1, <2>3
  <2>. QED
    BY <1>2, <2>2, <2>3 DEF Permit
<1>3. ASSUME NEW d \in Dialogs, Arrives(d) \/ Changes(d) \/ (Advances(d) /\ ~Permit(d))
      PROVE  UNCHANGED clock /\ (UNCHANGED sessions \/ \E t \in Tokens :
               sessions' = [u \in DOMAIN sessions \ {t} |-> sessions[u]])
  BY <1>3 DEF Arrives, Changes, Advances, ArriveBasic, ArriveCookie, Look, Compare, ActAddRefused,
     ActOther, UpgradeLegacy, ActAdd, ActRemove
<1>4. CASE \E t \in Tokens : Logout(t)
  BY <1>4 DEF Logout, Without
<1>5. CASE EvictExpired
  BY <1>5 DEF EvictExpired
<1>6. CASE ClockTick
  BY <1>6, AccountsAssumption DEF ClockTick
<1>7. CASE UNCHANGED accessVars
  BY <1>1, <1>7 DEF accessVars
<1>. QED
  BY <1>1, <1>2, <1>3, <1>4, <1>5, <1>6, <1>7, Cases DEF Rests, Advances

LEMMA RequestsTyped ==
  ASSUME AccessTypeOK, [AccessNext]_accessVars
  PROVE  /\ creds' \in [Dialogs -> Credentials] /\ entry' \in [Dialogs -> Account]
         /\ op' \in [Dialogs -> Operations \cup {[do |-> "view"]}]
         /\ dialog' \in [Dialogs -> States]
<1> USE DEF States
<1>0. /\ creds \in [Dialogs -> Credentials] /\ entry \in [Dialogs -> Account]
      /\ op \in [Dialogs -> Operations \cup {[do |-> "view"]}]
      /\ dialog \in [Dialogs -> States]
  BY DEF AccessTypeOK
<1>1. CASE Rests
  BY <1>0, <1>1 DEF Rests, Logout, EvictExpired, ClockTick, accessVars, dialogVars
<1>2. ASSUME NEW d \in Dialogs, Arrives(d)
      PROVE  /\ creds' \in [Dialogs -> Credentials] /\ UNCHANGED entry
             /\ op' \in [Dialogs -> Operations \cup {[do |-> "view"]}]
             /\ dialog' \in [Dialogs -> States]
  <2>1. ASSUME NEW c \in Credentials, NEW o \in Operations, ArriveBasic(d, c, o)
        PROVE  /\ creds' \in [Dialogs -> Credentials] /\ UNCHANGED entry
               /\ op' \in [Dialogs -> Operations \cup {[do |-> "view"]}]
               /\ dialog' \in [Dialogs -> States]
    BY <1>0, <2>1 DEF ArriveBasic
  <2>2. ASSUME NEW t \in Tokens, NEW o \in Operations, ArriveCookie(d, t, o)
        PROVE  /\ creds' \in [Dialogs -> Credentials] /\ UNCHANGED entry
               /\ op' \in [Dialogs -> Operations \cup {[do |-> "view"]}]
               /\ dialog' \in [Dialogs -> States]
    <3>1. [name |-> sessions[t].name, pass |-> sessions[t].pass] \in Credentials
      BY <2>2 DEF ArriveCookie, AccessTypeOK, Credentials
    <3>. QED
      BY <1>0, <2>2, <3>1 DEF ArriveCookie
  <2>. QED
    BY <1>2, <2>1, <2>2 DEF Arrives
<1>3. ASSUME NEW d \in Dialogs, Advances(d)
      PROVE  /\ UNCHANGED <<creds, op>> /\ entry' \in [Dialogs -> Account]
             /\ dialog' \in [Dialogs -> States]
  <2>1. CASE Look(d)
    BY <1>0, <2>1 DEF Look, Move, AccessTypeOK
  <2>2. CASE Compare(d) \/ Permit(d) \/ ActAddRefused(d) \/ ActOther(d)
    BY <1>0, <2>2 DEF Compare, Permit, ActAddRefused, ActOther, Move
  <2>. QED
    BY <1>3, <2>1, <2>2 DEF Advances
<1>4. ASSUME NEW d \in Dialogs, Changes(d)
      PROVE  UNCHANGED <<creds, op, entry>> /\ dialog' \in [Dialogs -> States]
  BY <1>0, <1>4 DEF Changes, UpgradeLegacy, ActAdd, ActRemove, Move
<1>. QED
  BY <1>0, <1>1, <1>2, <1>3, <1>4, Cases

LEMMA TypesStep == AccessTypeOK /\ [AccessNext]_accessVars => AccessTypeOK'
<1> SUFFICES ASSUME AccessTypeOK, [AccessNext]_accessVars PROVE AccessTypeOK'
  OBVIOUS
<1>. QED
  BY UsersTyped, SessionsTyped, RequestsTyped DEF AccessTypeOK, States
-----------------------------------------------------------------------------
(* Requests are entitled.                                                  *)
LEMMA RequestInit == AccessInit => RequestInv
BY DEF AccessInit, RequestInv, Entitled, Checked

(* A request that a step of another one leaves alone.                      *)
LEMMA Unmoved ==
  ASSUME NEW e \in Dialogs, Entitled(e), UNCHANGED <<users, dialog[e], creds[e], entry[e], op[e]>>,
         UNCHANGED <<knew[e], granted[e]>>
  PROVE  Entitled(e)'
BY DEF Entitled, Noted, Checked

LEMMA ArrivalNoted ==
  ASSUME AccessTypeOK, FlagTypes, RequestInv, NEW d \in Dialogs, Arrives(d)
  PROVE  RequestInv'
<1>1. UNCHANGED users
  BY DEF Arrives, ArriveBasic, ArriveCookie, accountVars
<1>2. ASSUME NEW e \in Dialogs, e # d
      PROVE  UNCHANGED <<dialog[e], creds[e], entry[e], op[e]>> /\ UNCHANGED <<knew[e], granted[e]>>
  <2>1. NoteArrival(d) \/ UNCHANGED <<knew, granted>>
    BY DEF Arrives, ArriveBasic, ArriveCookie
  <2>2. UNCHANGED <<knew[e], granted[e]>>
    BY <1>2, <2>1, Zenon DEF NoteArrival, FlagTypes
  <2>3. UNCHANGED <<dialog[e], creds[e], entry[e], op[e]>>
    BY <1>2 DEF Arrives, ArriveBasic, ArriveCookie, AccessTypeOK
  <2>. QED
    BY <2>2, <2>3
<1>3. dialog'[d] = "refused" \/ (dialog'[d] = "look" /\ NoteArrival(d))
  BY DEF Arrives, ArriveBasic, ArriveCookie, AccessTypeOK
<1>4. ASSUME NoteArrival(d) PROVE Noted(d)'
  BY <1>1, <1>4 DEF NoteArrival, Noted, FlagTypes
<1>5. Checked(d)'
  BY <1>3 DEF Checked
<1>6. Entitled(d)'
  BY <1>3, <1>4, <1>5 DEF Entitled
<1>. QED
  BY <1>1, <1>2, <1>6, Unmoved DEF RequestInv

LEMMA AdvanceKeeps ==
  ASSUME AccessTypeOK, FlagTypes, RequestInv, NEW d \in Dialogs, Advances(d)
  PROVE  RequestInv'
<1>1. UNCHANGED <<users, creds, op>> /\ UNCHANGED <<knew, granted>>
  BY DEF Advances, Look, Compare, Permit, ActAddRefused, ActOther, accountVars
<1>2. ASSUME NEW e \in Dialogs, e # d
      PROVE  UNCHANGED <<dialog[e], entry[e]>>
  BY <1>2 DEF Advances, Look, Compare, Permit, ActAddRefused, ActOther, Move, AccessTypeOK
<1>3. dialog[d] \notin {"new", "refused"} /\ Noted(d)
  BY DEF Advances, Look, Compare, Permit, ActAddRefused, ActOther, RequestInv, Entitled
<1>4. Noted(d)'
  BY <1>1, <1>3 DEF Noted
<1>5. Checked(d) /\ dialog \in [Dialogs -> States] /\ entry \in [Dialogs -> Account]
  BY DEF RequestInv, Entitled, AccessTypeOK, States
<1>6. ASSUME Look(d) PROVE Checked(d)'
  <2>1. CASE IsPrimary(creds[d]) /\ dialog'[d] = "permit"
    <3>1. knew[d]
      BY <1>3, <2>1 DEF Noted, Matches
    <3>. QED
      BY <1>1, <2>1, <3>1 DEF Checked
  <2>2. CASE dialog'[d] = "refused"
    BY <2>2 DEF Checked
  <2>3. CASE /\ creds[d].name \in DOMAIN users /\ dialog'[d] = "compare"
             /\ entry'[d] = users[creds[d].name]
    <3>1. entry'[d].pass = creds[d].pass => knew[d]
      BY <1>3, <2>3 DEF Noted, Matches
    <3>. QED
      BY <1>1, <2>3, <3>1 DEF Checked
  <2>. QED
    BY <1>5, <1>6, <2>1, <2>2, <2>3 DEF Look, Move
<1>7. ASSUME Compare(d) PROVE Checked(d)'
  <2>1. /\ dialog'[d] \in {"refused", "upgrade", "permit"} /\ dialog[d] = "compare"
        /\ dialog'[d] # "refused" => entry[d].pass = creds[d].pass
    BY <1>5, <1>7 DEF Compare, Move
  <2>. QED
    BY <1>1, <1>5, <2>1 DEF Checked
<1>8. ASSUME Permit(d) PROVE Checked(d)'
  <2>1. knew[d]
    BY <1>5, <1>8 DEF Checked, Permit
  <2>2. op[d].do = "login" => Permits(creds[d], op[d], users)
    BY DEF Permits, Needs
  <2>3. /\ dialog'[d] \in {"act", "served", "refused", "failed"}
        /\ dialog'[d] = "act" => Permits(creds[d], op[d], users)
        /\ dialog'[d] = "served" => op[d].do = "login"
    BY <1>5, <1>8 DEF Permit, Move
  <2>4. dialog'[d] \in {"act", "served"} => granted[d]
    BY <1>3, <2>2, <2>3 DEF Noted
  <2>. QED
    BY <1>1, <2>1, <2>3, <2>4 DEF Checked
<1>9. ASSUME ActAddRefused(d) \/ ActOther(d) PROVE Checked(d)'
  <2>1. dialog[d] = "act" /\ dialog'[d] \in {"refused", "served"}
    BY <1>5, <1>9 DEF ActAddRefused, ActOther, Move
  <2>. QED
    BY <1>1, <1>5, <2>1 DEF Checked
<1>10. Entitled(d)'
  BY <1>4, <1>6, <1>7, <1>8, <1>9 DEF Advances, Entitled
<1>. QED
  BY <1>1, <1>2, <1>10, Unmoved DEF RequestInv

LEMMA ChangeNoted ==
  ASSUME AccessTypeOK, FlagTypes, RequestInv, NEW d \in Dialogs, Changes(d)
  PROVE  RequestInv'
<1>1. UNCHANGED <<creds, op, entry>> /\ (NoteChange \/ UNCHANGED <<users, knew, granted>>)
  BY DEF Changes, UpgradeLegacy, ActAdd, ActRemove, accountVars
<1>2. \A e \in Dialogs \ {d} : dialog'[e] = dialog[e]
  BY DEF Changes, UpgradeLegacy, ActAdd, ActRemove, Move, AccessTypeOK
<1>3. \/ dialog[d] = "upgrade" /\ dialog'[d] = "permit"
      \/ dialog[d] = "act" /\ dialog'[d] \in {"served", "failed", "refused"}
  BY DEF Changes, UpgradeLegacy, ActAdd, ActRemove, Move, AccessTypeOK
<1>4. ASSUME NEW e \in Dialogs
      PROVE  (knew[e] => knew'[e]) /\ (granted[e] => granted'[e])
  BY <1>1 DEF NoteChange
<1>5. ASSUME NEW e \in Dialogs, dialog[e] \notin {"new", "refused"}
      PROVE  Noted(e)'
  <2>1. CASE NoteChange
    BY <1>1, <1>5, <2>1 DEF NoteChange, Noted
  <2>2. CASE UNCHANGED <<users, knew, granted>>
    BY <1>1, <1>5, <2>2 DEF RequestInv, Entitled, Noted
  <2>. QED
    BY <1>1, <2>1, <2>2
<1>6. ASSUME NEW e \in Dialogs PROVE Checked(e)'
  <2>1. Checked(e)
    BY DEF RequestInv, Entitled
  <2>. QED
    BY <1>1, <1>2, <1>3, <1>4, <2>1 DEF Checked
<1>7. ASSUME NEW e \in Dialogs, dialog'[e] \notin {"new", "refused"}
      PROVE  dialog[e] \notin {"new", "refused"}
  BY <1>2, <1>3, <1>7
<1>. QED
  BY <1>5, <1>6, <1>7 DEF RequestInv, Entitled

LEMMA RequestStep ==
  ASSUME AccessTypeOK, FlagTypes, RequestInv, [AccessNext]_accessVars
  PROVE  RequestInv'
<1>1. CASE Rests
  <2>1. UNCHANGED <<users, dialog, creds, entry, op>> /\ UNCHANGED <<knew, granted>>
    BY <1>1 DEF Rests, Logout, EvictExpired, ClockTick, accessVars, accountVars, dialogVars
  <2>. QED
    BY <2>1, Unmoved DEF RequestInv
<1>. QED
  BY <1>1, ArrivalNoted, AdvanceKeeps, ChangeNoted, Cases

LEMMA RequestsAlways == AccessSpec => [](AccessTypeOK /\ FlagTypes /\ RequestInv)
<1>1. /\ AccessTypeOK /\ FlagTypes /\ RequestInv
      /\ [AccessNext]_accessVars
      => (AccessTypeOK /\ FlagTypes /\ RequestInv)'
  BY TypesStep, FlagsStep, RequestStep
<1>. QED
  BY <1>1, TypesInit, RequestInit, PTL DEF AccessSpec
-----------------------------------------------------------------------------
(* The users are those administrators set.                                 *)
LEMMA AdministeredInit == AccessInit => AccountsAsAdministered /\ LoginInv
<1> SUFFICES ASSUME AccessInit PROVE AccountsAsAdministered /\ LoginInv
  OBVIOUS
<1>1. AccountsAsAdministered
  BY AccountsAssumption DEF AccessInit, AccountsAsAdministered
<1>2. LoginInv
  BY DEF AccessInit, LoginInv
<1>. QED
  BY <1>1, <1>2

LEMMA ReadKeeps ==
  ASSUME AccessTypeOK, AccountsAsAdministered, LoginInv, NEW d \in Dialogs, Arrives(d) \/ Advances(d)
  PROVE  AccountsAsAdministered' /\ LoginInv'
<1>1. UNCHANGED <<users, administered, raced>>
  BY DEF Arrives, Advances, ArriveBasic, ArriveCookie, Look, Compare, Permit, ActAddRefused,
     ActOther, accountVars
<1>2. AccountsAsAdministered'
  BY <1>1 DEF AccountsAsAdministered
<1>3. ASSUME NEW e \in Dialogs, e # d
      PROVE  UNCHANGED <<dialog[e], creds[e], entry[e]>>
  BY <1>3 DEF Arrives, Advances, ArriveBasic, ArriveCookie, Look, Compare, Permit, ActAddRefused,
     ActOther, Move, AccessTypeOK
<1>4. CASE Look(d)
  <2>1. UNCHANGED creds /\ dialog'[d] # "upgrade"
    BY <1>4 DEF Look, Move, AccessTypeOK
  <2>2. dialog'[d] = "compare" => entry'[d] = users[creds[d].name]
    BY <1>4 DEF Look, Move, AccessTypeOK
  <2>. QED
    BY <1>1, <1>2, <1>3, <2>1, <2>2 DEF LoginInv, AccountsAsAdministered
<1>5. CASE Compare(d)
  <2>1. /\ UNCHANGED <<creds, entry>> /\ dialog[d] = "compare" /\ dialog'[d] # "compare"
        /\ dialog'[d] = "upgrade" => entry[d].pass = creds[d].pass
    BY <1>5 DEF Compare, Move, AccessTypeOK
  <2>. QED
    BY <1>1, <1>2, <1>3, <2>1 DEF LoginInv
<1>6. CASE Arrives(d) \/ Permit(d) \/ ActAddRefused(d) \/ ActOther(d)
  <2>1. dialog'[d] \notin {"compare", "upgrade"}
    BY <1>6 DEF Arrives, ArriveBasic, ArriveCookie, Permit, ActAddRefused, ActOther, Move,
       AccessTypeOK
  <2>. QED
    BY <1>1, <1>2, <1>3, <2>1 DEF LoginInv
<1>. QED
  BY <1>4, <1>5, <1>6 DEF Advances

LEMMA UpgradeKeeps ==
  ASSUME AccessTypeOK, AccountsAsAdministered, LoginInv, NEW d \in Dialogs, UpgradeLegacy(d)
  PROVE  AccountsAsAdministered' /\ LoginInv'
<1>1. /\ UNCHANGED <<administered, raced, creds, entry>>
      /\ dialog[d] = "upgrade" /\ dialog'[d] = "permit"
      /\ \A e \in Dialogs \ {d} : dialog'[e] = dialog[e]
  BY DEF UpgradeLegacy, Move, AccessTypeOK
<1>2. LoginInv'
  BY <1>1 DEF LoginInv
<1>3. CASE UNCHANGED users
  BY <1>1, <1>2, <1>3 DEF AccountsAsAdministered
<1>4. CASE /\ creds[d].name \in DOMAIN users
           /\ SetUser(creds[d].name, Hashed(creds[d], users[creds[d].name].role))
  <2> DEFINE n == creds[d].name
  <2>1. n \in DOMAIN administered => creds[d].pass = administered[n].pass \/ n \in raced
    BY <1>1 DEF LoginInv
  <2>2. /\ DOMAIN users' = DOMAIN users
        /\ \A m \in DOMAIN users \ {n} : users'[m] = users[m]
        /\ users'[n].role = users[n].role /\ users'[n].pass = creds[d].pass
    BY <1>4 DEF SetUser, Hashed
  <2> HIDE DEF n
  <2>3. \A m \in DOMAIN administered : m \in DOMAIN users
    BY DEF AccountsAsAdministered
  <2>4. AccountsAsAdministered'
    BY <1>1, <2>1, <2>2, <2>3 DEF AccountsAsAdministered
  <2>. QED
    BY <1>2, <2>4
<1>. QED
  BY <1>3, <1>4 DEF UpgradeLegacy

LEMMA AddKeeps ==
  ASSUME AccessTypeOK, AccountsAsAdministered, LoginInv, NEW d \in Dialogs, ActAdd(d)
  PROVE  AccountsAsAdministered' /\ LoginInv'
<1> DEFINE n == op[d].name
<1>1. /\ UNCHANGED <<creds, entry>>
      /\ dialog[d] = "act" /\ dialog'[d] \in {"served", "failed"}
      /\ \A e \in Dialogs \ {d} : dialog'[e] = dialog[e]
  BY DEF ActAdd, Move, AccessTypeOK
<1>2. /\ DOMAIN users' = DOMAIN users \cup {n}
      /\ \A m \in DOMAIN users \ {n} : users'[m] = users[m]
      /\ users'[n].role = op[d].role /\ users'[n].pass = op[d].pass
  BY DEF ActAdd, SetUser
<1>3. /\ DOMAIN administered' = DOMAIN administered \cup {n}
      /\ \A m \in DOMAIN administered \ {n} : administered'[m] = administered[m]
      /\ administered'[n].role = op[d].role /\ administered'[n].pass = op[d].pass
  BY DEF ActAdd
<1>4. /\ InFlight(n) => raced' = raced \cup {n}
      /\ ~InFlight(n) => raced' = raced \ {n}
  BY DEF ActAdd
<1> HIDE DEF n
<1>5. AccountsAsAdministered'
  <2>1. Primary \in DOMAIN users' /\ DOMAIN users' \ {Primary} = DOMAIN administered' \ {Primary}
    BY <1>2, <1>3 DEF AccountsAsAdministered
  <2>2. ASSUME NEW m \in DOMAIN administered'
        PROVE  /\ users'[m].role = administered'[m].role
               /\ users'[m].pass = administered'[m].pass \/ m \in raced'
    <3>1. CASE m = n
      BY <1>2, <1>3, <3>1
    <3>2. CASE m # n
      <4>1. m \in DOMAIN administered /\ m \in DOMAIN users
        BY <1>3, <3>2 DEF AccountsAsAdministered
      <4>. QED
        BY <1>2, <1>3, <1>4, <3>2, <4>1 DEF AccountsAsAdministered
    <3>. QED
      BY <3>1, <3>2
  <2>. QED
    BY <2>1, <2>2 DEF AccountsAsAdministered
<1>6. ASSUME NEW e \in Dialogs, dialog'[e] \in {"compare", "upgrade"}
      PROVE  /\ dialog[e] = dialog'[e]
             /\ creds[e].name \in DOMAIN administered' =>
                  entry[e].pass = administered'[creds[e].name].pass \/ creds[e].name \in raced'
             /\ dialog[e] = "upgrade" => entry[e].pass = creds[e].pass
  <2>1. dialog[e] = dialog'[e]
    BY <1>1, <1>6
  <2>2. CASE creds[e].name = n
    BY <1>4, <1>6, <2>1, <2>2 DEF InFlight, LoginInv
  <2>3. CASE creds[e].name # n
    BY <1>3, <1>4, <1>6, <2>1, <2>3 DEF LoginInv
  <2>. QED
    BY <2>1, <2>2, <2>3
<1>7. LoginInv'
  BY <1>1, <1>6 DEF LoginInv
<1>. QED
  BY <1>5, <1>7

LEMMA RemoveKeeps ==
  ASSUME AccessTypeOK, AccountsAsAdministered, LoginInv, NEW d \in Dialogs, ActRemove(d)
  PROVE  AccountsAsAdministered' /\ LoginInv'
<1> DEFINE n == op[d].name
<1>1. /\ UNCHANGED <<creds, entry, raced>>
      /\ dialog[d] = "act" /\ dialog'[d] \in {"served", "failed", "refused"}
      /\ \A e \in Dialogs \ {d} : dialog'[e] = dialog[e]
  BY DEF ActRemove, Move, AccessTypeOK, accountVars
<1>2. \/ UNCHANGED <<users, administered>>
      \/ n # Primary /\ users' = Without(users, n) /\ administered' = Without(administered, n)
  BY DEF ActRemove, accountVars
<1> HIDE DEF n
<1>3. AccountsAsAdministered'
  BY <1>1, <1>2 DEF AccountsAsAdministered, Without
<1>4. LoginInv'
  BY <1>1, <1>2 DEF LoginInv, Without
<1>. QED
  BY <1>3, <1>4

LEMMA AdministeredStep ==
  ASSUME AccessTypeOK, AccountsAsAdministered, LoginInv, [AccessNext]_accessVars
  PROVE  AccountsAsAdministered' /\ LoginInv'
<1>1. CASE Rests
  <2>1. UNCHANGED <<users, administered, raced, dialog, creds, entry>>
    BY <1>1 DEF Rests, Logout, EvictExpired, ClockTick, accessVars, accountVars, dialogVars
  <2>. QED
    BY <2>1 DEF AccountsAsAdministered, LoginInv
<1>. QED
  BY <1>1, ReadKeeps, UpgradeKeeps, AddKeeps, RemoveKeeps, Cases DEF Changes
-----------------------------------------------------------------------------
(* Every variable keeps its type, for any users, operations and requests.  *)
THEOREM AccountTypes == AccessSpec => []AccessTypeOK
BY RequestsAlways, PTL

(* Nobody is served without having been entitled since the request         *)
(* arrived, however logins, sessions and changes of users interleave.      *)
THEOREM NobodyIsServedUnentitled == AccessSpec => []ServedWasEntitled
<1>1. RequestInv => ServedWasEntitled
  BY DEF RequestInv, Entitled, Checked, ServedWasEntitled
<1>. QED
  BY <1>1, RequestsAlways, PTL

(* No login brings a removed user, an old role or, unless it raced with    *)
(* the change, an old password back, and the primary admin is never        *)
(* removed.                                                                *)
THEOREM LoginsRestoreNothing == AccessSpec => []AccountsAsAdministered
<1>1. /\ AccessTypeOK /\ AccountsAsAdministered /\ LoginInv
      /\ [AccessNext]_accessVars
      => (AccountsAsAdministered /\ LoginInv)'
  BY AdministeredStep
<1>. QED
  BY <1>1, AdministeredInit, AccountTypes, PTL DEF AccessSpec
-----------------------------------------------------------------------------
(* IngressLimiter.                                                         *)
(* What an elapsed time refills.                                           *)
LEMMA RefillGrows ==
  ASSUME NEW a \in Int, NEW b \in Int, NEW r \in Int
  PROVE  /\ (a + 1 - b) * r = (a - b) * r + r
         /\ r * (a + 1 - b) = r * (a - b) + r
         /\ (a + 1) * r = a * r + r
  OBVIOUS

LEMMA RefillMonotonic ==
  ASSUME NEW a \in Int, NEW b \in Int, a >= b, NEW r \in Nat
  PROVE  a * r >= b * r
  OBVIOUS

LEMMA RefillNatural ==
  ASSUME NEW a \in Nat, NEW r \in Nat
  PROVE  a * r \in Nat
  OBVIOUS

(* A bucket that was idle for longer than the TTL is full (assumption      *)
(* IdleBucketIsFull), and no bucket holds more than the burst.             *)
LEMMA AvailableFacts ==
  ASSUME IngressTypeOK, NEW c \in Addresses
  PROVE  /\ Available(c) \in 0..Burst
         /\ c \in DOMAIN buckets /\ Idle(c) => Available(c) = Burst
<1>1. CASE c \in DOMAIN buckets
  <2> DEFINE idle == now - buckets[c].lastSeen
  <2>1. idle \in Nat /\ buckets[c].tokens \in 0..Burst /\ Burst \in Nat /\ Rate \in Nat /\ TTL \in Nat
    BY <1>1, IngressAssumption DEF IngressTypeOK, Bucket
  <2>2. idle * Rate \in Nat
    BY <2>1, RefillNatural
  <2>3. Available(c) = Least(Burst, buckets[c].tokens + idle * Rate)
    BY <1>1 DEF Available
  <2>4. ASSUME idle > TTL PROVE idle * Rate >= Burst
    <3>1. idle * Rate >= TTL * Rate
      BY <2>1, <2>4, RefillMonotonic
    <3>2. TTL * Rate = Rate * TTL /\ TTL * Rate \in Nat
      BY <2>1
    <3>. QED
      BY <2>1, <2>2, <3>1, <3>2, IdleBucketIsFull
  <2> HIDE DEF idle
  <2>5. Available(c) \in 0..Burst /\ (idle > TTL => Available(c) = Burst)
    BY <2>1, <2>2, <2>3, <2>4 DEF Least
  <2>. QED
    BY <2>5 DEF idle, Idle
<1>2. CASE c \notin DOMAIN buckets
  BY <1>2, IngressAssumption DEF Available
<1>. QED
  BY <1>1, <1>2

(* The strengthening: buckets that outlived the last eviction were not     *)
(* idle for longer than the TTL then, and evictions are not far apart.     *)
Fresh ==
  /\ now - evictedAt <= Interval
  /\ \A c \in DOMAIN buckets : evictedAt - buckets[c].lastSeen <= TTL

IngressInv == IngressTypeOK /\ CreditBounded /\ Fresh

LEMMA IngressInitial == IngressInit => IngressInv
<1> SUFFICES ASSUME IngressInit PROVE IngressInv
  OBVIOUS
<1>1. IngressTypeOK /\ Fresh
  BY IngressAssumption DEF IngressInit, IngressTypeOK, Fresh
<1>2. ASSUME NEW c \in Addresses
      PROVE  admitted[c] * One + Available(c) <= Burst + Rate * (now - windowStart)
  BY IngressAssumption DEF IngressInit, Available
<1>. QED
  BY <1>1, <1>2 DEF IngressInv, CreditBounded

LEMMA AllowStep ==
  ASSUME IngressInv, NEW c \in Addresses, Allow(c)
  PROVE  IngressInv'
<1> DEFINE tokens == Available(c)
<1> DEFINE left == IF tokens >= One THEN tokens - One ELSE tokens
<1>1. IngressTypeOK /\ CreditBounded /\ Fresh
  BY DEF IngressInv
<1>2. tokens \in 0..Burst /\ One \in Nat \ {0} /\ Burst \in Nat /\ Rate \in Nat
  BY <1>1, AvailableFacts, IngressAssumption
<1>3. /\ buckets' = WithBucket(c, [tokens |-> left, lastSeen |-> now])
      /\ admitted' = IF tokens >= One THEN [admitted EXCEPT ![c] = @ + 1] ELSE admitted
      /\ now' = now /\ evictedAt' = evictedAt /\ windowStart' = windowStart
  BY DEF Allow
<1>4. left \in 0..Burst
  BY <1>2
<1> HIDE DEF tokens, left
<1>5. /\ DOMAIN buckets' = DOMAIN buckets \cup {c}
      /\ buckets'[c] = [tokens |-> left, lastSeen |-> now]
      /\ \A d \in DOMAIN buckets \ {c} : buckets'[d] = buckets[d]
  BY <1>3 DEF WithBucket
<1>6. IngressTypeOK'
  <2>1. buckets' \in [DOMAIN buckets' -> Bucket]
    BY <1>1, <1>3, <1>4, <1>5 DEF IngressTypeOK, Bucket, WithBucket
  <2>2. admitted' \in [Addresses -> Nat]
    BY <1>1, <1>3 DEF IngressTypeOK
  <2>3. \A d \in DOMAIN buckets' : buckets'[d].lastSeen <= now'
    BY <1>1, <1>3, <1>5 DEF IngressTypeOK
  <2>. QED
    BY <1>1, <1>3, <1>5, <2>1, <2>2, <2>3 DEF IngressTypeOK
<1>7. ASSUME NEW d \in Addresses
      PROVE  admitted'[d] * One + Available(d)' <= Burst + Rate * (now' - windowStart')
  <2>1. admitted[d] * One + Available(d) <= Burst + Rate * (now - windowStart)
    BY <1>1 DEF CreditBounded
  <2>2. CASE d = c
    <3>1. Available(d)' = Least(Burst, left + (now - now) * Rate)
      BY <1>3, <1>5, <2>2 DEF Available
    <3>2. (now - now) * Rate = 0
      BY <1>1, <1>2 DEF IngressTypeOK
    <3>3. Available(d)' = left
      BY <1>2, <1>4, <3>1, <3>2 DEF Least
    <3>4. Available(d) = tokens
      BY <2>2 DEF tokens
    <3>5. admitted[d] \in Nat /\ admitted[d] * One \in Int /\ Rate * (now - windowStart) \in Int
      BY <1>1, <1>2 DEF IngressTypeOK
    <3>6. CASE tokens >= One
      <4>1. admitted'[d] = admitted[d] + 1
        BY <1>1, <1>3, <2>2, <3>6 DEF IngressTypeOK
      <4>2. admitted'[d] * One = admitted[d] * One + One
        BY <1>2, <3>5, <4>1, RefillGrows
      <4>. QED
        BY <1>2, <1>3, <2>1, <3>3, <3>4, <3>5, <3>6, <4>2 DEF left
    <3>7. CASE ~(tokens >= One)
      BY <1>2, <1>3, <2>1, <3>3, <3>4, <3>5, <3>7 DEF left
    <3>. QED
      BY <3>6, <3>7
  <2>3. CASE d # c
    <3>1. Available(d)' = Available(d)
      BY <1>3, <1>5, <2>3 DEF Available
    <3>2. admitted'[d] = admitted[d]
      BY <1>1, <1>3, <2>3 DEF IngressTypeOK
    <3>. QED
      BY <1>3, <2>1, <3>1, <3>2
  <2>. QED
    BY <2>2, <2>3
<1>8. Fresh'
  BY <1>1, <1>3, <1>5, IngressAssumption DEF Fresh, IngressTypeOK
<1>. QED
  BY <1>6, <1>7, <1>8 DEF IngressInv, CreditBounded

LEMMA EvictStep ==
  ASSUME IngressInv, EvictIdle
  PROVE  IngressInv'
<1>1. IngressTypeOK /\ CreditBounded /\ Fresh
  BY DEF IngressInv
<1>2. /\ now' = now /\ windowStart' = windowStart /\ admitted' = admitted /\ evictedAt' = now
      /\ DOMAIN buckets' = {d \in DOMAIN buckets : ~Idle(d)}
      /\ \A d \in DOMAIN buckets' : buckets'[d] = buckets[d]
  BY DEF EvictIdle
<1>3. IngressTypeOK'
  <2>1. buckets' \in [DOMAIN buckets' -> Bucket]
    BY <1>1 DEF EvictIdle, IngressTypeOK
  <2>2. evictedAt' \in 0..now'
    BY <1>1, <1>2 DEF IngressTypeOK
  <2>. QED
    BY <1>1, <1>2, <2>1, <2>2 DEF IngressTypeOK
<1>4. ASSUME NEW c \in Addresses PROVE Available(c)' = Available(c)
  <2>1. CASE c \in DOMAIN buckets /\ ~Idle(c)
    BY <1>2, <2>1 DEF Available
  <2>2. CASE c \in DOMAIN buckets /\ Idle(c)
    <3>1. Available(c) = Burst
      BY <1>1, <2>2, AvailableFacts
    <3>2. Available(c)' = Burst
      BY <1>2, <2>2 DEF Available
    <3>. QED
      BY <3>1, <3>2
  <2>3. CASE c \notin DOMAIN buckets
    BY <1>2, <2>3 DEF Available
  <2>. QED
    BY <2>1, <2>2, <2>3
<1>5. CreditBounded'
  BY <1>1, <1>2, <1>4 DEF CreditBounded
<1>6. Fresh'
  <2>1. now' - evictedAt' <= Interval
    BY <1>1, <1>2, IngressAssumption DEF IngressTypeOK
  <2>2. ASSUME NEW d \in DOMAIN buckets' PROVE evictedAt' - buckets'[d].lastSeen <= TTL
    <3>1. d \in DOMAIN buckets /\ ~(now - buckets[d].lastSeen > TTL) /\ buckets'[d] = buckets[d]
      BY <1>2, <2>2 DEF Idle
    <3>2. buckets[d].lastSeen \in Nat /\ now \in Nat
      BY <1>1, <3>1 DEF IngressTypeOK, Bucket
    <3>. QED
      BY <1>2, <3>1, <3>2, IngressAssumption
  <2>. QED
    BY <2>1, <2>2 DEF Fresh
<1>. QED
  BY <1>3, <1>5, <1>6 DEF IngressInv

LEMMA TickStep ==
  ASSUME IngressInv, Tick
  PROVE  IngressInv'
<1>1. IngressTypeOK /\ CreditBounded /\ Fresh
  BY DEF IngressInv
<1>2. /\ now' = now + 1 /\ windowStart' = windowStart /\ admitted' = admitted
      /\ evictedAt' = evictedAt /\ buckets' = buckets /\ now - evictedAt < Interval
  BY DEF Tick
<1>3. /\ now \in Nat /\ windowStart \in Nat /\ evictedAt \in 0..now /\ Rate \in Nat /\ One \in Nat
      /\ Interval \in Nat /\ Burst \in Nat
  BY <1>1, IngressAssumption DEF IngressTypeOK
<1>4. IngressTypeOK'
  <2>1. \A c \in DOMAIN buckets : buckets[c].lastSeen \in Nat
    BY <1>1 DEF IngressTypeOK, Bucket
  <2>2. \A c \in DOMAIN buckets' : buckets'[c].lastSeen <= now'
    BY <1>1, <1>2, <1>3, <2>1 DEF IngressTypeOK
  <2>3. now' \in Nat /\ evictedAt' \in 0..now' /\ windowStart' \in 0..now'
    BY <1>1, <1>2, <1>3 DEF IngressTypeOK
  <2>. QED
    BY <1>1, <1>2, <2>2, <2>3 DEF IngressTypeOK
<1>5. ASSUME NEW c \in Addresses
      PROVE  admitted'[c] * One + Available(c)' <= Burst + Rate * (now' - windowStart')
  <2>1. admitted[c] * One + Available(c) <= Burst + Rate * (now - windowStart)
    BY <1>1 DEF CreditBounded
  <2>2. Available(c) \in 0..Burst
    BY <1>1, AvailableFacts
  <2>3. Available(c)' \in Int /\ Available(c)' <= Available(c) + Rate
    <3>1. CASE c \in DOMAIN buckets
      <4> DEFINE seen == buckets[c].lastSeen
      <4> DEFINE tokens == buckets[c].tokens
      <4>1. seen \in Nat /\ tokens \in 0..Burst
        BY <1>1, <1>3, <3>1 DEF IngressTypeOK, Bucket
      <4>2. /\ Available(c) = Least(Burst, tokens + (now - seen) * Rate)
            /\ Available(c)' = Least(Burst, tokens + (now' - seen) * Rate)
        BY <1>2, <3>1 DEF Available, Least
      <4> HIDE DEF seen, tokens
      <4>3. (now' - seen) * Rate = (now - seen) * Rate + Rate /\ (now - seen) * Rate \in Int
        BY <1>2, <1>3, <4>1, RefillGrows
      <4>. QED
        BY <1>3, <4>1, <4>2, <4>3 DEF Least
    <3>2. CASE c \notin DOMAIN buckets
      BY <1>2, <1>3, <3>2 DEF Available
    <3>. QED
      BY <3>1, <3>2
  <2>4. Rate * (now' - windowStart') = Rate * (now - windowStart) + Rate
    BY <1>2, <1>3, RefillGrows
  <2>5. admitted[c] * One \in Int /\ Rate * (now - windowStart) \in Int /\ admitted'[c] = admitted[c]
    BY <1>1, <1>2, <1>3 DEF IngressTypeOK
  <2>. QED
    BY <1>3, <2>1, <2>2, <2>3, <2>4, <2>5
<1>6. Fresh'
  BY <1>1, <1>2, <1>3 DEF Fresh
<1>. QED
  BY <1>4, <1>5, <1>6 DEF IngressInv, CreditBounded

LEMMA WindowStep ==
  ASSUME IngressInv, OpenWindow
  PROVE  IngressInv'
<1>1. IngressTypeOK /\ Fresh
  BY DEF IngressInv
<1>2. /\ now' = now /\ windowStart' = now /\ admitted' = [c \in Addresses |-> 0]
      /\ evictedAt' = evictedAt /\ buckets' = buckets
  BY DEF OpenWindow
<1>3. IngressTypeOK'
  BY <1>1, <1>2 DEF IngressTypeOK
<1>4. ASSUME NEW c \in Addresses
      PROVE  admitted'[c] * One + Available(c)' <= Burst + Rate * (now' - windowStart')
  <2>1. Available(c) \in 0..Burst /\ Available(c)' = Available(c)
    BY <1>1, <1>2, AvailableFacts DEF Available
  <2>2. admitted'[c] * One = 0 /\ Rate * (now' - windowStart') = 0
    BY <1>1, <1>2, IngressAssumption DEF IngressTypeOK
  <2>. QED
    BY <2>1, <2>2, IngressAssumption
<1>5. Fresh'
  BY <1>1, <1>2 DEF Fresh
<1>. QED
  BY <1>3, <1>4, <1>5 DEF IngressInv, CreditBounded

LEMMA IngressInductive == IngressInv /\ [IngressNext]_ingressVars => IngressInv'
<1>1. ASSUME IngressInv, UNCHANGED ingressVars PROVE IngressInv'
  BY <1>1 DEF IngressInv, IngressTypeOK, CreditBounded, Fresh, Available, ingressVars
<1>. QED
  BY <1>1, AllowStep, EvictStep, TickStep, WindowStep DEF IngressNext

LEMMA IngressAlways == IngressSpec => []IngressInv
  BY IngressInitial, IngressInductive, PTL DEF IngressSpec

(* A bucket never holds more than the burst nor less than nothing, and was *)
(* never touched later than now.                                           *)
THEOREM BucketsWellFormed == IngressSpec => []IngressTypeOK
<1>1. IngressInv => IngressTypeOK
  BY DEF IngressInv
<1>. QED
  BY <1>1, IngressAlways, PTL

(* For every rate and burst, and however requests, evictions and the clock *)
(* interleave: in a window that starts at any time a client gets no more   *)
(* requests through Allow than one burst and the refill of the window.     *)
THEOREM RateIsEnforced == IngressSpec => []AdmittedBounded
<1>1. IngressInv => AdmittedBounded
  <2> SUFFICES ASSUME IngressInv, NEW c \in Addresses
               PROVE  admitted[c] * One <= Burst + Rate * (now - windowStart)
    BY DEF AdmittedBounded
  <2>1. admitted[c] * One + Available(c) <= Burst + Rate * (now - windowStart)
    BY DEF IngressInv, CreditBounded
  <2>2. Available(c) \in Nat /\ admitted[c] * One \in Int /\ Rate * (now - windowStart) \in Int
    BY AvailableFacts, IngressAssumption DEF IngressInv, IngressTypeOK
  <2>. QED
    BY <2>1, <2>2, IngressAssumption
<1>. QED
  BY <1>1, IngressAlways, PTL

(* evictIdle keeps l.buckets from growing with every client ever seen: no  *)
(* bucket outlives its last request by more than the TTL and one interval. *)
THEOREM IdleBucketsGo == IngressSpec => []IdleBounded
<1>1. IngressInv => IdleBounded
  <2> SUFFICES ASSUME IngressInv, NEW c \in DOMAIN buckets
               PROVE  now - buckets[c].lastSeen <= TTL + Interval
    BY DEF IdleBounded
  <2>1. buckets[c].lastSeen \in Nat /\ now \in Nat /\ evictedAt \in 0..now
    BY DEF IngressInv, IngressTypeOK, Bucket
  <2>2. now - evictedAt <= Interval /\ evictedAt - buckets[c].lastSeen <= TTL
    BY DEF IngressInv, Fresh
  <2>. QED
    BY <2>1, <2>2, IngressAssumption
<1>. QED
  BY <1>1, IngressAlways, PTL

(* Division rounds down.                                                   *)
LEMMA Quotient ==
  ASSUME NEW a \in Nat, NEW b \in Nat \ {0}
  PROVE  a \div b \in Nat /\ (a \div b) * b <= a /\ a < (a \div b) * b + b
BY SMT

(* Multiplication by a natural number keeps the order.                     *)
LEMMA ProductOrder ==
  ASSUME NEW a \in Int, NEW b \in Int, NEW c \in Nat, a <= b
  PROVE  c * a \in Int /\ c * b \in Int /\ c * a <= c * b
BY SMT

(* The wait named in a refusal is honest, for every rate and number of     *)
(* tokens: after it the client has a token, a second earlier it had none.  *)
THEOREM RefusalsAreHonest ==
  ASSUME NEW tokens \in 0..(One - 1)
  PROVE  RetryAfterHonest(tokens)
<1> DEFINE w == (One - tokens) \div Rate
           n == CeilDiv(w, Second)
           retry == RetryAfter(tokens)
           lack == One - tokens
<1> USE IngressAssumption
<1>1. lack \in Nat /\ lack > 0
  OBVIOUS
<1>2. w \in Nat /\ w * Rate <= lack /\ lack < w * Rate + Rate
  BY <1>1, Quotient
<1>3. n \in Nat /\ n * Second <= w + Second - 1 /\ w + Second - 1 < n * Second + Second
  <2>1. w + Second - 1 \in Nat
    BY <1>2
  <2> HIDE DEF w
  <2>. QED
    BY <2>1, Quotient DEF CeilDiv
<1>4. retry = IF n < 1 THEN 1 ELSE n
  BY DEF RetryAfter
<1> HIDE DEF w, n, retry, lack
<1>5. retry \in Nat /\ retry >= 1 /\ retry >= n
  BY <1>3, <1>4
<1>6. w <= retry * Second /\ retry * Second \in Int
  <2>1. Second * n <= Second * retry /\ Second * n \in Int /\ Second * retry \in Int
    BY <1>3, <1>5, ProductOrder
  <2>2. Second * n = n * Second /\ Second * retry = retry * Second
    BY <1>3, <1>5
  <2>. QED
    BY <1>2, <1>3, <2>1, <2>2
<1>7. tokens + Rate * (retry * Second + 1) >= One
  <2>1. Rate * w <= Rate * (retry * Second) /\ Rate * w \in Int /\ Rate * (retry * Second) \in Int
    BY <1>2, <1>6, ProductOrder
  <2>2. Rate * w = w * Rate /\ Rate * (retry * Second + 1) = Rate * (retry * Second) + Rate
    BY <1>2, <1>6
  <2>. QED
    BY <1>1, <1>2, <2>1, <2>2 DEF lack
<1>8. ASSUME retry # 1 PROVE tokens + Rate * (retry - 1) * Second < One
  <2>1. retry = n
    BY <1>3, <1>4, <1>8
  <2> DEFINE m == (retry - 1) * Second
  <2>2. m \in Int /\ m = n * Second - Second
    BY <1>3, <2>1
  <2>3. Rate * (retry - 1) * Second = Rate * m
    BY <1>5
  <2> HIDE DEF m
  <2>4. m <= w - 1
    BY <1>2, <1>3, <2>2
  <2>5. Rate * m <= Rate * (w - 1) /\ Rate * m \in Int /\ Rate * (w - 1) \in Int
    BY <1>2, <2>2, <2>4, ProductOrder
  <2>6. Rate * (w - 1) = w * Rate - Rate
    BY <1>2
  <2>. QED
    BY <1>1, <1>2, <2>3, <2>5, <2>6 DEF lack
<1>. QED
  BY <1>7, <1>8 DEF RetryAfterHonest, retry
=============================================================================
