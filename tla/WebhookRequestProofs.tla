------------------------- MODULE WebhookRequestProofs -------------------------
(***************************************************************************)
(* Proofs about the webhook handler of WebhookRequest, for any number of   *)
(* requests and alerts and any semaphore: the answer tells the outcome of  *)
(* all alerts, one configuration routes the request, and the counters are  *)
(* those of the answers.                                                   *)
(***************************************************************************)
EXTENDS WebhookRequest, FiniteSetTheorems, TLAPS

Stages == {"new", "key", "target", "parse", "alerts", "lookup", "create", "count", "answered"}
Codes == {0, 200, 400, 401, 429, 500, 502}
Outcomes == {"none", "ok", "error"}

(* The alerts that parsing can yield.                                      *)
Objects == UNION {{b.alerts[i] : i \in DOMAIN b.alerts} : b \in Bodies}
Parsed == {UniversalToGrafana(a) : a \in Objects} \cup {LabelledAlert(a) : a \in Objects}

DataTypes ==
  /\ stage \in [Requests -> Stages] /\ status \in [Requests -> Codes]
  /\ body \in [Requests -> Bodies \cup {Nothing}]
  /\ alerts \in [Requests -> Seq(Parsed)]
  /\ spawned \in [Requests -> Nat] /\ running \in [Requests -> SUBSET Nat]
  /\ results \in [Requests -> Seq(Outcomes)]
ErrorFlags == hasErrors \in [Requests -> BOOLEAN]

(* How far a request is: nothing was started before its alerts are parsed, *)
(* and all of them have ended before it is counted and answered.           *)
StageInv(r) ==
  /\ stage[r] \in {"key", "target", "parse"} => body[r] \in Bodies
  /\ stage[r] \in {"new", "key", "target", "parse"} => alerts[r] = <<>>
  /\ stage[r] # "answered" => status[r] = 0
  /\ stage[r] \in {"lookup", "create", "count"} \/ status[r] \in {200, 502} =>
       spawned[r] = Len(alerts[r]) /\ running[r] = {}

(* An alert has a result exactly when its goroutine has ended.             *)
AlertInv(r) ==
  /\ Len(results[r]) = Len(alerts[r]) /\ spawned[r] <= Len(alerts[r])
  /\ running[r] \subseteq 1..spawned[r]
  /\ \A i \in 1..Len(results[r]) : results[r][i] = "none" <=> i > spawned[r] \/ i \in running[r]

SlotInv(r) ==
  IsFiniteSet(running[r]) /\ Cardinality(running[r]) \in Nat /\ Cardinality(running[r]) <= MaxParallel

Failed(r) == \E i \in 1..Len(results[r]) : results[r][i] = "error"

(* The flag and the answer tell whether an alert failed.                   *)
ErrorInv(r) ==
  /\ hasErrors[r] <=> Failed(r)
  /\ status[r] = 200 => ~Failed(r)
  /\ status[r] = 502 => Failed(r)

DataInv == DataTypes /\ \A r \in Requests : StageInv(r) /\ AlertInv(r)
-----------------------------------------------------------------------------
LEMMA DataInit == WebhookInit => DataInv /\ ErrorFlags
<1> SUFFICES ASSUME WebhookInit PROVE DataInv /\ ErrorFlags
  OBVIOUS
<1>1. DataTypes
  BY DEF WebhookInit, DataTypes, Stages, Codes
<1>2. \A r \in Requests : StageInv(r) /\ AlertInv(r)
  BY DEF WebhookInit, StageInv, AlertInv
<1>3. ErrorFlags
  BY Zenon DEF WebhookInit, ErrorFlags
<1>. QED
  BY <1>1, <1>2, <1>3 DEF DataInv

(* What parsing yields.                                                    *)
LEMMA ParseTyped ==
  ASSUME NEW b \in Bodies
  PROVE  ParseWebhookPayload(b) \in Seq(Parsed)
<1> DEFINE objects == IF "alerts" \in b.fields THEN b.alerts ELSE <<>>
           n == Len(objects)
           parsed(i) == IF DetectFormat(b.fields) = "universal"
                          THEN UniversalToGrafana(objects[i]) ELSE LabelledAlert(objects[i])
<1>1. n \in Nat /\ \A i \in 1..n : objects[i] \in Objects
  <2>1. CASE "alerts" \in b.fields
    BY <2>1, WebhookAssumption DEF Objects
  <2>2. CASE "alerts" \notin b.fields
    BY <2>2
  <2>. QED
    BY <2>1, <2>2
<1>2. ParseWebhookPayload(b) = [i \in 1..n |-> parsed(i)]
  BY DEF ParseWebhookPayload
<1> HIDE DEF n, objects
<1>3. \A i \in 1..n : parsed(i) \in Parsed
  BY <1>1 DEF Parsed
<1> HIDE DEF parsed
<1>. QED
  BY <1>1, <1>2, <1>3

(* The steps of a request that start and end no alert.                     *)
Walks(r) ==
  \/ \E k \in ApiKeys, b \in Bodies : Arrive(r, k, b)
  \/ ValidateKey(r) \/ FindTarget(r)
  \/ RecordMetrics(r) \/ PerKeyLookup(r) \/ PerKeyCreate(r) \/ Answer(r)
Rests == (\E c \in Configs : ReloadKeys(c)) \/ ReloadTargets \/ UNCHANGED webhookVars

LEMMA Cases ==
  ASSUME [WebhookNext]_webhookVars
  PROVE  \/ Rests
         \/ \E r \in Requests : \/ Walks(r) \/ Parse(r) \/ Spawn(r)
                                \/ \E i \in running[r] : Finish(r, i)
BY DEF WebhookNext, Handle, Walks, Rests

(* What a walk changes: its stage and, when it ends, its status.           *)
LEMMA WalkMoves ==
  ASSUME DataInv, NEW r \in Requests, Walks(r)
  PROVE  /\ UNCHANGED <<alerts, spawned, running, results>>
         /\ stage' = [stage EXCEPT ![r] = stage'[r]] /\ stage'[r] \in Stages
         /\ status' = [status EXCEPT ![r] = status'[r]] /\ status'[r] \in Codes
         /\ body' = [body EXCEPT ![r] = body'[r]] /\ body'[r] \in Bodies \cup {Nothing}
         /\ StageInv(r)'
<1>0. /\ stage \in [Requests -> Stages] /\ status \in [Requests -> Codes]
      /\ body \in [Requests -> Bodies \cup {Nothing}] /\ StageInv(r)
  BY DEF DataInv, DataTypes
<1> USE DEF Stages, Codes, StageInv, Reply, alertVars
<1>1. CASE \E k \in ApiKeys, b \in Bodies : Arrive(r, k, b)
  BY <1>0, <1>1 DEF Arrive
<1>2. CASE ValidateKey(r)
  BY <1>0, <1>2 DEF ValidateKey
<1>3. CASE FindTarget(r)
  BY <1>0, <1>3 DEF FindTarget
<1>4. CASE RecordMetrics(r)
  BY <1>0, <1>4 DEF RecordMetrics
<1>5. CASE PerKeyLookup(r)
  BY <1>0, <1>5 DEF PerKeyLookup
<1>6. CASE PerKeyCreate(r)
  BY <1>0, <1>6 DEF PerKeyCreate
<1>7. CASE Answer(r)
  BY <1>0, <1>7 DEF Answer
<1>. QED
  BY <1>1, <1>2, <1>3, <1>4, <1>5, <1>6, <1>7 DEF Walks

LEMMA WalkKeeps ==
  ASSUME DataInv, NEW r \in Requests, Walks(r)
  PROVE  DataInv'
<1> USE WalkMoves DEF DataInv
<1>1. DataTypes'
  BY Zenon DEF DataTypes
<1>2. \A e \in Requests \ {r} : UNCHANGED <<stage[e], status[e], body[e]>>
  BY DEF DataTypes
<1>3. \A e \in Requests \ {r} : StageInv(e)'
  BY <1>2 DEF StageInv
<1>4. \A e \in Requests : AlertInv(e)'
  BY DEF AlertInv
<1>. QED
  BY <1>1, <1>3, <1>4

LEMMA ParseKeeps ==
  ASSUME DataInv, NEW r \in Requests, Parse(r)
  PROVE  DataInv'
<1> USE DEF DataInv
<1>0. /\ body[r] \in Bodies /\ stage[r] = "parse" /\ alerts[r] = <<>> /\ spawned[r] = 0
      /\ running[r] = {} /\ status[r] = 0
  BY DEF Parse, StageInv, AlertInv, DataTypes
<1>1. CASE Reply(r, 400) /\ UNCHANGED <<alerts, results>>
  <2>1. DataTypes' /\ \A e \in Requests : AlertInv(e)'
    BY <1>1 DEF Parse, Reply, DataTypes, Stages, Codes, AlertInv
  <2>2. \A e \in Requests : StageInv(e)'
    BY <1>1 DEF Parse, Reply, DataTypes, StageInv
  <2>. QED
    BY <2>1, <2>2
<1>2. CASE /\ alerts' = [alerts EXCEPT ![r] = ParseWebhookPayload(body[r])]
           /\ results' = [results EXCEPT ![r] = [i \in DOMAIN alerts'[r] |-> "none"]]
           /\ stage' = [stage EXCEPT ![r] = "alerts"]
           /\ UNCHANGED status
  <2> DEFINE parsed == ParseWebhookPayload(body[r])
             none == [i \in DOMAIN parsed |-> "none"]
  <2>1. parsed \in Seq(Parsed)
    BY <1>0, ParseTyped
  <2>2. alerts' = [alerts EXCEPT ![r] = parsed] /\ results' = [results EXCEPT ![r] = none]
    BY <1>2 DEF DataTypes
  <2> HIDE DEF parsed
  <2>3. none \in Seq(Outcomes) /\ Len(none) = Len(parsed) /\ \A i \in 1..Len(none) : none[i] = "none"
    BY <2>1 DEF Outcomes
  <2> HIDE DEF none
  <2>4. UNCHANGED <<spawned, running, body>>
    BY DEF Parse
  <2>5. DataTypes'
    BY <1>2, <2>1, <2>2, <2>3, <2>4 DEF DataTypes, Stages
  <2>6. AlertInv(r)'
    BY <1>0, <2>1, <2>2, <2>3, <2>4 DEF DataTypes, AlertInv
  <2>7. StageInv(r)'
    BY <1>0, <1>2 DEF DataTypes, StageInv
  <2>8. ASSUME NEW e \in Requests \ {r} PROVE StageInv(e)' /\ AlertInv(e)'
    <3>1. UNCHANGED <<stage[e], status[e], alerts[e], results[e], spawned[e], running[e], body[e]>>
      BY <1>2, <2>2, <2>4 DEF DataTypes
    <3>. QED
      BY <3>1 DEF StageInv, AlertInv
  <2>. QED
    BY <2>5, <2>6, <2>7, <2>8
<1>. QED
  BY <1>1, <1>2 DEF Parse

LEMMA SpawnKeeps ==
  ASSUME DataInv, NEW r \in Requests, Spawn(r)
  PROVE  DataInv'
<1> USE DEF DataInv
<1>1. /\ stage[r] = "alerts" /\ spawned[r] < Len(alerts[r]) /\ spawned[r] \in Nat
      /\ spawned' = [spawned EXCEPT ![r] = spawned[r] + 1]
      /\ running' = [running EXCEPT ![r] = running[r] \cup {spawned[r] + 1}]
      /\ UNCHANGED <<results, stage, status, alerts, body>>
  BY DEF Spawn, requestVars, DataTypes
<1>2. DataTypes'
  BY <1>1 DEF DataTypes
<1>3. StageInv(r)'
  BY <1>1 DEF StageInv, DataTypes
<1>4. AlertInv(r)'
  <2>1. spawned'[r] = spawned[r] + 1 /\ running'[r] = running[r] \cup {spawned[r] + 1}
    BY <1>1 DEF DataTypes
  <2>. QED
    BY <1>1, <2>1 DEF AlertInv, DataTypes
<1>5. ASSUME NEW e \in Requests \ {r} PROVE StageInv(e)' /\ AlertInv(e)'
  <2>1. UNCHANGED <<stage[e], status[e], alerts[e], results[e], spawned[e], running[e], body[e]>>
    BY <1>1 DEF DataTypes
  <2>. QED
    BY <2>1 DEF StageInv, AlertInv
<1>. QED
  BY <1>2, <1>3, <1>4, <1>5

(* The end of an alert's goroutine, for one outcome.                       *)
LEMMA FinishMoves ==
  ASSUME DataInv, NEW r \in Requests, NEW i \in running[r], Finish(r, i)
  PROVE  /\ i \in 1..Len(results[r]) /\ results[r][i] = "none"
         /\ UNCHANGED <<spawned, stage, status, alerts, body>>
         /\ running' = [running EXCEPT ![r] = running[r] \ {i}]
         /\ \E outcome \in {"ok", "error"} :
              /\ results' = [results EXCEPT ![r] = [results[r] EXCEPT ![i] = outcome]]
              /\ hasErrors' = [hasErrors EXCEPT ![r] = hasErrors[r] \/ outcome = "error"]
<1>1. i \in 1..Len(results[r])
  BY DEF DataInv, AlertInv, DataTypes
<1>2. UNCHANGED <<spawned, stage, status, alerts, body>> /\ results[r][i] = "none"
  BY DEF Finish, requestVars
<1>3. PICK outcome \in Outcome(alerts[r][i]) :
        /\ results' = [results EXCEPT ![r][i] = outcome]
        /\ hasErrors' = [hasErrors EXCEPT ![r] = @ \/ outcome = "error"]
        /\ running' = [running EXCEPT ![r] = @ \ {i}]
  BY Zenon DEF Finish
<1>4. outcome \in {"ok", "error"}
  BY Zenon DEF Outcome
<1>5. running' = [running EXCEPT ![r] = running[r] \ {i}]
  BY <1>3
<1>6. results' = [results EXCEPT ![r] = [results[r] EXCEPT ![i] = outcome]]
  BY <1>3
<1>7. hasErrors' = [hasErrors EXCEPT ![r] = hasErrors[r] \/ outcome = "error"]
  BY <1>3, Zenon
<1>. QED
  BY <1>1, <1>2, <1>4, <1>5, <1>6, <1>7, Zenon

LEMMA FinishKeeps ==
  ASSUME DataInv, NEW r \in Requests, NEW i \in running[r], Finish(r, i)
  PROVE  DataInv'
<1> USE DEF DataInv
<1>1. /\ i \in 1..Len(results[r]) /\ results[r] \in Seq(Outcomes)
      /\ UNCHANGED <<spawned, stage, status, alerts, body>>
      /\ running' = [running EXCEPT ![r] = running[r] \ {i}]
  BY FinishMoves DEF DataTypes
<1>2. PICK outcome \in {"ok", "error"} :
        results' = [results EXCEPT ![r] = [results[r] EXCEPT ![i] = outcome]]
  BY FinishMoves
<1> DEFINE new == [results[r] EXCEPT ![i] = outcome]
<1>3. /\ new \in Seq(Outcomes) /\ Len(new) = Len(results[r]) /\ new[i] = outcome
      /\ \A j \in 1..Len(new) : j # i => new[j] = results[r][j]
  BY <1>1 DEF Outcomes
<1>4. results' = [results EXCEPT ![r] = new]
  BY <1>2
<1> HIDE DEF new
<1>5. DataTypes'
  BY <1>1, <1>3, <1>4 DEF DataTypes
<1>6. results'[r] = new /\ running'[r] = running[r] \ {i}
  BY <1>1, <1>4 DEF DataTypes
<1>7. AlertInv(r)'
  BY <1>1, <1>3, <1>6 DEF AlertInv, DataTypes
<1>8. StageInv(r)'
  BY <1>1, <1>6 DEF StageInv
<1>9. ASSUME NEW e \in Requests \ {r} PROVE StageInv(e)' /\ AlertInv(e)'
  <2>1. UNCHANGED <<stage[e], status[e], alerts[e], results[e], spawned[e], running[e], body[e]>>
    BY <1>1, <1>4 DEF DataTypes
  <2>2. StageInv(e)'
    BY <2>1 DEF StageInv
  <2>3. AlertInv(e)'
    BY <2>1 DEF AlertInv
  <2>. QED
    BY <2>2, <2>3
<1>. QED
  BY <1>5, <1>7, <1>8, <1>9

LEMMA DataStep ==
  ASSUME DataInv, [WebhookNext]_webhookVars
  PROVE  DataInv'
<1>1. CASE Rests
  <2>1. UNCHANGED <<stage, status, alerts, results, spawned, running, body>>
    BY <1>1 DEF Rests, ReloadKeys, ReloadTargets, webhookVars, alertVars, requestVars
  <2>. QED
    BY <2>1 DEF DataInv, DataTypes, StageInv, AlertInv
<1>. QED
  BY <1>1, WalkKeeps, ParseKeeps, SpawnKeeps, FinishKeeps, Cases
-----------------------------------------------------------------------------
(* The flag and the answer.                                                *)
ErrorsInv == ErrorFlags /\ \A r \in Requests : ErrorInv(r)

LEMMA ErrorsInit == WebhookInit => ErrorsInv
<1> SUFFICES ASSUME WebhookInit PROVE ErrorsInv
  OBVIOUS
<1>1. ASSUME NEW r \in Requests PROVE ~hasErrors[r] /\ ~Failed(r) /\ status[r] = 0
  BY DEF WebhookInit, Failed
<1>. QED
  BY <1>1, DataInit DEF ErrorsInv, ErrorInv

(* A request whose results, flag and answer stay.                          *)
LEMMA ErrorUnmoved ==
  ASSUME NEW e \in Requests, ErrorInv(e), UNCHANGED results[e], UNCHANGED hasErrors[e],
         status'[e] \notin {200, 502} \/ status'[e] = status[e]
  PROVE  ErrorInv(e)'
<1>1. Failed(e)' <=> Failed(e)
  BY DEF Failed
<1>. QED
  BY <1>1 DEF ErrorInv

LEMMA WalkTells ==
  ASSUME DataInv, ErrorsInv, NEW r \in Requests, Walks(r)
  PROVE  ErrorsInv'
<1>1. UNCHANGED results /\ UNCHANGED hasErrors
  BY DEF Walks, Arrive, ValidateKey, FindTarget, RecordMetrics, PerKeyLookup, PerKeyCreate, Answer,
     alertVars
<1>2. \A e \in Requests \ {r} : status'[e] = status[e]
  BY WalkMoves DEF DataInv, DataTypes
<1>3. CASE Answer(r)
  <2>1. /\ hasErrors[r] => status'[r] = 502
        /\ ~hasErrors[r] => status'[r] = 200
    BY <1>3 DEF Answer, Reply, DataInv, DataTypes
  <2>2. hasErrors[r] <=> Failed(r)
    BY DEF ErrorsInv, ErrorInv
  <2>3. ErrorInv(r)'
    BY <1>1, <2>1, <2>2 DEF ErrorInv, Failed
  <2>. QED
    BY <1>1, <1>2, <2>3, ErrorUnmoved DEF ErrorsInv, ErrorFlags
<1>4. CASE ~Answer(r)
  <2> DEFINE Quiet == status'[r] \notin {200, 502} \/ status'[r] = status[r]
  <2>0. status \in [Requests -> Codes]
    BY DEF DataInv, DataTypes
  <2>1. ASSUME \E k \in ApiKeys, b \in Bodies : Arrive(r, k, b) PROVE Quiet
    BY <2>0, <2>1 DEF Arrive, Reply
  <2>2. ASSUME ValidateKey(r) PROVE Quiet
    BY <2>0, <2>2 DEF ValidateKey, Reply
  <2>3. ASSUME FindTarget(r) PROVE Quiet
    BY <2>0, <2>3 DEF FindTarget, Reply
  <2>4. ASSUME RecordMetrics(r) \/ PerKeyLookup(r) \/ PerKeyCreate(r) PROVE Quiet
    BY <2>4 DEF RecordMetrics, PerKeyLookup, PerKeyCreate
  <2>5. Quiet
    BY <1>4, <2>1, <2>2, <2>3, <2>4 DEF Walks
  <2>. QED
    BY <1>1, <1>2, <2>5, ErrorUnmoved DEF ErrorsInv, ErrorFlags
<1>. QED
  BY <1>3, <1>4

LEMMA ParseTells ==
  ASSUME DataInv, ErrorsInv, NEW r \in Requests, Parse(r)
  PROVE  ErrorsInv'
<1>1. UNCHANGED hasErrors /\ DataInv'
  BY ParseKeeps, Zenon DEF Parse
<1>2. /\ status'[r] \notin {200, 502}
      /\ \A e \in Requests \ {r} : status'[e] = status[e] /\ results'[e] = results[e]
  <2>1. stage[r] = "parse" /\ status[r] = 0
    BY DEF Parse, DataInv, StageInv
  <2>2. status' = [status EXCEPT ![r] = 400] \/ status' = status
    BY DEF Parse, Reply
  <2>3. results' = results \/ results' = [results EXCEPT ![r] = [i \in DOMAIN alerts'[r] |-> "none"]]
    BY DEF Parse
  <2>4. status \in [Requests -> Codes] /\ results \in [Requests -> Seq(Outcomes)]
    BY DEF DataInv, DataTypes
  <2>. QED
    BY <2>1, <2>2, <2>3, <2>4
<1>3. ~Failed(r)
  BY DEF Parse, DataInv, StageInv, AlertInv, DataTypes, Failed
<1>4. ~Failed(r)'
  <2>1. \A i \in 1..Len(results'[r]) : results'[r][i] = "none"
    <3>1. spawned'[r] = 0
      BY DEF Parse, DataInv, StageInv, AlertInv, DataTypes
    <3>. QED
      BY <1>1, <3>1 DEF DataInv, AlertInv, DataTypes
  <2>. QED
    BY <2>1 DEF Failed
<1>5. ErrorInv(r)'
  BY <1>1, <1>2, <1>3, <1>4 DEF ErrorsInv, ErrorInv
<1>. QED
  BY <1>1, <1>2, <1>5, ErrorUnmoved DEF ErrorsInv, ErrorFlags

LEMMA FinishTells ==
  ASSUME DataInv, ErrorsInv, NEW r \in Requests, NEW i \in running[r], Finish(r, i)
  PROVE  ErrorsInv'
<1>1. /\ i \in 1..Len(results[r]) /\ results[r][i] = "none" /\ UNCHANGED status
      /\ results \in [Requests -> Seq(Outcomes)]
  BY FinishMoves DEF DataInv, DataTypes
<1>2. PICK outcome \in {"ok", "error"} :
        /\ results' = [results EXCEPT ![r] = [results[r] EXCEPT ![i] = outcome]]
        /\ hasErrors' = [hasErrors EXCEPT ![r] = hasErrors[r] \/ outcome = "error"]
  BY FinishMoves
<1>3. ErrorFlags'
  BY <1>2, Zenon DEF ErrorsInv, ErrorFlags
<1>4. /\ hasErrors'[r] <=> hasErrors[r] \/ outcome = "error"
      /\ \A e \in Requests \ {r} : hasErrors'[e] = hasErrors[e]
  BY <1>2, Zenon DEF ErrorsInv, ErrorFlags
<1>5. \A e \in Requests \ {r} : results'[e] = results[e]
  BY <1>1, <1>2
<1>6. /\ Len(results'[r]) = Len(results[r]) /\ results'[r][i] = outcome
      /\ \A j \in 1..Len(results[r]) : j # i => results'[r][j] = results[r][j]
  BY <1>1, <1>2
<1>7. Failed(r)' <=> Failed(r) \/ outcome = "error"
  BY <1>1, <1>6 DEF Failed
<1>8. status[r] \notin {200, 502}
  BY DEF DataInv, StageInv
<1>9. ErrorInv(r)'
  BY <1>1, <1>4, <1>7, <1>8 DEF ErrorsInv, ErrorInv
<1>. QED
  BY <1>1, <1>3, <1>4, <1>5, <1>9, ErrorUnmoved DEF ErrorsInv

LEMMA ErrorsStep ==
  ASSUME DataInv, ErrorsInv, [WebhookNext]_webhookVars
  PROVE  ErrorsInv'
<1>1. CASE Rests \/ \E r \in Requests : Spawn(r)
  <2>1. UNCHANGED <<results, status>> /\ UNCHANGED hasErrors
    BY <1>1 DEF Rests, ReloadKeys, ReloadTargets, Spawn, webhookVars, alertVars, requestVars
  <2>. QED
    BY <2>1, ErrorUnmoved DEF ErrorsInv, ErrorFlags
<1>. QED
  BY <1>1, WalkTells, ParseTells, FinishTells, Cases

LEMMA SlotsStep ==
  ASSUME DataInv, \A r \in Requests : SlotInv(r), [WebhookNext]_webhookVars
  PROVE  \A r \in Requests : SlotInv(r)'
<1>1. ASSUME NEW e \in Requests, UNCHANGED running[e] PROVE SlotInv(e)'
  BY <1>1 DEF SlotInv
<1>2. CASE UNCHANGED running
  BY <1>1, <1>2
<1>3. ASSUME NEW r \in Requests, Spawn(r) PROVE \A e \in Requests : SlotInv(e)'
  <2>1. /\ running'[r] = running[r] \cup {spawned[r] + 1} /\ Cardinality(running[r]) < MaxParallel
        /\ \A e \in Requests \ {r} : running'[e] = running[e]
    BY <1>3 DEF Spawn, DataInv, DataTypes
  <2>2. spawned[r] + 1 \notin running[r]
    BY DEF DataInv, AlertInv, DataTypes
  <2>3. /\ IsFiniteSet(running[r] \cup {spawned[r] + 1})
        /\ Cardinality(running[r] \cup {spawned[r] + 1}) = Cardinality(running[r]) + 1
    BY <2>2, FS_AddElement DEF SlotInv
  <2>4. SlotInv(r)'
    BY <2>1, <2>3, WebhookAssumption DEF SlotInv
  <2>. QED
    BY <1>1, <2>1, <2>4
<1>4. ASSUME NEW r \in Requests, NEW i \in running[r], Finish(r, i)
      PROVE  \A e \in Requests : SlotInv(e)'
  <2>1. running'[r] = running[r] \ {i} /\ \A e \in Requests \ {r} : running'[e] = running[e]
    BY <1>4, FinishMoves DEF DataInv, DataTypes
  <2>2. IsFiniteSet(running[r] \ {i}) /\ Cardinality(running[r] \ {i}) = Cardinality(running[r]) - 1
    BY FS_RemoveElement, Zenon DEF SlotInv
  <2>3. Cardinality(running[r] \ {i}) \in Nat
    BY <2>2, FS_CardinalityType
  <2>4. SlotInv(r)'
    BY <2>1, <2>2, <2>3, WebhookAssumption DEF SlotInv
  <2>. QED
    BY <1>1, <2>1, <2>4
<1>5. ASSUME NEW r \in Requests, Walks(r) \/ Parse(r) PROVE UNCHANGED running
  BY <1>5, WalkMoves DEF Parse
<1>6. ASSUME Rests PROVE UNCHANGED running
  BY <1>6 DEF Rests, ReloadKeys, ReloadTargets, webhookVars, alertVars
<1>. QED
  BY <1>2, <1>3, <1>4, <1>5, <1>6, Cases
-----------------------------------------------------------------------------
LEMMA DataAlways == WebhookSpec => []DataInv
<1>1. DataInv /\ [WebhookNext]_webhookVars => DataInv'
  BY DataStep
<1>. QED
  BY <1>1, DataInit, PTL DEF WebhookSpec

LEMMA ErrorsAlways == WebhookSpec => []ErrorsInv
<1>1. DataInv /\ ErrorsInv /\ [WebhookNext]_webhookVars => ErrorsInv'
  BY ErrorsStep
<1>. QED
  BY <1>1, ErrorsInit, DataAlways, PTL DEF WebhookSpec

(* Types; and no request ever runs more alerts at a time than its          *)
(* semaphore has slots.                                                    *)
THEOREM RequestTypes == WebhookSpec => []WebhookTypeOK
<1> DEFINE Slots == \A r \in Requests : SlotInv(r)
<1>1. WebhookInit => Slots
  BY FS_EmptySet, WebhookAssumption DEF WebhookInit, SlotInv
<1>2. DataInv /\ Slots /\ [WebhookNext]_webhookVars => Slots'
  BY SlotsStep
<1>3. DataInv /\ ErrorsInv /\ Slots => WebhookTypeOK
  BY DEF DataInv, DataTypes, Stages, Codes, AlertInv, SlotInv, ErrorsInv, ErrorFlags, WebhookTypeOK
<1> HIDE DEF Slots
<1>. QED
  BY <1>1, <1>2, <1>3, DataAlways, ErrorsAlways, PTL DEF WebhookSpec

(* The answer tells the outcome of every alert, for any number of alerts   *)
(* on any number of goroutines.                                            *)
THEOREM AnswersAreTruthful == WebhookSpec => []AnswerTruthful
<1>1. ASSUME DataInv, ErrorsInv, NEW r \in Requests
      PROVE  /\ status[r] = 200 => \A i \in DOMAIN alerts[r] : results[r][i] = "ok"
             /\ status[r] = 502 => /\ \A i \in DOMAIN alerts[r] : results[r][i] # "none"
                                   /\ \E i \in DOMAIN alerts[r] : results[r][i] = "error"
  <2>1. /\ alerts[r] \in Seq(Parsed) /\ results[r] \in Seq(Outcomes)
        /\ Len(results[r]) = Len(alerts[r])
    BY <1>1 DEF DataInv, DataTypes, AlertInv
  <2>2. DOMAIN alerts[r] = 1..Len(results[r])
    BY <2>1
  <2>3. \A i \in 1..Len(results[r]) : results[r][i] \in Outcomes
    BY <2>1
  <2>4. ASSUME status[r] \in {200, 502}, NEW i \in 1..Len(results[r]) PROVE results[r][i] # "none"
    <3>1. /\ spawned[r] = Len(alerts[r]) /\ running[r] = {}
          /\ results[r][i] = "none" <=> i > spawned[r] \/ i \in running[r]
      BY <1>1, <2>4 DEF DataInv, StageInv, AlertInv
    <3>2. i \in Nat /\ i <= Len(alerts[r]) /\ Len(alerts[r]) \in Nat
      BY <2>1
    <3>. QED
      BY <3>1, <3>2
  <2>5. /\ status[r] = 200 => ~Failed(r)
        /\ status[r] = 502 => Failed(r)
    BY <1>1 DEF ErrorsInv, ErrorInv
  <2>. QED
    BY <2>2, <2>3, <2>4, <2>5 DEF Failed, Outcomes
<1>2. DataInv /\ ErrorsInv => AnswerTruthful
  BY <1>1 DEF AnswerTruthful
<1>. QED
  BY <1>2, DataAlways, ErrorsAlways, PTL
-----------------------------------------------------------------------------
(* Routing: one configuration routes a request that no reload overlaps.    *)
(* The tables are those of the current configuration, but in a reload the  *)
(* keys are already those of the next.                                     *)
ConfigInv ==
  /\ current \in Configs /\ reloading \in Configs \cup {Nothing}
  /\ reloading = Nothing => keyStore = current.routes /\ hosts = current.hosts
  /\ reloading # Nothing => keyStore = reloading.routes

RouteTypes ==
  /\ DOMAIN key = Requests /\ DOMAIN route = Requests /\ DOMAIN host = Requests
  /\ routedUnder \in [Requests -> Configs \cup {Nothing}]
OverlapFlags == overlapped \in [Requests -> BOOLEAN]

RouteBy(c, k) == c.routes[k]
HostBy(c, k) == c.hosts[RouteBy(c, k).target]

(* A configuration is noted from the first read until the body is parsed.  *)
Early(r) ==
  /\ stage[r] \in {"new", "key"} => routedUnder[r] = Nothing
  /\ stage[r] \in {"new", "key", "target"} => host[r] = Nothing
  /\ routedUnder[r] # Nothing => stage[r] \in {"target", "parse", "answered"}

(* What configuration c says of a request with key k: stg, st and h are    *)
(* its stage, answer and host.                                             *)
Agrees(c, k, stg, st, h) ==
  /\ stg \in {"target", "parse"} => k \in DOMAIN c.routes
  /\ st = 401 <=> k \notin DOMAIN c.routes
  /\ st # 500
  /\ h # Nothing => h = HostBy(c, k)

(* Between the two reads the configuration is still the one of the first;  *)
(* after them the request has its host or its answer by it.                *)
Agreed(r) ==
  /\ Agrees(routedUnder[r], key[r], stage[r], status[r], host[r])
  /\ stage[r] = "target" => /\ routedUnder[r] = current /\ reloading = Nothing
                            /\ route[r] = RouteBy(routedUnder[r], key[r])

RouteInv(r) == Early(r) /\ (routedUnder[r] # Nothing /\ ~overlapped[r] => Agreed(r))

RoutesInv == ConfigInv /\ RouteTypes /\ \A r \in Requests : RouteInv(r)

LEMMA RoutesInit == WebhookInit => RoutesInv /\ OverlapFlags
<1> SUFFICES ASSUME WebhookInit PROVE RoutesInv /\ OverlapFlags
  OBVIOUS
<1>1. ConfigInv
  BY WebhookAssumption DEF WebhookInit, ConfigInv
<1>2. RouteTypes /\ \A r \in Requests : RouteInv(r)
  BY DEF WebhookInit, RouteTypes, RouteInv, Early
<1>3. OverlapFlags
  BY Zenon DEF WebhookInit, OverlapFlags
<1>. QED
  BY <1>1, <1>2, <1>3 DEF RoutesInv

LEMMA RouteUnmoved ==
  ASSUME NEW e \in Requests, RouteInv(e), UNCHANGED <<current, reloading>>,
         UNCHANGED <<stage[e], status[e], key[e], route[e], host[e], routedUnder[e]>>,
         UNCHANGED overlapped[e]
  PROVE  RouteInv(e)'
<1>1. Early(e)'
  BY DEF RouteInv, Early
<1>2. ASSUME Agreed(e) PROVE Agreed(e)'
  BY <1>2 DEF Agreed
<1>. QED
  BY <1>1, <1>2 DEF RouteInv

LEMMA OverlapStep ==
  ASSUME OverlapFlags, [WebhookNext]_webhookVars
  PROVE  OverlapFlags'
<1>1. CASE UNCHANGED overlapped
  BY <1>1 DEF OverlapFlags
<1>2. ASSUME NEW r \in Requests, ValidateKey(r) \/ Parse(r) PROVE OverlapFlags'
  BY <1>2, Zenon DEF ValidateKey, Parse, OverlapFlags
<1>3. ASSUME (\E c \in Configs : ReloadKeys(c)) \/ ReloadTargets PROVE OverlapFlags'
  BY <1>3, Zenon DEF ReloadKeys, ReloadTargets, Overlaps, OverlapFlags
<1>4. ASSUME NEW r \in Requests,
             \/ Walks(r) /\ ~ValidateKey(r)
             \/ Spawn(r)
             \/ \E i \in running[r] : Finish(r, i)
      PROVE  UNCHANGED overlapped
  BY <1>4 DEF Walks, Arrive, FindTarget, RecordMetrics, PerKeyLookup, PerKeyCreate, Answer, Spawn,
     Finish, requestVars
<1>. QED
  BY <1>1, <1>2, <1>3, <1>4, Cases DEF Rests, Walks, webhookVars, requestVars

(* Steps of a request that is not between its two reads.                   *)
Apart(r) ==
  \/ \E k \in ApiKeys, b \in Bodies : Arrive(r, k, b)
  \/ Parse(r) \/ RecordMetrics(r) \/ PerKeyLookup(r) \/ PerKeyCreate(r) \/ Answer(r)

(* A step of r leaves the configuration and the other requests alone.      *)
LEMMA OthersUnmoved ==
  ASSUME DataInv, RoutesInv, OverlapFlags, NEW r \in Requests,
         Apart(r) \/ ValidateKey(r) \/ FindTarget(r)
  PROVE  /\ ConfigInv' /\ RouteTypes' /\ UNCHANGED <<current, reloading, keyStore, hosts>>
         /\ \A e \in Requests \ {r} : RouteInv(e)'
<1>1. UNCHANGED <<current, reloading, keyStore, hosts>>
  BY DEF Apart, Arrive, ValidateKey, FindTarget, Parse, RecordMetrics, PerKeyLookup, PerKeyCreate,
     Answer, routingVars
<1>2. ConfigInv'
  BY <1>1 DEF RoutesInv, ConfigInv
<1>3. RouteTypes'
  BY DEF Apart, Arrive, ValidateKey, FindTarget, Parse, RecordMetrics, PerKeyLookup, PerKeyCreate,
     Answer, RoutesInv, RouteTypes, ConfigInv
<1>4. ASSUME NEW e \in Requests \ {r}
      PROVE  UNCHANGED <<stage[e], status[e], key[e], route[e], host[e], routedUnder[e]>>
  <2>1. Walks(r) \/ Parse(r)
    BY DEF Apart, Walks
  <2>2. UNCHANGED <<stage[e], status[e]>>
    <3>1. /\ stage' = [stage EXCEPT ![r] = stage'[r]]
          /\ status' = [status EXCEPT ![r] = status'[r]]
      <4>1. CASE Walks(r)
        BY <4>1, WalkMoves
      <4>2. CASE Parse(r)
        BY <4>2 DEF Parse, Reply, DataInv, DataTypes
      <4>. QED
        BY <2>1, <4>1, <4>2
    <3>. QED
      BY <3>1 DEF DataInv, DataTypes
  <2>3. UNCHANGED <<key[e], routedUnder[e]>>
    <3>1. UNCHANGED key \/ \E k : key' = [key EXCEPT ![r] = k]
      BY <2>1 DEF Walks, Arrive, ValidateKey, FindTarget, Parse, RecordMetrics, PerKeyLookup,
         PerKeyCreate, Answer
    <3>2. UNCHANGED routedUnder \/ \E c : routedUnder' = [routedUnder EXCEPT ![r] = c]
      BY <2>1 DEF Walks, Arrive, ValidateKey, FindTarget, Parse, RecordMetrics, PerKeyLookup,
         PerKeyCreate, Answer
    <3>. QED
      BY <3>1, <3>2 DEF RoutesInv, RouteTypes
  <2>4. UNCHANGED <<route[e], host[e]>>
    <3>1. UNCHANGED route \/ \E k : route' = [route EXCEPT ![r] = k]
      BY <2>1 DEF Walks, Arrive, ValidateKey, FindTarget, Parse, RecordMetrics, PerKeyLookup,
         PerKeyCreate, Answer
    <3>2. UNCHANGED host \/ \E h : host' = [host EXCEPT ![r] = h]
      BY <2>1 DEF Walks, Arrive, ValidateKey, FindTarget, Parse, RecordMetrics, PerKeyLookup,
         PerKeyCreate, Answer
    <3>. QED
      BY <3>1, <3>2 DEF RoutesInv, RouteTypes
  <2>. QED
    BY <2>2, <2>3, <2>4
<1>5. ASSUME NEW e \in Requests \ {r} PROVE UNCHANGED overlapped[e]
  <2>1. \/ UNCHANGED overlapped
        \/ overlapped' = [overlapped EXCEPT ![r] = FALSE]
        \/ overlapped' = [overlapped EXCEPT ![r] = reloading # Nothing]
    BY DEF Apart, Arrive, ValidateKey, FindTarget, Parse, RecordMetrics, PerKeyLookup, PerKeyCreate,
       Answer
  <2>. QED
    BY <2>1, Zenon DEF OverlapFlags
<1>. QED
  BY <1>1, <1>2, <1>3, <1>4, <1>5, RouteUnmoved DEF RoutesInv

LEMMA ApartKeeps ==
  ASSUME DataInv, RoutesInv, OverlapFlags, NEW r \in Requests, Apart(r)
  PROVE  RoutesInv'
<1>0. /\ stage \in [Requests -> Stages] /\ RouteTypes /\ RouteInv(r)
  BY DEF DataInv, DataTypes, RoutesInv
<1>1. routedUnder'[r] = Nothing
  BY <1>0 DEF Apart, Arrive, Parse, RecordMetrics, PerKeyLookup, PerKeyCreate, Answer, RouteTypes,
     RouteInv, Early
<1>2. stage'[r] \in {"new", "key", "target"} => stage[r] = "new" /\ UNCHANGED host
  BY <1>0 DEF Apart, Arrive, Parse, RecordMetrics, PerKeyLookup, PerKeyCreate, Answer, Reply
<1>3. RouteInv(r)'
  BY <1>0, <1>1, <1>2 DEF RouteInv, Early
<1>. QED
  BY <1>3, OthersUnmoved DEF RoutesInv

LEMMA ValidateKeeps ==
  ASSUME DataInv, RoutesInv, OverlapFlags, NEW r \in Requests, ValidateKey(r)
  PROVE  RoutesInv'
<1>0. /\ stage \in [Requests -> Stages] /\ status \in [Requests -> Codes] /\ stage[r] = "key"
      /\ status[r] = 0 /\ RouteTypes /\ RouteInv(r) /\ ConfigInv
  BY Zenon DEF DataInv, DataTypes, StageInv, RoutesInv, ValidateKey
<1>1. routedUnder'[r] = current /\ UNCHANGED <<key, host>> /\ UNCHANGED <<current, reloading>>
  BY <1>0, Zenon DEF ValidateKey, RouteTypes, routingVars
<1>2. overlapped'[r] <=> reloading # Nothing
  BY Zenon DEF ValidateKey, OverlapFlags
<1>3. CASE /\ key[r] \in DOMAIN keyStore /\ route' = [route EXCEPT ![r] = keyStore[key[r]]]
           /\ stage' = [stage EXCEPT ![r] = "target"] /\ UNCHANGED status
  <2>1. stage'[r] = "target" /\ status'[r] = 0 /\ route'[r] = keyStore[key[r]] /\ host[r] = Nothing
    BY <1>0, <1>3 DEF RouteTypes, RouteInv, Early
  <2>2. Early(r)'
    BY <1>1, <2>1 DEF Early
  <2>3. ASSUME reloading = Nothing PROVE Agreed(r)'
    BY <1>0, <1>1, <1>3, <2>1, <2>3 DEF Agreed, Agrees, RouteBy, ConfigInv
  <2>4. RouteInv(r)'
    BY <1>2, <2>2, <2>3 DEF RouteInv
  <2>. QED
    BY <2>4, OthersUnmoved DEF RoutesInv
<1>4. CASE key[r] \notin DOMAIN keyStore /\ Reply(r, 401)
  <2>1. stage'[r] = "answered" /\ status'[r] = 401 /\ host[r] = Nothing
    BY <1>0, <1>4 DEF Reply, RouteInv, Early
  <2>2. Early(r)'
    BY <1>1, <2>1 DEF Early
  <2>3. ASSUME reloading = Nothing PROVE Agreed(r)'
    BY <1>0, <1>1, <1>4, <2>1, <2>3 DEF Agreed, Agrees, ConfigInv
  <2>4. RouteInv(r)'
    BY <1>2, <2>2, <2>3 DEF RouteInv
  <2>. QED
    BY <2>4, OthersUnmoved DEF RoutesInv
<1>. QED
  BY <1>3, <1>4 DEF ValidateKey

LEMMA FindKeeps ==
  ASSUME DataInv, RoutesInv, OverlapFlags, NEW r \in Requests, FindTarget(r)
  PROVE  RoutesInv'
<1>0. /\ stage \in [Requests -> Stages] /\ status \in [Requests -> Codes] /\ stage[r] = "target"
      /\ status[r] = 0 /\ RouteTypes /\ RouteInv(r) /\ ConfigInv
  BY DEF DataInv, DataTypes, StageInv, RoutesInv, FindTarget
<1>1. UNCHANGED <<key, route, routedUnder, current, reloading>> /\ UNCHANGED overlapped
  BY Zenon DEF FindTarget, routingVars
<1>2. ASSUME routedUnder[r] # Nothing, ~overlapped[r]
      PROVE  /\ hosts = routedUnder[r].hosts /\ route[r].target \in DOMAIN hosts
             /\ hosts[route[r].target] = HostBy(routedUnder[r], key[r])
             /\ key[r] \in DOMAIN routedUnder[r].routes
  <2>1. /\ routedUnder[r] = current /\ reloading = Nothing /\ current \in Configs
        /\ route[r] = current.routes[key[r]] /\ key[r] \in DOMAIN current.routes
    BY <1>0, <1>2 DEF RouteInv, Agreed, Agrees, RouteBy, ConfigInv
  <2>. QED
    BY <1>0, <2>1, WebhookAssumption DEF ConfigInv, HostBy, RouteBy
<1>3. CASE /\ host' = [host EXCEPT ![r] = hosts[route[r].target]]
           /\ stage' = [stage EXCEPT ![r] = "parse"] /\ UNCHANGED status
  <2>1. stage'[r] = "parse" /\ status'[r] = 0 /\ host'[r] = hosts[route[r].target]
    BY <1>0, <1>3 DEF RouteTypes
  <2>2. Early(r)'
    BY <1>0, <1>1, <2>1 DEF Early
  <2>3. ASSUME routedUnder[r] # Nothing, ~overlapped[r] PROVE Agreed(r)'
    <3>1. /\ key[r] \in DOMAIN routedUnder[r].routes
          /\ host'[r] = HostBy(routedUnder[r], key[r])
      BY <1>2, <2>1, <2>3
    <3>2. Agrees(routedUnder[r], key[r], "parse", 0, host'[r])
      BY <3>1 DEF Agrees
    <3>. QED
      BY <1>1, <2>1, <3>2 DEF Agreed
  <2>4. RouteInv(r)'
    BY <1>1, <2>2, <2>3 DEF RouteInv
  <2>. QED
    BY <2>4, OthersUnmoved DEF RoutesInv
<1>4. CASE route[r].target \notin DOMAIN hosts /\ Reply(r, 500) /\ UNCHANGED host
  <2>1. stage'[r] = "answered" /\ host'[r] = host[r]
    BY <1>0, <1>4 DEF Reply
  <2>2. routedUnder[r] = Nothing \/ overlapped[r]
    BY <1>2, <1>4
  <2>3. RouteInv(r)'
    BY <1>1, <2>1, <2>2 DEF RouteInv, Early
  <2>. QED
    BY <2>3, OthersUnmoved DEF RoutesInv
<1>. QED
  BY <1>3, <1>4 DEF FindTarget

LEMMA ReloadKeeps ==
  ASSUME RoutesInv, OverlapFlags, (\E c \in Configs : ReloadKeys(c)) \/ ReloadTargets
  PROVE  RoutesInv'
<1>1. UNCHANGED <<stage, status, key, route, host, routedUnder>> /\ overlapped' = Overlaps
  BY DEF ReloadKeys, ReloadTargets
<1>2. ConfigInv'
  BY WebhookAssumption DEF ReloadKeys, ReloadTargets, RoutesInv, ConfigInv
<1>3. RouteTypes'
  BY <1>1 DEF RoutesInv, RouteTypes
<1>4. ASSUME NEW r \in Requests
      PROVE  (~overlapped'[r]) => (~overlapped[r]) /\ stage[r] # "target"
  BY <1>1, Zenon DEF Overlaps
<1>5. ASSUME NEW r \in Requests PROVE RouteInv(r)'
  <2>1. RouteInv(r)
    BY DEF RoutesInv
  <2>. QED
    <3>1. Early(r)'
      BY <1>1, <2>1 DEF RouteInv, Early
    <3>2. ASSUME Agreed(r), stage[r] # "target" PROVE Agreed(r)'
      BY <1>1, <3>2, Zenon DEF Agreed
    <3>. QED
      BY <1>1, <1>4, <2>1, <3>1, <3>2 DEF RouteInv
<1>. QED
  BY <1>2, <1>3, <1>5 DEF RoutesInv

LEMMA RoutesStep ==
  ASSUME DataInv, RoutesInv, OverlapFlags, [WebhookNext]_webhookVars
  PROVE  RoutesInv'
<1>1. CASE \/ UNCHANGED webhookVars
           \/ \E r \in Requests : Spawn(r) \/ \E i \in running[r] : Finish(r, i)
  <2>1. /\ UNCHANGED <<stage, status, key, route, host, routedUnder>> /\ UNCHANGED overlapped
        /\ UNCHANGED <<current, reloading, keyStore, hosts>>
    BY <1>1 DEF Spawn, Finish, webhookVars, requestVars, routingVars
  <2>2. ConfigInv' /\ RouteTypes'
    BY <2>1 DEF RoutesInv, ConfigInv, RouteTypes
  <2>. QED
    BY <2>1, <2>2, RouteUnmoved DEF RoutesInv
<1>2. ASSUME NEW r \in Requests, Walks(r) \/ Parse(r)
      PROVE  Apart(r) \/ ValidateKey(r) \/ FindTarget(r)
  BY <1>2 DEF Walks, Apart
<1>. QED
  BY <1>1, <1>2, ApartKeeps, ValidateKeeps, FindKeeps, ReloadKeeps, Cases, Zenon DEF Rests
-----------------------------------------------------------------------------
LEMMA RoutesAlways == WebhookSpec => []RoutesInv
<1>1. DataInv /\ RoutesInv /\ OverlapFlags /\ [WebhookNext]_webhookVars => (RoutesInv /\ OverlapFlags)'
  BY RoutesStep, OverlapStep
<1>. QED
  BY <1>1, RoutesInit, DataAlways, PTL DEF WebhookSpec

(* A request whose two reads no reload overlaps is refused, answered or    *)
(* routed as one configuration says, for any configurations and reloads.   *)
THEOREM OneConfigurationRoutes == WebhookSpec => []RoutedByOneConfig
<1>1. ASSUME RoutesInv, NEW r \in Requests, routedUnder[r] # Nothing, ~overlapped[r]
      PROVE  LET c == routedUnder[r]
             IN  /\ status[r] = 401 <=> key[r] \notin DOMAIN c.routes
                 /\ status[r] # 500
                 /\ host[r] # Nothing => host[r] = c.hosts[c.routes[key[r]].target]
  <2>1. Agrees(routedUnder[r], key[r], stage[r], status[r], host[r])
    BY <1>1 DEF RoutesInv, RouteInv, Agreed
  <2>. QED
    BY <2>1 DEF Agrees, HostBy, RouteBy
<1>2. RoutesInv => RoutedByOneConfig
  BY <1>1 DEF RoutedByOneConfig
<1>. QED
  BY <1>2, RoutesAlways, PTL
-----------------------------------------------------------------------------
(* Counting.  A request enters the totals when its alerts have ended, the  *)
(* audit log and the counters of its source when it is answered.           *)
Pending == {"lookup", "create", "count"}
Recorded == {r \in Requests : stage[r] \in Pending \/ status[r] \in {200, 502}}
RecordedFailed ==
  {r \in Requests : (stage[r] \in Pending /\ hasErrors[r]) \/ status[r] = 502}
Counted == {r \in Requests : stage[r] = "count" \/ status[r] \in {200, 502}}
AuditCounts ==
  [denied |-> Cardinality(Answered({401})), success |-> Cardinality(Answered({200})),
   failure |-> Cardinality(Answered({502}))]

TotalsInv ==
  requestsTotal = Cardinality(Recorded) /\ errorsTotal = Cardinality(RecordedFailed)
SourcesInv == perKey = [s \in {Source(r) : r \in Counted} |-> Tally(s)]
AuditInv == audited = AuditCounts /\ authFailures = Cardinality(Answered({401}))
CountInv == TotalsInv /\ SourcesInv /\ AuditInv

LEMMA CountInit == WebhookInit => CountInv
<1> SUFFICES ASSUME WebhookInit PROVE CountInv
  OBVIOUS
<1>1. /\ Recorded = {} /\ RecordedFailed = {} /\ Counted = {}
      /\ Answered({401}) = {} /\ Answered({200}) = {} /\ Answered({502}) = {}
  BY DEF WebhookInit, Recorded, RecordedFailed, Counted, Answered, Pending
<1>2. Cardinality({}) = 0
  BY FS_EmptySet
<1>3. SourcesInv
  BY <1>1 DEF WebhookInit, SourcesInv
<1>. QED
  BY <1>1, <1>2, <1>3, Zenon DEF WebhookInit, CountInv, TotalsInv, AuditInv, AuditCounts

(* One more request counts for one.                                        *)
LEMMA OneMore ==
  ASSUME NEW A \in SUBSET Requests, NEW r \in Requests, r \notin A
  PROVE  Cardinality(A \cup {r}) = Cardinality(A) + 1
BY FinitelyManyRequests, FS_Subset, FS_AddElement

(* Whether each request has been answered with a code that is counted.     *)
SameAnswers == \A e \in Requests : \A c \in {200, 401, 502} : status'[e] = c <=> status[e] = c

LEMMA TotalsKept ==
  ASSUME TotalsInv, SameAnswers, UNCHANGED <<requestsTotal, errorsTotal>>,
         \A e \in Requests : stage'[e] \in Pending <=> stage[e] \in Pending,
         \A e \in Requests : stage[e] \in Pending => (hasErrors'[e] <=> hasErrors[e])
  PROVE  TotalsInv'
<1>1. UNCHANGED Recorded
  BY DEF SameAnswers, Recorded
<1>2. UNCHANGED RecordedFailed
  BY DEF SameAnswers, RecordedFailed
<1>. QED
  BY <1>1, <1>2 DEF TotalsInv

LEMMA AuditKept ==
  ASSUME AuditInv, SameAnswers, UNCHANGED <<audited, authFailures>>
  PROVE  AuditInv'
<1>1. UNCHANGED <<Answered({401}), Answered({200}), Answered({502})>>
  BY DEF SameAnswers, Answered
<1>. QED
  BY <1>1 DEF AuditInv, AuditCounts

(* The answers to a source's requests, while routes of answered requests   *)
(* stay.                                                                   *)
LEMMA TallyKept ==
  ASSUME SameAnswers, \A e \in Answered({200, 502}) : UNCHANGED route[e], NEW s
  PROVE  Tally(s)' = Tally(s)
<1>1. \A e \in Answered({502}) : UNCHANGED route[e]
  BY DEF Answered
<1>2. {e \in Answered({200, 502}) : Source(e) = s}' = {e \in Answered({200, 502}) : Source(e) = s}
  BY DEF SameAnswers, Answered, Source
<1>3. {e \in Answered({502}) : Source(e) = s}' = {e \in Answered({502}) : Source(e) = s}
  BY <1>1 DEF SameAnswers, Answered, Source
<1>. QED
  BY <1>2, <1>3 DEF Tally

LEMMA SourcesKept ==
  ASSUME SourcesInv, SameAnswers, UNCHANGED perKey,
         \A e \in Requests : stage'[e] = "count" <=> stage[e] = "count",
         \A e \in Counted : UNCHANGED route[e]
  PROVE  SourcesInv'
<1>1. UNCHANGED Counted
  BY DEF SameAnswers, Counted
<1>2. {Source(e) : e \in Counted}' = {Source(e) : e \in Counted}
  BY <1>1 DEF Source
<1>3. \A s : Tally(s)' = Tally(s)
  BY TallyKept DEF Counted, Answered
<1>. QED
  BY <1>2, <1>3 DEF SourcesInv

(* The steps that count nothing.                                           *)
LEMMA NothingCounted ==
  ASSUME CountInv, SameAnswers, UNCHANGED countVars,
         \A e \in Requests : /\ stage'[e] \in Pending <=> stage[e] \in Pending
                             /\ stage'[e] = "count" <=> stage[e] = "count"
                             /\ stage[e] \in Pending => (hasErrors'[e] <=> hasErrors[e]),
         \A e \in Counted : UNCHANGED route[e]
  PROVE  CountInv'
BY TotalsKept, AuditKept, SourcesKept DEF CountInv, countVars

(* RecordMetrics counts the request, and its failure.                      *)
LEMMA MetricsCounted ==
  ASSUME DataInv, CountInv, NEW r \in Requests, RecordMetrics(r)
  PROVE  CountInv'
<1>1. /\ stage \in [Requests -> Stages] /\ stage[r] = "alerts" /\ status[r] = 0
      /\ stage' = [stage EXCEPT ![r] = "lookup"]
      /\ UNCHANGED <<status, route, perKey, audited, authFailures>>
      /\ requestsTotal' = requestsTotal + 1
      /\ errorsTotal' = IF hasErrors[r] THEN errorsTotal + 1 ELSE errorsTotal
  BY DEF DataInv, DataTypes, StageInv, RecordMetrics, RecordRequest
<1>2. UNCHANGED hasErrors
  BY DEF RecordMetrics, alertVars
<1>3. SameAnswers
  BY <1>1 DEF SameAnswers
<1>4. AuditInv'
  BY <1>1, <1>3, AuditKept DEF CountInv
<1>5. SourcesInv'
  BY <1>1, <1>3, SourcesKept DEF CountInv
<1>6. Recorded' = Recorded \cup {r} /\ r \notin Recorded
  BY <1>1 DEF Recorded, Pending
<1>7. /\ r \notin RecordedFailed
      /\ hasErrors[r] => RecordedFailed' = RecordedFailed \cup {r}
      /\ ~hasErrors[r] => RecordedFailed' = RecordedFailed
  BY <1>1, <1>2 DEF RecordedFailed, Pending
<1>8. Recorded \in SUBSET Requests /\ RecordedFailed \in SUBSET Requests
  BY DEF Recorded, RecordedFailed
<1>9. Cardinality(Recorded') = Cardinality(Recorded) + 1
  BY <1>6, <1>8, OneMore
<1>10. Cardinality(RecordedFailed')
         = IF hasErrors[r] THEN Cardinality(RecordedFailed) + 1 ELSE Cardinality(RecordedFailed)
  BY <1>7, <1>8, OneMore
<1>11. TotalsInv'
  BY <1>1, <1>9, <1>10 DEF CountInv, TotalsInv
<1>. QED
  BY <1>4, <1>5, <1>11 DEF CountInv

(* Finding or creating the counters of the source: they are there from     *)
(* then on, and the second look saves those another request has created.   *)
LEMMA SourceReady ==
  ASSUME DataInv, CountInv, NEW r \in Requests, PerKeyLookup(r) \/ PerKeyCreate(r)
  PROVE  CountInv'
<1>1. /\ stage \in [Requests -> Stages] /\ stage[r] \in {"lookup", "create"} /\ status[r] = 0
      /\ \/ stage' = [stage EXCEPT ![r] = "create"] /\ PerKeyLookup(r)
         \/ stage' = [stage EXCEPT ![r] = "count"]
      /\ UNCHANGED <<status, route, audited, authFailures, requestsTotal, errorsTotal>>
  BY DEF DataInv, DataTypes, StageInv, PerKeyLookup, PerKeyCreate, countVars
<1>2. UNCHANGED hasErrors
  BY DEF PerKeyLookup, PerKeyCreate, alertVars
<1>3. SameAnswers
  BY <1>1 DEF SameAnswers
<1>4. AuditInv'
  BY <1>1, <1>3, AuditKept DEF CountInv
<1>5. TotalsInv'
  <2>1. \A e \in Requests : stage'[e] \in Pending <=> stage[e] \in Pending
    BY <1>1 DEF Pending
  <2>. QED
    BY <1>1, <1>2, <1>3, <2>1, TotalsKept DEF CountInv
<1>6. SourcesInv'
  <2> DEFINE D == {Source(e) : e \in Counted}
  <2>1. \A s : Tally(s)' = Tally(s)
    BY <1>1, <1>3, TallyKept
  <2>2. CASE stage' = [stage EXCEPT ![r] = "create"] /\ PerKeyLookup(r)
    <3>1. UNCHANGED perKey
      BY <2>2 DEF PerKeyLookup, countVars
    <3>2. \A e \in Requests : stage'[e] = "count" <=> stage[e] = "count"
      BY <1>1, <2>2
    <3>. QED
      BY <1>1, <1>3, <3>1, <3>2, SourcesKept DEF CountInv
  <2>3. CASE stage' = [stage EXCEPT ![r] = "count"]
    <3>1. Counted' = Counted \cup {r}
      BY <1>1, <2>3 DEF Counted
    <3>2. D' = D \cup {Source(r)}
      BY <1>1, <3>1 DEF Source
    <3>3. perKey = [s \in D |-> Tally(s)] /\ DOMAIN perKey = D
      BY DEF CountInv, SourcesInv
    <3>4. CASE Source(r) \in D
      <4>1. UNCHANGED perKey
        BY <1>1, <2>3, <3>3, <3>4 DEF PerKeyLookup, PerKeyCreate, countVars
      <4>. QED
        BY <2>1, <3>2, <3>3, <3>4, <4>1 DEF SourcesInv
    <3>5. CASE Source(r) \notin D
      <4>1. perKey' = WithSource(Source(r), NoStats)
        BY <1>1, <2>3, <3>3, <3>5 DEF PerKeyLookup, PerKeyCreate
      <4>2. Tally(Source(r)) = NoStats
        <5>1. /\ {e \in Answered({200, 502}) : Source(e) = Source(r)} = {}
              /\ {e \in Answered({502}) : Source(e) = Source(r)} = {}
          BY <3>5 DEF Answered, Counted
        <5>. QED
          BY <5>1, FS_EmptySet DEF Tally, NoStats
      <4>3. perKey' = [s \in D \cup {Source(r)} |-> Tally(s)]
        BY <3>3, <4>1, <4>2, Zenon DEF WithSource
      <4>. QED
        BY <2>1, <3>2, <4>3 DEF SourcesInv
    <3>. QED
      BY <3>4, <3>5
  <2>. QED
    BY <1>1, <2>2, <2>3
<1>. QED
  BY <1>4, <1>5, <1>6 DEF CountInv

(* The answer is counted for its source and in the audit log.              *)
LEMMA AnswerCounted ==
  ASSUME DataInv, ErrorsInv, CountInv, NEW r \in Requests, Answer(r)
  PROVE  CountInv'
<1> DEFINE code == IF hasErrors[r] THEN 502 ELSE 200
           kind == IF hasErrors[r] THEN "failure" ELSE "success"
           src == Source(r)
           For(s, codes) == {e \in Answered(codes) : Source(e) = s}
<1>1. /\ stage \in [Requests -> Stages] /\ stage[r] = "count" /\ status[r] = 0
      /\ status \in [Requests -> Codes]
      /\ stage' = [stage EXCEPT ![r] = "answered"] /\ status' = [status EXCEPT ![r] = code]
      /\ UNCHANGED <<route, authFailures, requestsTotal, errorsTotal>>
      /\ audited' = [audited EXCEPT ![kind] = @ + 1]
  BY DEF DataInv, DataTypes, StageInv, Answer, Reply, Log
<1>2. UNCHANGED hasErrors
  BY DEF Answer, alertVars
<1>3. /\ Answered({401})' = Answered({401})
      /\ Answered({200, 502})' = Answered({200, 502}) \cup {r}
      /\ hasErrors[r] => Answered({502})' = Answered({502}) \cup {r} /\ Answered({200})' = Answered({200})
      /\ ~hasErrors[r] => Answered({200})' = Answered({200}) \cup {r} /\ Answered({502})' = Answered({502})
      /\ r \notin Answered({200, 502}) /\ r \notin Answered({200}) /\ r \notin Answered({502})
  BY <1>1 DEF Answered
<1>4. \A codes : Answered(codes) \in SUBSET Requests
  BY DEF Answered
<1>5. AuditInv'
  <2> DEFINE a == Cardinality(Answered({401}))
             b == Cardinality(Answered({200}))
             c == Cardinality(Answered({502}))
  <2>1. audited = [denied |-> a, success |-> b, failure |-> c] /\ authFailures = a
    BY DEF CountInv, AuditInv, AuditCounts
  <2>2. /\ a' = a
        /\ hasErrors[r] => c' = c + 1 /\ b' = b
        /\ ~hasErrors[r] => b' = b + 1 /\ c' = c
    BY <1>3, <1>4, OneMore
  <2>3. SUFFICES audited' = [denied |-> a', success |-> b', failure |-> c'] /\ authFailures' = a'
    BY DEF AuditInv, AuditCounts
  <2> HIDE DEF a, b, c
  <2>. QED
    BY <1>1, <2>1, <2>2, Zenon
<1>6. TotalsInv'
  <2>1. Recorded' = Recorded
    BY <1>1 DEF Recorded, Pending
  <2>2. RecordedFailed' = RecordedFailed
    BY <1>1, <1>2 DEF RecordedFailed, Pending
  <2>. QED
    BY <1>1, <2>1, <2>2 DEF CountInv, TotalsInv
<1>7. SourcesInv'
  <2> DEFINE D == {Source(e) : e \in Counted}
  <2>1. Counted' = Counted /\ r \in Counted
    BY <1>1 DEF Counted
  <2>2. D' = D /\ src \in D
    BY <1>1, <2>1 DEF Source
  <2>3. perKey = [s \in D |-> Tally(s)]
    BY DEF CountInv, SourcesInv
  <2>4. ASSUME NEW s, s # src PROVE Tally(s)' = Tally(s)
    <3>1. {e \in Answered({200, 502}) : Source(e) = s}' = {e \in Answered({200, 502}) : Source(e) = s}
      BY <1>1, <1>3, <2>4 DEF Source
    <3>2. {e \in Answered({502}) : Source(e) = s}' = {e \in Answered({502}) : Source(e) = s}
      BY <1>1, <1>3, <2>4 DEF Source
    <3>. QED
      BY <3>1, <3>2 DEF Tally
  <2>5. Tally(src)' = [requests |-> Tally(src).requests + 1,
                       errors |-> IF hasErrors[r] THEN Tally(src).errors + 1 ELSE Tally(src).errors]
    <3>1. src' = src
      BY <1>1, Zenon DEF Source
    <3>2. /\ For(src, {200, 502})' = For(src, {200, 502}) \cup {r} /\ r \notin For(src, {200, 502})
          /\ hasErrors[r] => For(src, {502})' = For(src, {502}) \cup {r} /\ r \notin For(src, {502})
          /\ ~hasErrors[r] => For(src, {502})' = For(src, {502})
      <4>1. \A e \in Requests : Source(e)' = Source(e)
        BY <1>1, Zenon DEF Source
      <4>2. \A codes : Answered(codes)' \in SUBSET Requests
        BY Zenon DEF Answered
      <4>3. ASSUME NEW codes, Answered(codes)' = Answered(codes) \cup {r}
            PROVE  For(src, codes)' = For(src, codes) \cup {r}
        BY <1>4, <3>1, <4>1, <4>2, <4>3, Zenon
      <4>4. ASSUME NEW codes, Answered(codes)' = Answered(codes)
            PROVE  For(src, codes)' = For(src, codes)
        BY <1>4, <3>1, <4>1, <4>4, Zenon
      <4>5. r \notin For(src, {200, 502}) /\ r \notin For(src, {502})
        BY <1>3
      <4> HIDE DEF src, code, kind
      <4>6. For(src, {200, 502})' = For(src, {200, 502}) \cup {r}
        BY <1>3, <4>3
      <4>7. hasErrors[r] => For(src, {502})' = For(src, {502}) \cup {r}
        BY <1>3, <4>3
      <4>8. ~hasErrors[r] => For(src, {502})' = For(src, {502})
        BY <1>3, <4>4, SMTT(20)
      <4> HIDE DEF For
      <4>. QED
        BY <4>5, <4>6, <4>7, <4>8, SMTT(20)
    <3>3. For(src, {200, 502}) \in SUBSET Requests /\ For(src, {502}) \in SUBSET Requests
      BY DEF Answered
    <3>4. Cardinality(For(src, {200, 502})') = Cardinality(For(src, {200, 502})) + 1
      BY <3>2, <3>3, OneMore
    <3>5. hasErrors[r] => Cardinality(For(src, {502})') = Cardinality(For(src, {502})) + 1
      BY <3>2, <3>3, OneMore
    <3>6. /\ Tally(src) = [requests |-> Cardinality(For(src, {200, 502})),
                          errors |-> Cardinality(For(src, {502}))]
          /\ Tally(src)' = [requests |-> Cardinality(For(src, {200, 502})'),
                           errors |-> Cardinality(For(src, {502})')]
      BY DEF Tally
    <3> HIDE DEF For
    <3>. QED
      BY <3>2, <3>4, <3>5, <3>6
  <2>6. perKey' = [s \in D |-> Tally(s)']
    <3>1. perKey' = [perKey EXCEPT ![src].requests = @ + 1,
                                   ![src].errors = IF hasErrors[r] THEN @ + 1 ELSE @]
      BY DEF Answer
    <3>2. Tally(src) = [requests |-> Tally(src).requests, errors |-> Tally(src).errors]
      BY DEF Tally
    <3>3. perKey[src] = Tally(src) /\ \A s \in D : s # src => perKey[s] = Tally(s)'
      BY <2>2, <2>3, <2>4
    <3>4. src' = src
      BY <1>1 DEF Source
    <3>5. ASSUME NEW s, s = src PROVE Tally(s)' = Tally(src)'
      BY <3>4, <3>5 DEF Tally
    <3> HIDE DEF D, src
    <3>6. \A s \in D : s # src => perKey'[s] = Tally(s)'
      BY <2>3, <3>1, <3>3
    <3>7. perKey'[src] = Tally(src)'
      BY <2>2, <2>3, <2>5, <3>1, <3>2, <3>3, Zenon
    <3>8. perKey' = [s \in D |-> perKey'[s]]
      BY <2>3, <3>1, Zenon
    <3>9. \A s \in D : perKey'[s] = Tally(s)'
      BY <3>6, <3>7, <3>5, Zenon
    <3>. QED
      BY <3>8, <3>9, Zenon
  <2>. QED
    BY <2>2, <2>6 DEF SourcesInv
<1>. QED
  BY <1>5, <1>6, <1>7 DEF CountInv

(* A refused key is counted and written to the audit log.                  *)
LEMMA DenialCounted ==
  ASSUME DataInv, RoutesInv, CountInv, NEW r \in Requests, ValidateKey(r)
  PROVE  CountInv'
<1>1. /\ stage \in [Requests -> Stages] /\ stage[r] = "key" /\ status[r] = 0
      /\ DOMAIN route = Requests /\ status \in [Requests -> Codes]
      /\ UNCHANGED <<perKey, requestsTotal, errorsTotal>>
  BY Zenon DEF DataInv, DataTypes, StageInv, RoutesInv, RouteTypes, ValidateKey
<1>2. UNCHANGED hasErrors
  BY Zenon DEF ValidateKey, alertVars
<1>3. /\ \A e \in Requests \ {r} : route'[e] = route[e] /\ stage'[e] = stage[e]
      /\ stage'[r] \in {"target", "answered"}
  BY <1>1 DEF ValidateKey, Reply
<1>4. /\ \A e \in Requests : /\ stage'[e] \in Pending <=> stage[e] \in Pending
                             /\ stage'[e] = "count" <=> stage[e] = "count"
      /\ \A e \in Counted : UNCHANGED route[e]
  BY <1>1, <1>3 DEF Pending, Counted
<1>5. CASE UNCHANGED <<status, authFailures, audited>>
  BY <1>1, <1>2, <1>4, <1>5, NothingCounted, Zenon DEF SameAnswers, countVars
<1>6. CASE /\ status' = [status EXCEPT ![r] = 401]
           /\ authFailures' = authFailures + 1
           /\ audited' = [audited EXCEPT !["denied"] = @ + 1]
  <2>1. /\ UNCHANGED <<Answered({200}), Answered({502}), Answered({200, 502})>>
        /\ Answered({401})' = Answered({401}) \cup {r} /\ r \notin Answered({401})
    BY <1>1, <1>6 DEF Answered
  <2>2. AuditInv'
    <3> DEFINE a == Cardinality(Answered({401}))
               b == Cardinality(Answered({200}))
               c == Cardinality(Answered({502}))
    <3>1. audited = [denied |-> a, success |-> b, failure |-> c] /\ authFailures = a
      BY DEF CountInv, AuditInv, AuditCounts
    <3>2. a' = a + 1 /\ b' = b /\ c' = c
      <4>1. Answered({401}) \in SUBSET Requests
        BY DEF Answered
      <4>. QED
        BY <2>1, <4>1, OneMore
    <3>3. SUFFICES audited' = [denied |-> a', success |-> b', failure |-> c'] /\ authFailures' = a'
      BY DEF AuditInv, AuditCounts
    <3> HIDE DEF a, b, c
    <3>. QED
      BY <1>6, <3>1, <3>2, Zenon
  <2>3. TotalsInv'
    <3>1. UNCHANGED Recorded
      BY <1>1, <1>4, <1>6 DEF Recorded
    <3>2. UNCHANGED RecordedFailed
      BY <1>1, <1>2, <1>4, <1>6 DEF RecordedFailed
    <3>. QED
      BY <1>1, <3>1, <3>2 DEF CountInv, TotalsInv
  <2>4. SourcesInv'
    <3>1. UNCHANGED Counted
      BY <1>1, <1>4, <1>6 DEF Counted
    <3>2. {Source(e) : e \in Counted}' = {Source(e) : e \in Counted}
      BY <1>4, <3>1 DEF Source
    <3>3. ASSUME NEW s PROVE Tally(s)' = Tally(s)
      <4>1. \A e \in Answered({200, 502}) \cup Answered({502}) : UNCHANGED route[e]
        BY <1>4, Zenon DEF Answered, Counted
      <4>2. /\ {e \in Answered({200, 502}) : Source(e) = s}' = {e \in Answered({200, 502}) : Source(e) = s}
            /\ {e \in Answered({502}) : Source(e) = s}' = {e \in Answered({502}) : Source(e) = s}
        BY <2>1, <4>1 DEF Source
      <4>. QED
        BY <4>2 DEF Tally
    <3>. QED
      BY <1>1, <3>2, <3>3 DEF CountInv, SourcesInv
  <2>. QED
    BY <2>2, <2>3, <2>4 DEF CountInv
<1>. QED
  BY <1>5, <1>6 DEF ValidateKey, RecordAuthFailure, Log, Reply

(* Every step keeps the counters exact.                                    *)
LEMMA CountStep ==
  ASSUME DataInv, ErrorsInv, RoutesInv, CountInv, [WebhookNext]_webhookVars
  PROVE  CountInv'
<1>0. /\ stage \in [Requests -> Stages] /\ status \in [Requests -> Codes]
      /\ \A e \in Requests : StageInv(e)
  BY DEF DataInv, DataTypes
<1>1. ASSUME NEW r \in Requests,
             \/ \E k \in ApiKeys, b \in Bodies : Arrive(r, k, b)
             \/ FindTarget(r) \/ Parse(r)
      PROVE  CountInv'
  <2> DEFINE Moved ==
        /\ UNCHANGED <<countVars, route>>
        /\ stage[r] \in {"new", "target", "parse"}
        /\ \E to \in {"key", "parse", "alerts", "answered"} : stage' = [stage EXCEPT ![r] = to]
        /\ UNCHANGED status \/ \E c \in {429, 500, 400} : status' = [status EXCEPT ![r] = c]
  <2>1. Moved
    <3>1. ASSUME NEW k, NEW b, Arrive(r, k, b) PROVE Moved
      BY <3>1 DEF Arrive, Reply
    <3>2. FindTarget(r) => Moved
      BY DEF FindTarget, Reply
    <3>3. Parse(r) => Moved
      BY DEF Parse, Reply
    <3> HIDE DEF Moved
    <3>. QED
      BY <1>1, <3>1, <3>2, <3>3, Zenon
  <2>2. UNCHANGED hasErrors
    BY <1>1, Zenon DEF Arrive, FindTarget, Parse, alertVars
  <2>3. SameAnswers
    <3>1. status[r] = 0
      BY <1>0, <2>1 DEF StageInv
    <3>2. CASE UNCHANGED status
      BY <3>2, Zenon DEF SameAnswers
    <3>3. ASSUME NEW c \in {429, 500, 400}, status' = [status EXCEPT ![r] = c] PROVE SameAnswers
      BY <1>0, <3>1, <3>3 DEF SameAnswers
    <3>4. UNCHANGED status \/ \E c \in {429, 500, 400} : status' = [status EXCEPT ![r] = c]
      BY <2>1, Zenon
    <3>. QED
      BY <3>2, <3>3, <3>4
  <2>4. \A e \in Requests : /\ stage'[e] \in Pending <=> stage[e] \in Pending
                            /\ stage'[e] = "count" <=> stage[e] = "count"
    BY <1>0, <2>1 DEF Pending
  <2>. QED
    BY <2>1, <2>2, <2>3, <2>4, NothingCounted
<1>2. ASSUME NEW r \in Requests, Spawn(r) \/ \E i \in running[r] : Finish(r, i)
      PROVE  CountInv'
  <2>1. UNCHANGED <<countVars, stage, status, route>>
    BY <1>2 DEF Spawn, Finish, requestVars
  <2>2. \A e \in Requests : stage[e] \in Pending => (hasErrors'[e] <=> hasErrors[e])
    <3>1. CASE Spawn(r)
      BY <3>1 DEF Spawn
    <3>2. ASSUME NEW i \in running[r], Finish(r, i)
          PROVE  \A e \in Requests : stage[e] \in Pending => (hasErrors'[e] <=> hasErrors[e])
      <4>1. stage[r] \notin Pending
        BY <1>0, <3>2 DEF StageInv, Pending
      <4>2. \A e \in Requests \ {r} : hasErrors'[e] = hasErrors[e]
        BY <3>2, Zenon DEF Finish, ErrorsInv, ErrorFlags
      <4>. QED
        BY <4>1, <4>2
    <3>. QED
      BY <1>2, <3>1, <3>2
  <2>. QED
    BY <2>1, <2>2, NothingCounted DEF SameAnswers
<1>3. CASE Rests
  <2>1. UNCHANGED <<countVars, stage, status, route>> /\ UNCHANGED hasErrors
    BY <1>3 DEF Rests, ReloadKeys, ReloadTargets, webhookVars, alertVars, requestVars
  <2>. QED
    BY <2>1, NothingCounted DEF SameAnswers
<1>. QED
  BY <1>1, <1>2, <1>3, MetricsCounted, SourceReady, AnswerCounted, DenialCounted, Cases, Zenon DEF Walks

(* The totals, the counters of every source, the audit log and the answers *)
(* agree whenever no request is on its way from wg.Wait to its answer, for *)
(* any number of requests racing for the same new source.                  *)
THEOREM CountsAlwaysAgree == WebhookSpec => []CountsAgree
<1>1. DataInv /\ ErrorsInv /\ RoutesInv /\ CountInv /\ [WebhookNext]_webhookVars => CountInv'
  BY CountStep
<1>2. CountInv => CountsAgree
  <2> SUFFICES ASSUME CountInv, \A r \in Requests : stage[r] \notin Pending PROVE CountsAgree
    BY DEF CountsAgree, Pending
  <2>1. Recorded = Answered({200, 502})
    BY ZenonT(30) DEF Recorded, Answered
  <2>2. RecordedFailed = Answered({502})
    BY Zenon DEF RecordedFailed, Answered
  <2>3. Counted = Answered({200, 502})
    BY DEF Counted, Answered, Pending
  <2>. QED
    BY <2>1, <2>2, <2>3, Zenon DEF CountInv, TotalsInv, SourcesInv, AuditInv, AuditCounts, CountsAgree
<1>. QED
  BY <1>1, <1>2, CountInit, DataAlways, ErrorsAlways, RoutesAlways, PTL DEF WebhookSpec
-----------------------------------------------------------------------------
(* A list whose elements are replaced one by one keeps its length.         *)
LEMMA SameLength ==
  ASSUME NEW S, NEW s \in Seq(S), NEW t, DOMAIN t = DOMAIN s, t = [i \in DOMAIN s |-> t[i]]
  PROVE  Len(t) = Len(s)
<1>1. Len(s) \in Nat /\ DOMAIN t = 1..Len(s)
  OBVIOUS
<1>2. t \in Seq({t[i] : i \in 1..Len(s)})
  BY <1>1
<1>. QED
  BY <1>1, <1>2

(* The same alerts, written in any of the three formats, are parsed to the *)
(* same result, for any number of alerts and any values of their members.  *)
THEOREM EveryFormatLeadsToSameAlerts ==
  ASSUME NEW S, NEW objects \in Seq(S)
  PROVE  FormatsAgree(objects)
<1> DEFINE AsUniversal(a) ==
             [name |-> a.alertname, level |-> a.severity, message |-> a.summary,
              alertname |-> "", severity |-> "", summary |-> "", status |-> a.status]
           us == [i \in DOMAIN objects |-> AsUniversal(objects[i])]
           universal == [fields |-> {"alerts"}, alerts |-> us]
           marked(fields) == [fields |-> fields \cup {"alerts"}, alerts |-> objects]
           labelled == [i \in 1..Len(objects) |-> LabelledAlert(objects[i])]
<1>1. Len(objects) \in Nat /\ DOMAIN objects = 1..Len(objects)
  OBVIOUS
<1>2. \A a : UniversalToGrafana(AsUniversal(a)) = LabelledAlert(a)
  <2> SUFFICES ASSUME NEW a PROVE UniversalToGrafana(AsUniversal(a)) = LabelledAlert(a)
    BY Zenon
  <2> DEFINE u == AsUniversal(a)
  <2>1. /\ u.name = a.alertname /\ u.level = a.severity /\ u.message = a.summary
        /\ u.severity = "" /\ u.summary = "" /\ u.status = a.status
    BY Zenon
  <2> HIDE DEF u
  <2>2. (IF u.level = "" THEN u.severity ELSE u.level) = a.severity
    BY <2>1, Zenon
  <2>3. (IF u.message = "" THEN u.summary ELSE u.message) = a.summary
    BY <2>1, Zenon
  <2>. QED
    BY <2>1, <2>2, <2>3, Zenon DEF UniversalToGrafana, LabelledAlert, u
<1>3. DOMAIN us = DOMAIN objects /\ us = [i \in DOMAIN objects |-> us[i]]
  BY Zenon
<1>4. Len(us) = Len(objects)
  <2> HIDE DEF us
  <2>. QED
    BY <1>3, SameLength
<1>5. \A i \in 1..Len(objects) : UniversalToGrafana(us[i]) = LabelledAlert(objects[i])
  BY <1>1, <1>2, Zenon
<1>6. /\ DetectFormat({"alerts"}) = "universal"
      /\ \A m \in {{"status"}, {"receiver", "status"}, {"version", "groupKey"}} :
           DetectFormat(m \cup {"alerts"}) # "universal"
  BY ZenonT(30) DEF DetectFormat
<1> HIDE DEF us
<1>7. ParseWebhookPayload(universal) = labelled
  BY <1>4, <1>5, <1>6, Zenon DEF ParseWebhookPayload
<1>8. ASSUME NEW m \in {{"status"}, {"receiver", "status"}, {"version", "groupKey"}}
      PROVE  ParseWebhookPayload(marked(m)) = labelled
  BY <1>6, Zenon DEF ParseWebhookPayload
<1>. QED
  BY <1>7, <1>8, Zenon DEF FormatsAgree, us
=============================================================================
