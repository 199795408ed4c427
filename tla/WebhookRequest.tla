---------------------------- MODULE WebhookRequest ----------------------------
(***************************************************************************)
(* One webhook request from arrival to answer (handler/webhook.go): the    *)
(* ingress limit, the API key, the target, the payload in one of three     *)
(* formats, the alerts on parallel goroutines behind a semaphore, the      *)
(* counters (metrics/), the audit line and the status code.  Requests run  *)
(* concurrently, with each other and with a configuration reload (main.go, *)
(* OnReload), which replaces the handler's key store and its targets one   *)
(* after the other while requests read them one after the other.           *)
(*                                                                         *)
(* What a mode handler does with an alert is the subject of AlertPipeline, *)
(* the ingress decision that of IngressLimiter: here each is either        *)
(* outcome.                                                                *)
(*                                                                         *)
(* current, routedUnder and overlapped are history variables: the last     *)
(* configuration completely in force, the one in force when a request's    *)
(* key was looked up, and whether a reload ran between its two reads.      *)
(***************************************************************************)
EXTENDS Integers, Sequences, FiniteSets

CONSTANTS
  Requests,       \* webhook requests
  ApiKeys,        \* keys a request may carry
  Configs,        \* configurations: [routes, hosts]
  Bodies,         \* request bodies, see ParseWebhookPayload
  MaxParallel,    \* capacity of the semaphore
  MaxReloads,     \* bound: reloads
  Nothing         \* no value

(* Needed only to count the answers.                                       *)
ASSUME FinitelyManyRequests == IsFiniteSet(Requests)

(* In every configuration the routes of the keys lead to its own targets:  *)
(* ToConfig and config.Load build both from one list.                      *)
ASSUME WebhookAssumption ==
  /\ MaxParallel \in Nat \ {0} /\ MaxReloads \in Nat
  /\ \A b \in Bodies : Len(b.alerts) \in Nat /\ DOMAIN b.alerts = 1..Len(b.alerts)
  /\ Nothing \notin Configs
  /\ \A c \in Configs :
       /\ DOMAIN c.routes \subseteq ApiKeys
       /\ \A k \in DOMAIN c.routes : c.routes[k].target \in DOMAIN c.hosts

VARIABLES
  keyStore, hosts,       \* h.KeyStore; the host name of each of h.Targets
  reloading, reloads,    \* the configuration OnReload is installing; their number
  stage,                 \* what each request does next
  key, route, host,      \* its API key, route and target host
  body, alerts,          \* its body and the alerts parsed from it
  spawned, running,      \* alerts started; alerts whose goroutine runs
  results, hasErrors,
  status,                \* the answer, 0 while there is none
  requestsTotal, errorsTotal, authFailures,   \* metrics.Collector
  perKey,                \* metrics.PerKeyCollector.stats
  audited,               \* number of audit lines of each kind
  current, routedUnder, overlapped

routingVars == <<keyStore, hosts, reloading, reloads, current>>
countVars == <<requestsTotal, errorsTotal, authFailures, perKey, audited>>
alertVars == <<spawned, running, results, hasErrors>>
requestVars == <<stage, key, route, host, body, alerts, status, routedUnder, overlapped>>
webhookVars == <<routingVars, countVars, alertVars, requestVars>>

NoRoute == [target |-> Nothing, source |-> Nothing]

WebhookInit ==
  /\ \E c \in Configs : keyStore = c.routes /\ hosts = c.hosts /\ current = c
  /\ reloading = Nothing /\ reloads = 0
  /\ stage = [r \in Requests |-> "new"] /\ status = [r \in Requests |-> 0]
  /\ key = [r \in Requests |-> Nothing] /\ route = [r \in Requests |-> NoRoute]
  /\ host = [r \in Requests |-> Nothing] /\ body = [r \in Requests |-> Nothing]
  /\ alerts = [r \in Requests |-> <<>>] /\ spawned = [r \in Requests |-> 0]
  /\ running = [r \in Requests |-> {}] /\ results = [r \in Requests |-> <<>>]
  /\ hasErrors = [r \in Requests |-> FALSE]
  /\ requestsTotal = 0 /\ errorsTotal = 0 /\ authFailures = 0
  /\ perKey = [s \in {} |-> [requests |-> 0, errors |-> 0]]
  /\ audited = [denied |-> 0, success |-> 0, failure |-> 0]
  /\ routedUnder = [r \in Requests |-> Nothing]
  /\ overlapped = [r \in Requests |-> FALSE]
-----------------------------------------------------------------------------
(* Payload formats.  A body is [json, fields, alerts]: whether it can be   *)
(* read and decoded, which top-level fields are not empty, and the objects *)
(* of "alerts" with the members of all three formats ("" where there is    *)
(* none; level is the universal format's severity).  Each format decodes   *)
(* its own members and ignores the others.                                 *)
DetectFormat(fields) ==
  CASE fields \cap {"version", "groupKey", "receiver"} # {} -> "alertmanager"
    [] fields \cap {"version", "groupKey", "receiver"} = {} /\ "status" \in fields -> "grafana"
    [] fields = {"alerts"} -> "universal"
    [] OTHER -> "grafana"

(* UniversalAlert.ToGrafanaAlert: name, severity and message are put over  *)
(* the labels alertname and severity and the annotation summary, the last  *)
(* two only when they are not empty.                                       *)
UniversalToGrafana(a) ==
  [alertname |-> a.name,
   severity |-> IF a.level = "" THEN a.severity ELSE a.level,
   summary |-> IF a.message = "" THEN a.summary ELSE a.message,
   status |-> a.status]

(* AlertmanagerAlert.ToGrafanaAlert, and a Grafana alert as it is.         *)
LabelledAlert(a) ==
  [alertname |-> a.alertname, severity |-> a.severity, summary |-> a.summary,
   status |-> a.status]

ParseWebhookPayload(b) ==
  LET objects == IF "alerts" \in b.fields THEN b.alerts ELSE <<>>
  IN  [i \in 1..Len(objects) |->
         IF DetectFormat(b.fields) = "universal"
           THEN UniversalToGrafana(objects[i]) ELSE LabelledAlert(objects[i])]
-----------------------------------------------------------------------------
(* metrics.Collector and audit.Logger: atomic counters, one line under a   *)
(* lock.                                                                   *)
RecordAuthFailure == authFailures' = authFailures + 1
RecordRequest(failed) ==
  /\ requestsTotal' = requestsTotal + 1
  /\ errorsTotal' = IF failed THEN errorsTotal + 1 ELSE errorsTotal
Log(kind) == audited' = [audited EXCEPT ![kind] = @ + 1]

Reply(r, code) ==
  /\ stage' = [stage EXCEPT ![r] = "answered"]
  /\ status' = [status EXCEPT ![r] = code]

(* ServeHTTP: the ingress limiter comes before everything else.            *)
Arrive(r, k, b) ==
  /\ stage[r] = "new"
  /\ \/ Reply(r, 429) /\ UNCHANGED <<key, body>>
     \/ /\ stage' = [stage EXCEPT ![r] = "key"]
        /\ key' = [key EXCEPT ![r] = k] /\ body' = [body EXCEPT ![r] = b]
        /\ UNCHANGED status
  /\ UNCHANGED <<routingVars, countVars, alertVars, route, host, alerts, routedUnder, overlapped>>

(* authenticate, first half: the key's route, or 401.                      *)
ValidateKey(r) ==
  /\ stage[r] = "key"
  /\ routedUnder' = [routedUnder EXCEPT ![r] = current]
  /\ overlapped' = [overlapped EXCEPT ![r] = reloading # Nothing]
  /\ \/ /\ key[r] \in DOMAIN keyStore
        /\ route' = [route EXCEPT ![r] = keyStore[key[r]]]
        /\ stage' = [stage EXCEPT ![r] = "target"]
        /\ UNCHANGED <<status, authFailures, audited>>
     \/ /\ key[r] \notin DOMAIN keyStore
        /\ RecordAuthFailure /\ Log("denied")
        /\ Reply(r, 401)
        /\ UNCHANGED route
  /\ UNCHANGED <<routingVars, requestsTotal, errorsTotal, perKey, alertVars, key, host, body, alerts>>

(* authenticate, second half: the target of the route, or 500.             *)
FindTarget(r) ==
  /\ stage[r] = "target"
  /\ \/ /\ route[r].target \in DOMAIN hosts
        /\ host' = [host EXCEPT ![r] = hosts[route[r].target]]
        /\ stage' = [stage EXCEPT ![r] = "parse"]
        /\ UNCHANGED status
     \/ /\ route[r].target \notin DOMAIN hosts
        /\ Reply(r, 500)
        /\ UNCHANGED host
  /\ UNCHANGED <<routingVars, countVars, alertVars, key, route, body, alerts, routedUnder, overlapped>>

(* Read and parse the body: 400 when it is too large, malformed or empty.  *)
(* What authenticate knew of the key is forgotten.                         *)
Parse(r) ==
  /\ stage[r] = "parse"
  /\ key' = [key EXCEPT ![r] = Nothing]
  /\ routedUnder' = [routedUnder EXCEPT ![r] = Nothing]
  /\ overlapped' = [overlapped EXCEPT ![r] = FALSE]
  /\ \/ /\ ~body[r].json \/ ParseWebhookPayload(body[r]) = <<>>
        /\ Reply(r, 400)
        /\ UNCHANGED <<alerts, results>>
     \/ /\ body[r].json
        /\ alerts' = [alerts EXCEPT ![r] = ParseWebhookPayload(body[r])]
        /\ alerts'[r] # <<>>
        /\ results' = [results EXCEPT ![r] = [i \in DOMAIN alerts'[r] |-> "none"]]
        /\ stage' = [stage EXCEPT ![r] = "alerts"]
        /\ UNCHANGED status
  /\ UNCHANGED <<routingVars, countVars, spawned, running, hasErrors, route, host, body>>

(* The loop: wait for a slot of the semaphore and start the next alert.    *)
Spawn(r) ==
  /\ stage[r] = "alerts" /\ spawned[r] < Len(alerts[r])
  /\ Cardinality(running[r]) < MaxParallel
  /\ spawned' = [spawned EXCEPT ![r] = @ + 1]
  /\ running' = [running EXCEPT ![r] = @ \cup {spawned'[r]}]
  /\ UNCHANGED <<routingVars, countVars, results, hasErrors, requestVars>>

(* processAlert and resultHasError: an alert without a name is an error, a *)
(* mode handler ends either way.                                           *)
Outcome(a) == IF a.alertname = "" THEN {"error"} ELSE {"ok", "error"}

\* Faulty variant: a failed alert returns before the slot is given back.
FinishKeepsSlot(r, i) ==
  /\ i \in running[r] /\ results[r][i] = "none"
  /\ \E outcome \in Outcome(alerts[r][i]) :
       /\ results' = [results EXCEPT ![r][i] = outcome]
       /\ hasErrors' = [hasErrors EXCEPT ![r] = @ \/ outcome = "error"]
       /\ running' = IF outcome = "error" THEN running ELSE [running EXCEPT ![r] = @ \ {i}]
  /\ UNCHANGED <<routingVars, countVars, spawned, requestVars>>

\* Faulty variant: the flag is the outcome of the alert that ended last.
FinishOverwrites(r, i) ==
  /\ i \in running[r] /\ results[r][i] = "none"
  /\ \E outcome \in Outcome(alerts[r][i]) :
       /\ results' = [results EXCEPT ![r][i] = outcome]
       /\ hasErrors' = [hasErrors EXCEPT ![r] = outcome = "error"]
       /\ running' = [running EXCEPT ![r] = @ \ {i}]
  /\ UNCHANGED <<routingVars, countVars, spawned, requestVars>>

(* An alert's goroutine ends: result, flag, slot, wait group.              *)
Finish(r, i) ==
  /\ i \in running[r] /\ results[r][i] = "none"
  /\ \E outcome \in Outcome(alerts[r][i]) :
       /\ results' = [results EXCEPT ![r][i] = outcome]
       /\ hasErrors' = [hasErrors EXCEPT ![r] = @ \/ outcome = "error"]
       /\ running' = [running EXCEPT ![r] = @ \ {i}]
  /\ UNCHANGED <<routingVars, countVars, spawned, requestVars>>

(* wg.Wait returns; RecordRequest and RecordError.                         *)
RecordMetrics(r) ==
  /\ stage[r] = "alerts" /\ spawned[r] = Len(alerts[r]) /\ running[r] = {}
  /\ RecordRequest(hasErrors[r])
  /\ stage' = [stage EXCEPT ![r] = "lookup"]
  /\ UNCHANGED <<routingVars, authFailures, perKey, audited, alertVars, key, route, host, body,
                 alerts, status, routedUnder, overlapped>>
-----------------------------------------------------------------------------
Source(r) == route[r].source
NoStats == [requests |-> 0, errors |-> 0]

(* PerKeyCollector.Record: look the source up under the read lock.         *)
PerKeyLookup(r) ==
  /\ stage[r] = "lookup"
  /\ stage' = [stage EXCEPT ![r] = IF Source(r) \in DOMAIN perKey THEN "count" ELSE "create"]
  /\ UNCHANGED <<routingVars, countVars, alertVars, key, route, host, body, alerts, status,
                 routedUnder, overlapped>>

WithSource(s, stats) == [t \in DOMAIN perKey \cup {s} |-> IF t = s THEN stats ELSE perKey[t]]

\* Faulty variant: the write lock is taken without a second look.
PerKeyCreateBlindly(r) ==
  /\ stage[r] = "create"
  /\ perKey' = WithSource(Source(r), NoStats)
  /\ stage' = [stage EXCEPT ![r] = "count"]
  /\ UNCHANGED <<routingVars, requestsTotal, errorsTotal, authFailures, audited, alertVars, key,
                 route, host, body, alerts, status, routedUnder, overlapped>>

(* Not there: create it under the write lock, after a second look.         *)
PerKeyCreate(r) ==
  /\ stage[r] = "create"
  /\ perKey' = IF Source(r) \in DOMAIN perKey THEN perKey ELSE WithSource(Source(r), NoStats)
  /\ stage' = [stage EXCEPT ![r] = "count"]
  /\ UNCHANGED <<routingVars, requestsTotal, errorsTotal, authFailures, audited, alertVars, key,
                 route, host, body, alerts, status, routedUnder, overlapped>>

(* Count on the atomic counters, write the audit line and the answer.      *)
Answer(r) ==
  /\ stage[r] = "count"
  /\ perKey' = [perKey EXCEPT ![Source(r)].requests = @ + 1,
                              ![Source(r)].errors = IF hasErrors[r] THEN @ + 1 ELSE @]
  /\ Log(IF hasErrors[r] THEN "failure" ELSE "success")
  /\ Reply(r, IF hasErrors[r] THEN 502 ELSE 200)
  /\ UNCHANGED <<routingVars, requestsTotal, errorsTotal, authFailures, alertVars, key, route,
                 host, body, alerts, routedUnder, overlapped>>
-----------------------------------------------------------------------------
Overlaps == [r \in Requests |-> overlapped[r] \/ stage[r] = "target"]

(* OnReload installs the new key store, then the new targets.              *)
ReloadKeys(c) ==
  /\ reloading = Nothing /\ reloads < MaxReloads /\ c # current
  /\ reloading' = c /\ reloads' = reloads + 1
  /\ keyStore' = c.routes
  /\ overlapped' = Overlaps
  /\ UNCHANGED <<hosts, current, countVars, alertVars, stage, key, route, host, body, alerts,
                 status, routedUnder>>

\* Faulty variant: the targets of the webhook handler are forgotten.
ReloadTargetsElsewhere ==
  /\ reloading # Nothing
  /\ current' = reloading /\ reloading' = Nothing
  /\ overlapped' = Overlaps
  /\ UNCHANGED <<keyStore, hosts, reloads, countVars, alertVars, stage, key, route, host, body,
                 alerts, status, routedUnder>>

ReloadTargets ==
  /\ reloading # Nothing
  /\ hosts' = reloading.hosts
  /\ current' = reloading /\ reloading' = Nothing
  /\ overlapped' = Overlaps
  /\ UNCHANGED <<keyStore, reloads, countVars, alertVars, stage, key, route, host, body, alerts,
                 status, routedUnder>>

Handle(r) ==
  \/ ValidateKey(r) \/ FindTarget(r) \/ Parse(r) \/ Spawn(r) \/ RecordMetrics(r)
  \/ PerKeyLookup(r) \/ PerKeyCreate(r) \/ Answer(r)

WebhookNext ==
  \/ \E r \in Requests :
       \/ \E k \in ApiKeys, b \in Bodies : Arrive(r, k, b)
       \/ Handle(r)
       \/ \E i \in running[r] : Finish(r, i)
  \/ \E c \in Configs : ReloadKeys(c)
  \/ ReloadTargets

WebhookSpec == WebhookInit /\ [][WebhookNext]_webhookVars

(* A handler's goroutine goes on, and so do those of its alerts: every     *)
(* call of a mode handler is bounded by the API client's timeouts.         *)
WebhookFairness ==
  \A r \in Requests :
    WF_webhookVars(Handle(r)) /\ WF_webhookVars(\E i \in running[r] : Finish(r, i))

FairWebhookSpec == WebhookSpec /\ WebhookFairness
-----------------------------------------------------------------------------
WebhookTypeOK ==
  /\ stage \in [Requests -> {"new", "key", "target", "parse", "alerts", "lookup", "create",
                             "count", "answered"}]
  /\ status \in [Requests -> {0, 200, 400, 401, 429, 500, 502}]
  /\ hasErrors \in [Requests -> BOOLEAN]
  /\ \A r \in Requests :
       /\ running[r] \subseteq 1..spawned[r] /\ Cardinality(running[r]) <= MaxParallel
       /\ spawned[r] \in 0..Len(alerts[r])

(* The answer waits for every alert and tells their outcome: 200 says that *)
(* all of them went through, 502 that all were tried and one failed.       *)
AnswerTruthful ==
  \A r \in Requests :
    /\ status[r] = 200 => \A i \in DOMAIN alerts[r] : results[r][i] = "ok"
    /\ status[r] = 502 => /\ \A i \in DOMAIN alerts[r] : results[r][i] # "none"
                          /\ \E i \in DOMAIN alerts[r] : results[r][i] = "error"

Answered(codes) == {r \in Requests : status[r] \in codes}
Tally(s) ==
  [requests |-> Cardinality({r \in Answered({200, 502}) : Source(r) = s}),
   errors |-> Cardinality({r \in Answered({502}) : Source(r) = s})]

(* The collector, the per-key collector, the audit log and the answers     *)
(* agree whenever no request is between wg.Wait and its answer, source by  *)
(* source, though two first requests of one source race to create its      *)
(* counters.                                                               *)
CountsAgree ==
  (\A r \in Requests : stage[r] \notin {"lookup", "create", "count"}) =>
    /\ requestsTotal = Cardinality(Answered({200, 502}))
    /\ errorsTotal = Cardinality(Answered({502}))
    /\ perKey = [s \in {Source(r) : r \in Answered({200, 502})} |-> Tally(s)]
    /\ audited = [denied |-> Cardinality(Answered({401})),
                  success |-> Cardinality(Answered({200})),
                  failure |-> Cardinality(Answered({502}))]
    /\ authFailures = Cardinality(Answered({401}))

(* A request whose authentication no reload overlaps is treated as one     *)
(* configuration says: 401 exactly when its key is not in it, otherwise    *)
(* the host its route leads to, never 500.                                 *)
RoutedByOneConfig ==
  \A r \in Requests :
    LET c == routedUnder[r]
    IN  c # Nothing /\ ~overlapped[r] =>
          /\ status[r] = 401 <=> key[r] \notin DOMAIN c.routes
          /\ status[r] # 500
          /\ host[r] # Nothing => host[r] = c.hosts[c.routes[key[r]].target]

(* The same alert, written in the format of its sender or in the universal *)
(* one, is parsed to the same alert; markers of Alertmanager in a Grafana  *)
(* body change nothing.                                                    *)
FormatsAgree(objects) ==
  LET AsUniversal(a) == [name |-> a.alertname, level |-> a.severity, message |-> a.summary,
                         alertname |-> "", severity |-> "", summary |-> "", status |-> a.status]
      universal == [fields |-> {"alerts"},
                    alerts |-> [i \in DOMAIN objects |-> AsUniversal(objects[i])]]
      marked(fields) == [fields |-> fields \cup {"alerts"}, alerts |-> objects]
  IN  \A m \in {{"status"}, {"receiver", "status"}, {"version", "groupKey"}} :
        ParseWebhookPayload(marked(m)) = ParseWebhookPayload(universal)

(* Every request that arrives is answered, whatever its alerts come to.    *)
EveryWebhookAnswered ==
  \A r \in Requests : stage[r] = "key" ~> stage[r] = "answered"
=============================================================================
