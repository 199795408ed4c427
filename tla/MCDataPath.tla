------------------------------ MODULE MCDataPath ------------------------------
(***************************************************************************)
(* Model checking of what an alert passes through on its way in and what   *)
(* it leaves behind: webhook requests, the history file, the event stream  *)
(* to browsers and the health checker.  These parts share no state, so a   *)
(* behaviour of the module is a behaviour of one of them: focus, chosen    *)
(* once, says which one moves while the others stay as they were started.  *)
(***************************************************************************)
EXTENDS HistoryQuery, EventStream, WebhookRequest, HealthChecker, TLC

CONSTANTS
  k1, k2,     \* API keys
  t1, t2,     \* targets
  h1, h2,     \* host names
  s1          \* a source

VARIABLE focus

pathVars == <<focus, historyVars, streamVars, webhookVars, healthVars>>

(* Two configurations: in one both keys lead to t1, in the other k1 leads  *)
(* to t2 and k2 is gone.  Both keys count for one source.                  *)
To(t) == [target |-> t, source |-> s1]
MCConfigs == {[routes |-> (k1 :> To(t1) @@ k2 :> To(t1)), hosts |-> (t1 :> h1)],
              [routes |-> (k1 :> To(t2)), hosts |-> (t2 :> h2)]}

(* An alert with both ways to say its name, and with one of them only.     *)
AlertNamed(n) ==
  [alertname |-> "label", severity |-> "warning", summary |-> "busy", status |-> "firing",
   name |-> n, level |-> "critical", message |-> "full"]

(* No JSON, no alerts, and three alerts of which the first has no name.    *)
MCBodies == {[json |-> FALSE, fields |-> {}, alerts |-> <<>>],
             [json |-> TRUE, fields |-> {"status"}, alerts |-> <<>>],
             [json |-> TRUE, fields |-> {"alerts"},
              alerts |-> <<AlertNamed(""), AlertNamed("name"), AlertNamed("name")>>]}
-----------------------------------------------------------------------------
(* What the pure operators compute, evaluated on bounded inputs before the *)
(* behaviours.  The ring against the stream of numbers pushed into it.     *)
Pushed(size, k) ==
  FoldLeft(LAMBDA r, e : Push(r, size, e), EmptyRing(size), [i \in 1..k |-> i])
ASSUME RingShowsNewest ==
  \A size \in 1..3, k \in 0..8, n \in 0..4 :
    Recent(Pushed(size, k), size, n) =
      Newest([i \in 1..k |-> i], IF n < size THEN n ELSE size)

(* Files of up to four lines, some of them torn.                           *)
Files == UNION {[1..n -> {1, 2, 3, Malformed}] : n \in 0..4}
ASSUME QueriesShowNewest ==
  \A lines \in Files :
    /\ StatsShowNewest(lines)
    /\ \A n \in 0..(MaxHistoryLimit + 1), filter \in {{1, 2, 3}, {2, 3}, {}} :
         QueryNewestFirst(lines, n, filter)

(* Bodies of two alerts whose members may be empty.                        *)
Objects ==
  [alertname : {"", "label"}, severity : {"", "warning"}, summary : {"", "busy"},
   status : {"firing", "resolved"}, name : {"name"}, level : {""}, message : {""}]
ASSUME FormatsLeadToSameAlerts == \A a, b \in Objects : FormatsAgree(<<a, b>>)
-----------------------------------------------------------------------------
(* A part that does not move has one initial state.                        *)
PathInit ==
  /\ focus \in {"history", "stream", "webhook", "health"}
  /\ HistoryInit /\ StreamInit /\ WebhookInit /\ HealthInit
  /\ focus # "history" => maxEntries = 1 /\ filePath = CHOOSE p \in Paths : TRUE
  /\ focus # "webhook" => DOMAIN keyStore = {k1}
  /\ focus # "health" => ~registers /\ ~reachable /\ ~service

PathNext ==
  /\ UNCHANGED focus
  /\ \/ focus = "history" /\ HistoryNext /\ UNCHANGED <<streamVars, webhookVars, healthVars>>
     \/ focus = "stream" /\ StreamNext /\ UNCHANGED <<historyVars, webhookVars, healthVars>>
     \/ focus = "webhook" /\ WebhookNext /\ UNCHANGED <<historyVars, streamVars, healthVars>>
     \/ focus = "health" /\ HealthNext /\ UNCHANGED <<historyVars, streamVars, webhookVars>>

(* The fairness of each part, asked of it when it is the one that moves:   *)
(* HistoryFairness, StreamFairness, WebhookFairness and HealthFairness.    *)
PathFairness ==
  /\ WF_historyVars(focus = "history" /\ Maintenance)
  /\ WF_historyVars(focus = "history" /\ RotationStep)
  /\ <>[][~RotationFault]_historyVars
  /\ \A p \in Publishers : WF_streamVars(focus = "stream" /\ PublishStep(p))
  /\ \A b \in Browsers : WF_streamVars(focus = "stream" /\ Locked(b))
  /\ \A r \in Requests : /\ WF_webhookVars(focus = "webhook" /\ Handle(r))
                         /\ WF_webhookVars(focus = "webhook" /\ \E i \in running[r] : Finish(r, i))
  /\ WF_healthVars(focus = "health" /\ CheckerStep) /\ WF_healthVars(focus = "health" /\ Recover)

PathSpec == PathInit /\ [][PathNext]_pathVars /\ PathFairness
=============================================================================
