--------------------------- MODULE BackgroundProofs --------------------------
(***************************************************************************)
(* Theorems about what runs beside the alerts, for every value of the      *)
(* constants:                                                              *)
(*   EventStream    any publishers, browsers and sizes: no publication     *)
(*                  sends on a closed channel, and no browser is given an  *)
(*                  event twice or one from before it subscribed;          *)
(*   HealthChecker  any number of tolerated failures: what the checker     *)
(*                  reports is what its probes saw;                        *)
(*   TargetHosts    any targets, whether or not they share hosts: every    *)
(*                  end of the preparation has its cause.                  *)
(* The three share no state.                                               *)
(***************************************************************************)
EXTENDS EventStream, HealthChecker, TargetHosts, FiniteSetTheorems, TLAPS

(* What NoSendOnClosed and StreamIsFresh say of one channel.               *)
Fresh(s, E) ==
  \A i \in DOMAIN s : s[i] \in E /\ \A j \in DOMAIN s : s[i] = s[j] => i = j
Absent(e, s) == \A i \in DOMAIN s : s[i] # e

StreamTypes ==
  /\ at \in [Publishers -> {"idle", "listener", "waiting", "sending"}]
  /\ event \in [Publishers -> Nat] /\ events \in Nat
  /\ todo \in [Publishers -> SUBSET Browsers]
  /\ clients \in SUBSET Browsers
  /\ channel \in [Browsers -> Seq(Nat)]
  /\ expected \in [Browsers -> SUBSET Nat]

(* Only a running loop has channels to visit, and they are open.           *)
LoopInv ==
  \A p \in Publishers : /\ at[p] # "sending" => todo[p] = {}
                        /\ todo[p] \subseteq clients

(* The events under way are numbered apart and not beyond the counter.     *)
EventInv ==
  \A p \in Publishers : at[p] # "idle" =>
    /\ event[p] <= events
    /\ \A q \in Publishers : at[q] # "idle" /\ event[p] = event[q] => p = q

(* A channel holds expected events once; a loop that has still to visit it *)
(* carries an expected one that is not in it; an event whose loop has not  *)
(* begun is expected by nobody.                                            *)
ChannelInv ==
  \A b \in Browsers :
    /\ \A e \in expected[b] : e <= events
    /\ b \notin clients => channel[b] = <<>>
    /\ Fresh(channel[b], expected[b])
    /\ \A p \in Publishers :
         /\ b \in todo[p] => event[p] \in expected[b] /\ Absent(event[p], channel[b])
         /\ at[p] \in {"listener", "waiting"} => event[p] \notin expected[b]

StreamInv == StreamTypes /\ LoopInv /\ EventInv /\ ChannelInv
-----------------------------------------------------------------------------
(* Channels as sequences.                                                  *)
LEMMA FreshEmpty ==
  ASSUME NEW E, NEW e
  PROVE  Fresh(<<>>, E) /\ Absent(e, <<>>)
BY DEF Fresh, Absent

LEMMA FreshGrows ==
  ASSUME NEW s, NEW E, NEW F, Fresh(s, E), E \subseteq F
  PROVE  Fresh(s, F)
BY DEF Fresh

LEMMA FreshMisses ==
  ASSUME NEW s, NEW E, NEW e, Fresh(s, E), e \notin E
  PROVE  Absent(e, s)
BY DEF Fresh, Absent

LEMMA AppendElements ==
  ASSUME NEW s \in Seq(Nat), NEW e \in Nat
  PROVE  /\ Append(s, e) \in Seq(Nat)
         /\ DOMAIN s = 1..Len(s) /\ DOMAIN Append(s, e) = 1..(Len(s) + 1) /\ Len(s) \in Nat
         /\ \A i \in 1..Len(s) : Append(s, e)[i] = s[i]
         /\ Append(s, e)[Len(s) + 1] = e
OBVIOUS

LEMMA FreshAppend ==
  ASSUME NEW s \in Seq(Nat), NEW e \in Nat, NEW E, Fresh(s, E), e \in E, Absent(e, s)
  PROVE  Fresh(Append(s, e), E)
<1> DEFINE t == Append(s, e)
           n == Len(s)
<1>1. /\ DOMAIN s = 1..n /\ DOMAIN t = 1..(n + 1) /\ n \in Nat
      /\ \A i \in 1..n : t[i] = s[i]
      /\ t[n + 1] = e
  BY AppendElements
<1> HIDE DEF t, n
<1>2. Fresh(t, E)
  BY <1>1 DEF Fresh, Absent
<1>. QED
  BY <1>2 DEF t

LEMMA AbsentAppend ==
  ASSUME NEW s \in Seq(Nat), NEW e \in Nat, NEW f, Absent(f, s), f # e
  PROVE  Absent(f, Append(s, e))
<1> DEFINE t == Append(s, e)
           n == Len(s)
<1>1. /\ DOMAIN s = 1..n /\ DOMAIN t = 1..(n + 1) /\ n \in Nat
      /\ \A i \in 1..n : t[i] = s[i]
      /\ t[n + 1] = e
  BY AppendElements
<1> HIDE DEF t, n
<1>2. Absent(f, t)
  BY <1>1 DEF Absent
<1>. QED
  BY <1>2 DEF t

LEMMA TailElements ==
  ASSUME NEW s \in Seq(Nat), s # <<>>
  PROVE  /\ Tail(s) \in Seq(Nat) /\ Head(s) = s[1]
         /\ DOMAIN s = 1..Len(s) /\ DOMAIN Tail(s) = 1..(Len(s) - 1) /\ Len(s) \in Nat \ {0}
         /\ \A i \in 1..(Len(s) - 1) : Tail(s)[i] = s[i + 1]
OBVIOUS

LEMMA FreshTail ==
  ASSUME NEW s \in Seq(Nat), s # <<>>, NEW E, Fresh(s, E)
  PROVE  Fresh(Tail(s), E \ {Head(s)})
<1> DEFINE t == Tail(s)
           n == Len(s)
           h == Head(s)
<1>1. /\ DOMAIN s = 1..n /\ DOMAIN t = 1..(n - 1) /\ n \in Nat \ {0} /\ h = s[1]
      /\ \A i \in 1..(n - 1) : t[i] = s[i + 1]
  BY TailElements
<1> HIDE DEF t, n, h
<1>2. ASSUME NEW i \in DOMAIN t
      PROVE  t[i] \in E \ {h} /\ \A j \in DOMAIN t : t[i] = t[j] => i = j
  <2>1. i + 1 \in DOMAIN s /\ t[i] = s[i + 1] /\ 1 \in DOMAIN s /\ i + 1 # 1
    BY <1>1
  <2>2. t[i] \in E \ {h}
    BY <1>1, <2>1 DEF Fresh
  <2>3. ASSUME NEW j \in DOMAIN t, t[i] = t[j] PROVE i = j
    <3>1. j + 1 \in DOMAIN s /\ t[j] = s[j + 1]
      BY <1>1
    <3>2. i + 1 = j + 1
      BY <2>1, <2>3, <3>1, Zenon DEF Fresh
    <3>. QED
      BY <1>1, <3>2
  <2>. QED
    BY <2>2, <2>3
<1>3. Fresh(t, E \ {h})
  BY <1>2 DEF Fresh
<1>. QED
  BY <1>3 DEF t, h

LEMMA AbsentTail ==
  ASSUME NEW s \in Seq(Nat), s # <<>>, NEW e, Absent(e, s)
  PROVE  Absent(e, Tail(s)) /\ e # Head(s)
<1> DEFINE t == Tail(s)
           n == Len(s)
           h == Head(s)
<1>1. /\ DOMAIN s = 1..n /\ DOMAIN t = 1..(n - 1) /\ n \in Nat \ {0} /\ h = s[1]
      /\ \A i \in 1..(n - 1) : t[i] = s[i + 1]
  BY TailElements
<1> HIDE DEF t, n, h
<1>2. ASSUME NEW i \in DOMAIN t PROVE t[i] # e
  <2>1. i + 1 \in DOMAIN s /\ t[i] = s[i + 1]
    BY <1>1
  <2>. QED
    BY <2>1 DEF Absent
<1>3. 1 \in DOMAIN s
  BY <1>1
<1>4. Absent(e, t) /\ e # h
  BY <1>1, <1>2, <1>3 DEF Absent
<1>. QED
  BY <1>4 DEF t, h
-----------------------------------------------------------------------------
LEMMA StreamInvInit == StreamInit => StreamInv
<1> SUFFICES ASSUME StreamInit PROVE StreamInv
  OBVIOUS
<1>1. StreamTypes
  BY DEF StreamInit, StreamTypes
<1>2. LoopInv /\ EventInv
  BY DEF StreamInit, LoopInv, EventInv
<1>3. ChannelInv
  BY FreshEmpty DEF StreamInit, ChannelInv
<1>. QED
  BY <1>1, <1>2, <1>3 DEF StreamInv

(* Publishers get the read lock and begin their loops over the channels    *)
(* that are open now.                                                      *)
LEMMA LoopsBegin ==
  ASSUME StreamInv, NEW P \in SUBSET Publishers, NEW open \in SUBSET Browsers,
         \A p \in P : at[p] \in {"listener", "waiting"},
         \A p \in Publishers \ P : todo[p] \subseteq open,
         StartLoops(P, open), clients' = open, UNCHANGED <<event, events>>,
         channel' \in [Browsers -> Seq(Nat)],
         \A b \in Browsers : \/ channel'[b] = <<>> /\ \A p \in Publishers : b \notin todo[p]
                             \/ b \in open /\ channel'[b] = channel[b]
  PROVE  StreamInv'
<1> USE DEF StreamInv, StartLoops
<1>1. StreamTypes'
  BY DEF StreamTypes
<1>2. LoopInv'
  BY DEF StreamTypes, LoopInv
<1>3. EventInv'
  BY Zenon DEF StreamTypes, EventInv
<1>4. ASSUME NEW b \in Browsers, NEW p \in Publishers, b \in todo'[p]
      PROVE  event'[p] \in expected'[b] /\ Absent(event'[p], channel'[b])
  <2>1. b \in open /\ expected'[b] = expected[b] \cup {event[q] : q \in P}
    BY <1>4, <1>2 DEF StreamTypes, LoopInv
  <2>2. CASE p \in P
    <3>1. event[p] \notin expected[b] /\ Fresh(channel[b], expected[b])
      BY <2>2 DEF StreamTypes, ChannelInv
    <3>2. Absent(event[p], channel[b])
      BY <3>1, FreshMisses
    <3>. QED
      BY <2>1, <2>2, <3>2, FreshEmpty, Zenon
  <2>3. CASE p \notin P
    <3>1. b \in todo[p]
      BY <1>4, <2>3 DEF StreamTypes
    <3>. QED
      BY <2>1, <3>1 DEF ChannelInv
  <2>. QED
    BY <2>2, <2>3
<1>5. ASSUME NEW b \in Browsers, NEW p \in Publishers, at'[p] \in {"listener", "waiting"}
      PROVE  event'[p] \notin expected'[b]
  <2>1. p \notin P /\ at[p] \in {"listener", "waiting"}
    BY <1>5 DEF StreamTypes
  <2>2. event[p] \notin expected[b]
    BY <2>1 DEF ChannelInv
  <2>3. \A q \in P : event[q] # event[p]
    BY <2>1 DEF EventInv
  <2>. QED
    BY <2>2, <2>3 DEF StreamTypes
<1>6. ASSUME NEW b \in Browsers
      PROVE  Fresh(channel'[b], expected'[b])
  <2>1. CASE channel'[b] = <<>>
    BY <2>1, FreshEmpty, Zenon
  <2>2. CASE b \in open /\ channel'[b] = channel[b]
    <3>1. Fresh(channel[b], expected[b]) /\ expected[b] \subseteq expected'[b]
      BY <2>2 DEF StreamTypes, ChannelInv
    <3>. QED
      BY <2>2, <3>1, FreshGrows
  <2>. QED
    BY <2>1, <2>2
<1>7. ASSUME NEW b \in Browsers
      PROVE  /\ \A e \in expected'[b] : e <= events'
             /\ b \notin clients' => channel'[b] = <<>>
  <2>1. \A p \in P : event[p] <= events
    BY Zenon DEF StreamTypes, EventInv
  <2>2. \A e \in expected[b] : e <= events
    BY DEF ChannelInv
  <2>3. \A e \in expected'[b] : e \in expected[b] \/ \E p \in P : e = event[p]
    BY DEF StreamTypes
  <2>. QED
    BY <2>1, <2>2, <2>3
<1>. QED
  BY <1>1, <1>2, <1>3, <1>4, <1>5, <1>6, <1>7, Zenon DEF ChannelInv

(* What the invariant is about; ring, enabled and locking are not in it.   *)
core == <<at, event, todo, clients, channel, expected, events>>

LEMMA Untouched ==
  ASSUME StreamInv, UNCHANGED core
  PROVE  StreamInv'
<1>1. StreamTypes' /\ LoopInv' /\ EventInv'
  BY DEF StreamInv, core, StreamTypes, LoopInv, EventInv
<1>2. ChannelInv'
  BY DEF StreamInv, core, ChannelInv, Fresh, Absent
<1>. QED
  BY <1>1, <1>2 DEF StreamInv

(* A new event has a number that nobody has seen.                          *)
LEMMA EventBegins ==
  ASSUME StreamInv, NEW p \in Publishers,
         at[p] = "idle", events' = events + 1,
         event' = [event EXCEPT ![p] = events'], at' = [at EXCEPT ![p] = "listener"],
         UNCHANGED <<todo, brokerVars>>
  PROVE  StreamInv'
<1> USE DEF StreamInv, brokerVars
<1>1. StreamTypes'
  BY DEF StreamTypes
<1>2. LoopInv'
  BY DEF StreamTypes, LoopInv
<1>3. EventInv'
  BY DEF StreamTypes, EventInv
<1>4. ASSUME NEW b \in Browsers
      PROVE  /\ \A e \in expected'[b] : e <= events'
             /\ b \notin clients' => channel'[b] = <<>>
             /\ Fresh(channel'[b], expected'[b])
  BY DEF StreamTypes, ChannelInv
<1>5. ASSUME NEW b \in Browsers, NEW q \in Publishers
      PROVE  /\ b \in todo'[q] => event'[q] \in expected'[b] /\ Absent(event'[q], channel'[b])
             /\ at'[q] \in {"listener", "waiting"} => event'[q] \notin expected'[b]
  <2>1. CASE q = p
    <3>1. todo[q] = {}
      BY <2>1 DEF LoopInv
    <3>2. events + 1 \notin expected[b]
      BY DEF StreamTypes, ChannelInv
    <3>. QED
      BY <2>1, <3>1, <3>2 DEF StreamTypes
  <2>2. CASE q # p
    BY <2>2 DEF StreamTypes, ChannelInv
  <2>. QED
    BY <2>1, <2>2
<1>. QED
  BY <1>1, <1>2, <1>3, <1>4, <1>5 DEF ChannelInv

LEMMA StepStartPublish ==
  ASSUME StreamInv, NEW p \in Publishers, StartPublish(p)
  PROVE  StreamInv'
<1> USE DEF StreamInv, StartPublish
<1>1. CASE StartLoops({p}, clients)
  <2>1. \A b \in Browsers : \/ channel'[b] = <<>> /\ \A q \in Publishers : b \notin todo[q]
                            \/ b \in clients /\ channel'[b] = channel[b]
    BY DEF LoopInv, ChannelInv
  <2>2. clients \in SUBSET Browsers /\ channel' \in [Browsers -> Seq(Nat)]
    BY DEF StreamTypes
  <2>3. \A q \in Publishers \ {p} : todo[q] \subseteq clients
    BY DEF LoopInv
  <2>. QED
    BY <1>1, <2>1, <2>2, <2>3, LoopsBegin
<1>2. CASE at' = [at EXCEPT ![p] = "waiting"] /\ UNCHANGED <<todo, expected>>
  <2> USE <1>2
  <2>1. StreamTypes' /\ LoopInv' /\ EventInv'
    BY DEF StreamTypes, LoopInv, EventInv
  <2>2. ChannelInv'
    BY DEF StreamTypes, ChannelInv, Fresh, Absent
  <2>. QED
    BY <2>1, <2>2
<1>. QED
  BY <1>1, <1>2

LEMMA StepSend ==
  ASSUME StreamInv, NEW p \in Publishers, NEW b \in Browsers, Send(p, b)
  PROVE  StreamInv'
<1> USE DEF StreamInv, Send
<1>0. channel[b] \in Seq(Nat) /\ event[p] \in Nat
  BY DEF StreamTypes
<1>1. /\ event[p] \in expected[b] /\ Absent(event[p], channel[b]) /\ b \in clients
      /\ Fresh(channel[b], expected[b])
  BY DEF ChannelInv, LoopInv
<1>2. \A c \in Browsers : \/ channel'[c] = channel[c]
                          \/ c = b /\ channel'[c] = Append(channel[b], event[p])
  BY DEF StreamTypes
<1>3. StreamTypes'
  <2>1. channel' \in [Browsers -> Seq(Nat)]
    BY <1>0 DEF StreamTypes
  <2>. QED
    BY <2>1 DEF StreamTypes
<1>4. LoopInv' /\ EventInv'
  BY DEF StreamTypes, LoopInv, EventInv
<1>5. ASSUME NEW c \in Browsers
      PROVE  /\ \A e \in expected'[c] : e <= events'
             /\ c \notin clients' => channel'[c] = <<>>
             /\ Fresh(channel'[c], expected'[c])
  <2>1. /\ \A e \in expected[c] : e <= events
        /\ c \notin clients => channel[c] = <<>>
        /\ Fresh(channel[c], expected[c])
    BY DEF ChannelInv
  <2>2. Fresh(Append(channel[b], event[p]), expected[b])
    BY <1>0, <1>1, FreshAppend
  <2>. QED
    BY <1>1, <1>2, <2>1, <2>2
<1>6. ASSUME NEW c \in Browsers, NEW q \in Publishers
      PROVE  /\ c \in todo'[q] => event'[q] \in expected'[c] /\ Absent(event'[q], channel'[c])
             /\ at'[q] \in {"listener", "waiting"} => event'[q] \notin expected'[c]
  <2>1. /\ c \in todo[q] => event[q] \in expected[c] /\ Absent(event[q], channel[c])
        /\ at[q] \in {"listener", "waiting"} => event[q] \notin expected[c]
    BY DEF ChannelInv
  <2>2. todo'[q] \subseteq todo[q] /\ b \notin todo'[p]
    BY DEF StreamTypes
  <2>3. ASSUME c = b, c \in todo'[q]
        PROVE  Absent(event[q], Append(channel[b], event[p]))
    <3>1. q # p /\ c \in todo[q] /\ at[q] # "idle" /\ at[p] # "idle"
      BY <2>2, <2>3 DEF LoopInv
    <3>2. event[q] # event[p]
      BY <3>1 DEF EventInv
    <3>. QED
      BY <1>0, <2>1, <2>3, <3>1, <3>2, AbsentAppend
  <2>. QED
    BY <1>2, <2>1, <2>2, <2>3
<1>. QED
  BY <1>3, <1>4, <1>5, <1>6 DEF ChannelInv

LEMMA StepEndPublish ==
  ASSUME StreamInv, NEW p \in Publishers, EndPublish(p)
  PROVE  StreamInv'
<1> USE DEF StreamInv, EndPublish, brokerVars
<1>1. StreamTypes' /\ LoopInv' /\ EventInv'
  BY DEF StreamTypes, LoopInv, EventInv
<1>2. ChannelInv'
  BY DEF StreamTypes, ChannelInv, Fresh, Absent
<1>. QED
  BY <1>1, <1>2

(* Under the write lock no loop runs.                                      *)
LEMMA NoLoops ==
  ASSUME StreamInv, NoReader
  PROVE  \A p \in Publishers : todo[p] = {}
BY DEF StreamInv, NoReader, LoopInv

LEMMA StepSubscribe ==
  ASSUME StreamInv, NEW b \in Browsers, Subscribe(b)
  PROVE  StreamInv'
<1> DEFINE P == {p \in Publishers : at[p] = "waiting"}
<1>1. /\ \A p \in Publishers : todo[p] = {}
      /\ clients' \in SUBSET Browsers /\ channel' \in [Browsers -> Seq(Nat)]
  BY NoLoops DEF Subscribe, StreamInv, StreamTypes
<1>2. \A c \in Browsers : \/ channel'[c] = <<>> /\ \A p \in Publishers : c \notin todo[p]
                          \/ c \in clients' /\ channel'[c] = channel[c]
  BY <1>1 DEF Subscribe, StreamInv, ChannelInv
<1>3. P \in SUBSET Publishers /\ \A p \in P : at[p] \in {"listener", "waiting"}
  OBVIOUS
<1>4. StartLoops(P, clients') /\ UNCHANGED <<event, events>>
  BY DEF Subscribe, Unlock
<1> HIDE DEF P
<1>5. \A p \in Publishers \ P : todo[p] \subseteq clients'
  BY <1>1
<1>. QED
  BY <1>1, <1>2, <1>3, <1>4, <1>5, LoopsBegin

LEMMA StepUnsubscribe ==
  ASSUME StreamInv, NEW b \in Browsers, Unsubscribe(b)
  PROVE  StreamInv'
<1> DEFINE P == {p \in Publishers : at[p] = "waiting"}
<1>1. /\ \A p \in Publishers : todo[p] = {}
      /\ clients' \in SUBSET Browsers
  BY NoLoops DEF Unsubscribe, StreamInv, StreamTypes
<1>2. channel' \in [Browsers -> Seq(Nat)]
  BY DEF Unsubscribe, StreamInv, StreamTypes
<1>3. \A c \in Browsers : \/ channel'[c] = <<>> /\ \A p \in Publishers : c \notin todo[p]
                          \/ c \in clients' /\ channel'[c] = channel[c]
  BY <1>1 DEF Unsubscribe, StreamInv, StreamTypes, ChannelInv
<1>4. P \in SUBSET Publishers /\ \A p \in P : at[p] \in {"listener", "waiting"}
  OBVIOUS
<1>5. StartLoops(P, clients') /\ UNCHANGED <<event, events>>
  BY DEF Unsubscribe, Unlock
<1> HIDE DEF P
<1>6. \A p \in Publishers \ P : todo[p] \subseteq clients'
  BY <1>1
<1>. QED
  BY <1>1, <1>2, <1>3, <1>4, <1>5, <1>6, LoopsBegin

LEMMA StepDeliver ==
  ASSUME StreamInv, NEW b \in Browsers, Deliver(b)
  PROVE  StreamInv'
<1> USE DEF StreamInv, Deliver
<1>0. channel[b] \in Seq(Nat) /\ channel[b] # <<>> /\ b \in clients
  BY DEF StreamTypes
<1>1. /\ channel'[b] = Tail(channel[b]) /\ expected'[b] = expected[b] \ {Head(channel[b])}
      /\ \A c \in Browsers \ {b} : channel'[c] = channel[c] /\ expected'[c] = expected[c]
  BY DEF StreamTypes
<1>2. StreamTypes'
  <2>1. Tail(channel[b]) \in Seq(Nat)
    BY <1>0, TailElements
  <2>. QED
    BY <2>1 DEF StreamTypes
<1>3. LoopInv' /\ EventInv'
  BY DEF StreamTypes, LoopInv, EventInv
<1>4. ASSUME NEW c \in Browsers
      PROVE  /\ \A e \in expected'[c] : e <= events'
             /\ c \notin clients' => channel'[c] = <<>>
             /\ Fresh(channel'[c], expected'[c])
  <2>1. /\ \A e \in expected[c] : e <= events
        /\ c \notin clients => channel[c] = <<>>
        /\ Fresh(channel[c], expected[c])
    BY DEF ChannelInv
  <2>2. c = b => Fresh(Tail(channel[b]), expected[b] \ {Head(channel[b])})
    BY <1>0, <2>1, FreshTail
  <2>. QED
    BY <1>0, <1>1, <2>1, <2>2, Zenon
<1>5. ASSUME NEW c \in Browsers, NEW q \in Publishers
      PROVE  /\ c \in todo'[q] => event'[q] \in expected'[c] /\ Absent(event'[q], channel'[c])
             /\ at'[q] \in {"listener", "waiting"} => event'[q] \notin expected'[c]
  <2>1. /\ c \in todo[q] => event[q] \in expected[c] /\ Absent(event[q], channel[c])
        /\ at[q] \in {"listener", "waiting"} => event[q] \notin expected[c]
    BY DEF ChannelInv
  <2>2. ASSUME c = b, c \in todo[q]
        PROVE  Absent(event[q], Tail(channel[b])) /\ event[q] # Head(channel[b])
    BY <1>0, <2>1, <2>2, AbsentTail
  <2>. QED
    BY <1>1, <2>1, <2>2
<1>. QED
  BY <1>2, <1>3, <1>4, <1>5, Zenon DEF ChannelInv

LEMMA StreamInvStep == StreamInv /\ [StreamNext]_streamVars => StreamInv'
<1> SUFFICES ASSUME StreamInv, [StreamNext]_streamVars PROVE StreamInv'
  OBVIOUS
<1>1. CASE Toggle
  BY <1>1, Untouched DEF Toggle, core, brokerVars
<1>2. ASSUME NEW p \in Publishers, PushDebug(p) \/ AlertEvent(p) PROVE StreamInv'
  BY <1>2, EventBegins DEF PushDebug, AlertEvent
<1>3. ASSUME NEW p \in Publishers, PublishStep(p) PROVE StreamInv'
  BY <1>3, StepStartPublish, StepEndPublish, StepSend DEF PublishStep
<1>4. ASSUME NEW b \in Browsers, Connect(b) \/ Disconnect(b) PROVE StreamInv'
  BY <1>4, Untouched DEF Connect, Disconnect, core
<1>5. ASSUME NEW b \in Browsers, Deliver(b) \/ Locked(b) PROVE StreamInv'
  BY <1>5, StepDeliver, StepSubscribe, StepUnsubscribe DEF Locked
<1>6. CASE UNCHANGED streamVars
  BY <1>6, Untouched DEF streamVars, core, brokerVars
<1>. QED
  BY <1>1, <1>2, <1>3, <1>4, <1>5, <1>6 DEF StreamNext

LEMMA StreamAlways == StreamSpec => []StreamInv
BY StreamInvInit, StreamInvStep, PTL DEF StreamSpec

-----------------------------------------------------------------------------
(* The sizes: what the type invariant says beyond StreamTypes.             *)
CountInv == events <= MaxEvents /\ \A p \in Publishers : event[p] <= MaxEvents
ClientInv ==
  /\ IsFiniteSet(clients) /\ Cardinality(clients) \in Nat /\ Cardinality(clients) <= MaxClients
  /\ locking \subseteq Browsers
BufferInv == \A b \in Browsers : Len(channel[b]) <= BufferSize
RingInv == ring.pos \in 0..(RingSize - 1) /\ ring.count \in 0..RingSize
SizeInv == CountInv /\ ClientInv /\ BufferInv /\ RingInv

LEMMA SizeInvInit == StreamInit => SizeInv
<1> SUFFICES ASSUME StreamInit PROVE SizeInv
  OBVIOUS
<1>1. CountInv /\ BufferInv /\ RingInv
  BY StreamAssumption DEF StreamInit, CountInv, BufferInv, RingInv, EmptyRing
<1>2. ClientInv
  BY StreamAssumption, FS_EmptySet DEF StreamInit, ClientInv
<1>. QED
  BY <1>1, <1>2 DEF SizeInv

LEMMA CountsStay ==
  ASSUME StreamInv, CountInv, [StreamNext]_streamVars
  PROVE  CountInv'
<1> USE StreamAssumption DEF StreamInv, StreamTypes, CountInv
<1>1. ASSUME NEW p \in Publishers, PushDebug(p) \/ AlertEvent(p) PROVE CountInv'
  <2>1. events < MaxEvents /\ events' = events + 1 /\ event' = [event EXCEPT ![p] = events']
    BY <1>1 DEF PushDebug, AlertEvent
  <2>. QED
    BY <2>1
<1>2. ASSUME NEW p \in Publishers, EndPublish(p) PROVE CountInv'
  BY <1>2 DEF EndPublish
<1>3. CASE UNCHANGED <<event, events>>
  BY <1>3
<1>. QED
  BY <1>1, <1>2, <1>3, Zenon DEF StreamNext, Toggle, PublishStep, StartPublish, Send, Connect, Deliver,
     Disconnect, Locked, Subscribe, Unsubscribe, streamVars

LEMMA ClientsStay ==
  ASSUME StreamInv, ClientInv, [StreamNext]_streamVars
  PROVE  ClientInv'
<1>1. clients \subseteq Browsers
  BY DEF StreamInv, StreamTypes
<1>2. ASSUME NEW b \in Browsers, Subscribe(b) PROVE ClientInv'
  <2>1. IsFiniteSet(clients \cup {b}) /\ Cardinality(clients \cup {b}) = Cardinality(clients) + 1
    BY <1>2, FS_AddElement DEF Subscribe, ClientInv
  <2>. QED
    BY <1>2, <2>1, StreamAssumption DEF Subscribe, ClientInv
<1>3. ASSUME NEW b \in Browsers, Unsubscribe(b) PROVE ClientInv'
  <2>1. IsFiniteSet(clients \ {b}) /\ Cardinality(clients \ {b}) = Cardinality(clients) - 1
    BY <1>3, FS_RemoveElement DEF Unsubscribe, ClientInv
  <2>2. Cardinality(clients \ {b}) \in Nat
    BY <2>1, FS_CardinalityType
  <2>. QED
    BY <1>3, <2>1, <2>2, StreamAssumption DEF Unsubscribe, ClientInv
<1>4. ASSUME NEW b \in Browsers, Connect(b) \/ Disconnect(b) PROVE ClientInv'
  BY <1>4 DEF Connect, Disconnect, ClientInv
<1>5. CASE UNCHANGED <<clients, locking>>
  BY <1>5 DEF ClientInv
<1>. QED
  BY <1>2, <1>3, <1>4, <1>5, Zenon DEF StreamNext, Toggle, PushDebug, AlertEvent, PublishStep,
     StartPublish, Send, EndPublish, Deliver, Locked, streamVars, brokerVars

LEMMA BuffersStay ==
  ASSUME StreamInv, BufferInv, [StreamNext]_streamVars
  PROVE  BufferInv'
<1>1. /\ channel \in [Browsers -> Seq(Nat)] /\ event \in [Publishers -> Nat]
      /\ BufferSize \in Nat \ {0}
  BY StreamAssumption DEF StreamInv, StreamTypes
<1>2. ASSUME NEW p \in Publishers, NEW b \in Browsers, Send(p, b) PROVE BufferInv'
  <2>1. Len(channel[b]) < BufferSize => Len(Append(channel[b], event[p])) <= BufferSize
    BY <1>1
  <2>. QED
    BY <1>1, <1>2, <2>1 DEF Send, BufferInv
<1>3. ASSUME NEW b \in Browsers, Deliver(b) PROVE BufferInv'
  <2>1. Len(channel[b]) <= BufferSize => Len(Tail(channel[b])) <= BufferSize
    BY <1>1, <1>3 DEF Deliver
  <2>. QED
    BY <1>1, <1>3, <2>1 DEF Deliver, BufferInv
<1>4. ASSUME NEW b \in Browsers, Unsubscribe(b) PROVE BufferInv'
  BY <1>1, <1>4 DEF Unsubscribe, BufferInv
<1>5. CASE UNCHANGED channel
  BY <1>5 DEF BufferInv
<1>. QED
  BY <1>2, <1>3, <1>4, <1>5, Zenon DEF StreamNext, Toggle, PushDebug, AlertEvent, PublishStep,
     StartPublish, EndPublish, Connect, Disconnect, Locked, Subscribe, streamVars, brokerVars

LEMMA RingStays ==
  ASSUME RingInv, [StreamNext]_streamVars
  PROVE  RingInv'
<1>1. ASSUME NEW p \in Publishers, PushDebug(p) PROVE RingInv'
  <2>1. /\ ring'.pos = (ring.pos + 1) % RingSize
        /\ ring'.count = IF ring.count < RingSize THEN ring.count + 1 ELSE ring.count
    BY <1>1, Zenon DEF PushDebug, Push
  <2>. QED
    BY <2>1, StreamAssumption DEF RingInv
<1>2. CASE UNCHANGED ring
  BY <1>2 DEF RingInv
<1>. QED
  BY <1>1, <1>2, Zenon DEF StreamNext, Toggle, AlertEvent, PublishStep, StartPublish, Send, EndPublish,
     Connect, Deliver, Disconnect, Locked, Subscribe, Unsubscribe, streamVars, ringVars

(* Types: the broker never has more clients than its limit, no buffer is   *)
(* overfull, and the ring's position and count stay in its range.          *)
THEOREM StreamTypesHold == StreamSpec => []StreamTypeOK
<1>1. StreamInv /\ SizeInv /\ [StreamNext]_streamVars => SizeInv'
  BY CountsStay, ClientsStay, BuffersStay, RingStays DEF SizeInv
<1>2. StreamInv /\ SizeInv => StreamTypeOK
  BY StreamAssumption DEF StreamInv, StreamTypes, SizeInv, CountInv, ClientInv, BufferInv, RingInv,
     StreamTypeOK
<1>. QED
  BY <1>1, <1>2, SizeInvInit, StreamAlways, PTL DEF StreamSpec

(* A channel is never closed under a publication that has still to send on *)
(* it, for any number of publishers and browsers.                          *)
THEOREM ClosedChannelsAreLeftAlone == StreamSpec => []NoSendOnClosed
<1>1. StreamInv => NoSendOnClosed
  BY DEF StreamInv, LoopInv, NoSendOnClosed
<1>. QED
  BY <1>1, StreamAlways, PTL

(* A browser finds in its channel only events published since it           *)
(* subscribed, and each once, for any buffer size and number of events.    *)
THEOREM BrowsersSeeFreshEvents == StreamSpec => []StreamIsFresh
<1>1. StreamInv => StreamIsFresh
  BY DEF StreamInv, StreamTypes, ChannelInv, Fresh, StreamIsFresh
<1>. QED
  BY <1>1, StreamAlways, PTL
-----------------------------------------------------------------------------
(* HealthChecker.                                                          *)

(* The counters the checker keeps, tied to the failures that were seen.    *)
HealthCounts ==
  /\ streak \in Nat /\ streak <= MaxFails /\ fails = streak
  /\ reportedStreak \in Nat
  /\ healthy \in BOOLEAN /\ icingaUp \in BOOLEAN

HealthInv ==
  /\ HealthCounts
  /\ icingaUp => streak = 0
  /\ ReportMatchesProbes

LEMMA ProbeKeeps ==
  ASSUME HealthInv, Probe
  PROVE  HealthInv'
<1>. USE HealthAssumption
<1>1. CASE CallWorks /\ icingaUp' = TRUE /\ healthy' = TRUE /\ fails' = 0 /\ streak' = 0
  BY <1>1 DEF HealthInv, HealthCounts, ReportMatchesProbes, Probe, icingaVars
<1>2. CASE /\ CallFails
           /\ icingaUp' = FALSE /\ fails' = Capped(fails) /\ streak' = Capped(streak)
           /\ healthy' = (healthy /\ fails' < FailLimit)
  <2>1. /\ streak' \in Nat /\ streak' <= MaxFails /\ fails' = streak' /\ streak <= streak'
        /\ streak < FailLimit => streak' <= FailLimit
    BY <1>2 DEF HealthInv, HealthCounts, Capped
  <2>2. streak' < FailLimit => streak < FailLimit
    BY <2>1 DEF HealthInv, HealthCounts
  <2>3. (healthy <=> streak < FailLimit) /\ healthy' = (healthy /\ streak' < FailLimit)
    BY <1>2, <2>1 DEF HealthInv, ReportMatchesProbes
  <2>4. /\ healthy' \in BOOLEAN /\ (healthy' <=> streak' < FailLimit)
    BY <2>2, <2>3, Zenon
  <2>. QED BY <1>2, <2>1, <2>4, Zenon DEF HealthInv, HealthCounts, ReportMatchesProbes, Probe, icingaVars
<1>. QED BY <1>1, <1>2, Zenon DEF Probe

LEMMA ReportKeeps ==
  ASSUME HealthInv, Report
  PROVE  HealthInv'
<1>. USE HealthAssumption
<1>1. CASE /\ result' = IF healthy THEN "ok" ELSE "critical"
           /\ reportedStreak' = streak
  BY <1>1 DEF HealthInv, HealthCounts, ReportMatchesProbes, Report
<1>2. CASE UNCHANGED <<result, reportedStreak>>
  BY <1>2 DEF HealthInv, HealthCounts, ReportMatchesProbes, Report
<1>. QED BY <1>1, <1>2 DEF Report

LEMMA RegisterKeeps ==
  ASSUME HealthInv, NEW next, RegisterService(next)
  PROVE  HealthInv'
<1>1. result' = result \/ result' = "none"
  BY DEF RegisterService
<1>. QED BY <1>1 DEF HealthInv, HealthCounts, ReportMatchesProbes, RegisterService

LEMMA HealthStep ==
  ASSUME HealthInv, [HealthNext]_healthVars
  PROVE  HealthInv'
<1>1. CASE StartChecker
  BY <1>1, RegisterKeeps DEF StartChecker, HealthInv, HealthCounts, ReportMatchesProbes, icingaVars
<1>2. CASE Probe
  BY <1>2, ProbeKeeps
<1>3. CASE RetryRegister
  BY <1>3, RegisterKeeps DEF RetryRegister
<1>4. CASE Report
  BY <1>4, ReportKeeps
<1>5. CASE NextCheck \/ StopChecker
  BY <1>5 DEF NextCheck, StopChecker, HealthInv, HealthCounts, ReportMatchesProbes, icingaVars
<1>6. CASE Farewell
  BY <1>6 DEF Farewell, HealthInv, HealthCounts, ReportMatchesProbes
<1>7. CASE GoDown \/ ComeUp \/ LoseService
  BY <1>7 DEF GoDown, ComeUp, LoseService, HealthInv, HealthCounts, ReportMatchesProbes, checkerVars
<1>8. CASE UNCHANGED healthVars
  BY <1>8 DEF healthVars, checkerVars, icingaVars, HealthInv, HealthCounts, ReportMatchesProbes
<1>. QED BY <1>1, <1>2, <1>3, <1>4, <1>5, <1>6, <1>7, <1>8 DEF HealthNext, CheckerStep, Recover

(* What Icinga2 shows of the bridge and what /health says agree with the   *)
(* probes, for every number of failures tolerated and in every order of    *)
(* outages, failing calls and deletions.                                   *)
THEOREM ReportsAreTrue == HealthSpec => []ReportMatchesProbes
<1>1. HealthInit => HealthInv
  <2>. SUFFICES ASSUME HealthInit PROVE HealthInv
    OBVIOUS
  <2>1. streak \in Nat /\ streak <= MaxFails /\ fails = streak /\ reportedStreak \in Nat
        /\ streak < FailLimit
    BY HealthAssumption DEF HealthInit
  <2>2. healthy = TRUE /\ icingaUp = FALSE /\ result = "none"
    BY DEF HealthInit
  <2>. QED BY <2>1, <2>2, Zenon DEF HealthInv, HealthCounts, ReportMatchesProbes
<1>2. HealthInv /\ [HealthNext]_healthVars => HealthInv'
  BY HealthStep
<1>3. HealthInv => ReportMatchesProbes
  BY DEF HealthInv
<1>. QED BY <1>1, <1>2, <1>3, PTL DEF HealthSpec
-----------------------------------------------------------------------------
(* TargetHosts                                                             *)
HostsTypes ==
  /\ object \in [HostNames -> {"absent", "ours", "dummy", "foreign"}]
  /\ phase \in {"starting", "serving", "reloading", "exited"}
  /\ task \in [Targets -> {"query", "check", "put", "done"}]
  /\ firstErr \in {"none", "missing", "create", "conflict"}
  /\ autoCreate \in BOOLEAN /\ disturbed \in BOOLEAN

(* A target whose goroutine has ended without an error has its host; one   *)
(* that is about to create its host found none, and if there is one now,   *)
(* an operator or a target of the same host made it.                       *)
Covered(t) == HostOf[t] \in unverified \cup lost \/ Exists(HostOf[t])
Race == disturbed \/ SharedHost
TasksInv ==
  \A t \in Targets :
    /\ task[t] = "done" /\ firstErr = "none" => Covered(t)
    /\ task[t] \in {"check", "put"} => autoCreate /\ (Exists(HostOf[t]) => Race)

ErrorsExplained ==
  /\ firstErr = "missing" => ~autoCreate
  /\ firstErr \in {"create", "conflict"} => autoCreate /\ Race

PhaseInv ==
  /\ phase \in {"serving", "exited"} => \A t \in Targets : task[t] = "done"
  /\ phase = "exited" => firstErr # "none"

HostsInv == HostsTypes /\ TasksInv /\ ErrorsExplained /\ PhaseInv

USE HostsAssumption

(* The steps of a goroutine that leave the objects alone.                  *)
LEMMA FailKeeps ==
  ASSUME HostsInv, NEW t \in Targets, NEW why \in {"missing", "create", "conflict"}, Fail(t, why),
         why = "missing" => ~autoCreate,
         why \in {"create", "conflict"} => autoCreate /\ Race',
         Preparing, disturbed => disturbed', disturbed' \in BOOLEAN,
         object' \in [HostNames -> {"absent", "ours", "dummy", "foreign"}],
         \A h \in HostNames : object'[h] = object[h] \/ Race',
         \A h \in HostNames : Exists(h) => Exists(h)',
         UNCHANGED <<autoCreate, phase>>
  PROVE  HostsInv'
<1>1. Race => Race'
  BY DEF Race, SharedHost
<1>2. HostsTypes' /\ firstErr' # "none"
  BY DEF HostsInv, HostsTypes, Fail, Proceed
<1>3. ErrorsExplained'
  BY <1>1 DEF HostsInv, HostsTypes, ErrorsExplained, Fail
<1>4. PhaseInv'
  BY DEF HostsInv, HostsTypes, PhaseInv, Fail, Proceed, Preparing
<1>5. ASSUME NEW u \in Targets, task'[u] \in {"check", "put"}
      PROVE  autoCreate' /\ (Exists(HostOf[u])' => Race')
  <2>1. task[u] = task'[u] /\ autoCreate' = autoCreate
    BY <1>5 DEF HostsInv, HostsTypes, Fail, Proceed
  <2>2. autoCreate /\ (Exists(HostOf[u]) => Race) /\ HostOf[u] \in HostNames
    BY <1>5, <2>1 DEF HostsInv, TasksInv
  <2>. QED BY <1>1, <2>1, <2>2 DEF Exists
<1>6. TasksInv'
  BY <1>2, <1>5 DEF TasksInv
<1>. QED BY <1>2, <1>3, <1>4, <1>6 DEF HostsInv

(* A goroutine that goes on to create its host, or ends with it in place.  *)
LEMMA ProceedKeeps ==
  ASSUME HostsInv, NEW t \in Targets, NEW what \in {"check", "put", "done"}, Proceed(t, what),
         what = "done" => Covered(t)',
         what # "done" => autoCreate /\ (Exists(HostOf[t]) => Race),
         Preparing, unverified \subseteq unverified',
         UNCHANGED <<autoCreate, phase, object, firstErr, disturbed, lost>>
  PROVE  HostsInv'
<1>1. Race' = Race /\ \A u \in Targets : Exists(HostOf[u])' = Exists(HostOf[u])
  BY DEF Race, SharedHost, Exists
<1>2. HostsTypes'
  BY DEF HostsInv, HostsTypes, Proceed
<1>3. ErrorsExplained'
  BY <1>1 DEF HostsInv, ErrorsExplained
<1>4. PhaseInv'
  BY DEF HostsInv, HostsTypes, PhaseInv, Proceed, Preparing
<1>5. ASSUME NEW u \in Targets
      PROVE  /\ (task[u] = "done" /\ firstErr = "none" => Covered(u))'
             /\ (task[u] \in {"check", "put"} => autoCreate /\ (Exists(HostOf[u]) => Race))'
  <2>1. CASE u = t
    BY <1>1, <2>1 DEF HostsInv, HostsTypes, Proceed
  <2>2. CASE u # t
    <3>1. task'[u] = task[u] /\ (Covered(u) => Covered(u)')
      BY <1>1, <2>2 DEF HostsInv, HostsTypes, Proceed, Covered
    <3>. QED BY <1>1, <3>1 DEF HostsInv, TasksInv
  <2>. QED BY <2>1, <2>2
<1>6. TasksInv'
  BY <1>5 DEF TasksInv
<1>. QED BY <1>2, <1>3, <1>4, <1>6 DEF HostsInv

LEMMA LookUpKeeps ==
  ASSUME HostsInv, NEW t \in Targets, LookUp(t)
  PROVE  HostsInv'
<1>. UNCHANGED <<autoCreate, object, phase, disturbed, lost>> /\ Preparing
  BY DEF LookUp
<1>1. CASE Proceed(t, "done") /\ unverified' = unverified \cup {HostOf[t]} /\ UNCHANGED firstErr
  BY <1>1, ProceedKeeps DEF Covered
<1>2. CASE Exists(HostOf[t]) /\ Proceed(t, "done") /\ UNCHANGED <<firstErr, unverified>>
  BY <1>2, ProceedKeeps DEF Covered, Exists
<1>3. CASE ~autoCreate /\ Fail(t, "missing")
  BY <1>3, FailKeeps DEF HostsInv, HostsTypes, Exists
<1>4. CASE /\ ~Exists(HostOf[t]) /\ autoCreate
           /\ Proceed(t, "check") /\ UNCHANGED <<firstErr, unverified>>
  BY <1>4, ProceedKeeps
<1>. QED BY <1>1, <1>2, <1>3, <1>4 DEF LookUp

(* A host that is there when it is about to be created was made meanwhile. *)
LEMMA ConflictCheckKeeps ==
  ASSUME HostsInv, NEW t \in Targets, ConflictCheck(t)
  PROVE  HostsInv'
<1>. UNCHANGED <<autoCreate, object, phase, unverified, lost>> /\ Preparing
  BY DEF ConflictCheck
<1>0. autoCreate /\ (Exists(HostOf[t]) => Race)
  BY DEF ConflictCheck, HostsInv, TasksInv
<1>1. CASE Fail(t, "create") /\ disturbed' = TRUE
  BY <1>0, <1>1, FailKeeps DEF HostsInv, HostsTypes, Exists, Race
<1>2. CASE Conflict(HostOf[t]) /\ Fail(t, "conflict") /\ UNCHANGED disturbed
  <2>1. Race'
    BY <1>0, <1>2 DEF Conflict, Exists, Race, SharedHost
  <2>. QED BY <1>0, <1>2, <2>1, FailKeeps DEF HostsInv, HostsTypes, Exists
<1>3. CASE Proceed(t, "put") /\ UNCHANGED <<firstErr, disturbed>>
  BY <1>0, <1>3, ProceedKeeps
<1>. QED BY <1>1, <1>2, <1>3, Zenon DEF ConflictCheck

(* The host of t is created: every other target that was about to create   *)
(* it shares it with t.                                                    *)
LEMMA CreatedKeeps ==
  ASSUME HostsInv, NEW t \in Targets, task[t] = "put", Preparing,
         object' = [object EXCEPT ![HostOf[t]] = "ours"],
         Proceed(t, "done"), UNCHANGED <<autoCreate, phase, firstErr, disturbed, unverified, lost>>
  PROVE  HostsInv'
<1>1. Race' = Race
  BY DEF Race, SharedHost
<1>2. HostsTypes'
  BY DEF HostsInv, HostsTypes, Proceed
<1>3. ErrorsExplained'
  BY <1>1 DEF HostsInv, ErrorsExplained
<1>4. PhaseInv'
  BY DEF HostsInv, HostsTypes, PhaseInv, Proceed, Preparing
<1>5. ASSUME NEW u \in Targets
      PROVE  /\ (task[u] = "done" /\ firstErr = "none" => Covered(u))'
             /\ (task[u] \in {"check", "put"} => autoCreate /\ (Exists(HostOf[u]) => Race))'
  <2>1. CASE HostOf[u] = HostOf[t]
    <3>1. Covered(u)'
      BY <2>1 DEF HostsInv, HostsTypes, Covered, Exists
    <3>2. u = t \/ Race
      BY <2>1 DEF Race, SharedHost
    <3>3. task'[t] = "done" /\ (u # t => task'[u] = task[u])
      BY DEF HostsInv, HostsTypes, Proceed
    <3>. QED BY <1>1, <3>1, <3>2, <3>3, Zenon DEF HostsInv, TasksInv
  <2>2. CASE HostOf[u] # HostOf[t]
    <3>1. task'[u] = task[u] /\ object'[HostOf[u]] = object[HostOf[u]]
      BY <2>2 DEF HostsInv, HostsTypes, Proceed
    <3>. QED BY <1>1, <3>1 DEF HostsInv, TasksInv, Covered, Exists
  <2>. QED BY <2>1, <2>2
<1>6. TasksInv'
  BY <1>5 DEF TasksInv
<1>. QED BY <1>2, <1>3, <1>4, <1>6 DEF HostsInv

LEMMA PutHostKeeps ==
  ASSUME HostsInv, NEW t \in Targets, PutHost(t)
  PROVE  HostsInv'
<1>. UNCHANGED <<autoCreate, phase, unverified, lost>> /\ Preparing /\ task[t] = "put"
  BY DEF PutHost
<1>0. autoCreate /\ (Exists(HostOf[t]) => Race)
  BY DEF HostsInv, TasksInv
<1>1. CASE /\ object' = [object EXCEPT ![HostOf[t]] = "ours"]
           /\ Proceed(t, "done") /\ UNCHANGED <<firstErr, disturbed>>
  BY <1>1, CreatedKeeps, Zenon
<1>2. CASE Exists(HostOf[t]) /\ Fail(t, "create") /\ UNCHANGED <<object, disturbed>>
  <2>1. Race'
    BY <1>0, <1>2 DEF Race, SharedHost
  <2>. QED BY <1>0, <1>2, <2>1, FailKeeps DEF HostsInv, HostsTypes, Exists
<1>3. CASE /\ disturbed' = TRUE /\ Fail(t, "create")
           /\ object' \in {object, [object EXCEPT ![HostOf[t]] = IF @ = "absent" THEN "ours" ELSE @]}
  <2>1. object' \in [HostNames -> {"absent", "ours", "dummy", "foreign"}]
    BY <1>3 DEF HostsInv, HostsTypes
  <2>2. \A h \in HostNames : Exists(h) => Exists(h)'
    BY <1>3 DEF HostsInv, HostsTypes, Exists
  <2>3. Race' /\ disturbed' \in BOOLEAN
    BY <1>3 DEF Race
  <2>. QED BY <1>0, <1>3, <2>1, <2>2, <2>3, FailKeeps
<1>. QED BY <1>1, <1>2, <1>3, Zenon DEF PutHost

LEMMA OperatorKeeps ==
  ASSUME HostsInv, NEW h \in HostNames, OperatorCreates(h) \/ OperatorRemoves(h)
  PROVE  HostsInv'
<1>1. Race' /\ UNCHANGED <<autoCreate, phase, task, firstErr, unverified>>
  BY DEF OperatorCreates, OperatorRemoves, Race
<1>2. HostsTypes'
  BY Zenon DEF HostsInv, HostsTypes, OperatorCreates, OperatorRemoves
<1>3. ErrorsExplained' /\ PhaseInv'
  BY <1>1 DEF HostsInv, ErrorsExplained, PhaseInv
<1>4. ASSUME NEW u \in Targets, Covered(u)
      PROVE  Covered(u)'
  BY <1>4 DEF HostsInv, HostsTypes, Covered, Exists, OperatorCreates, OperatorRemoves
<1>5. TasksInv'
  BY <1>1, <1>4 DEF HostsInv, TasksInv
<1>. QED BY <1>2, <1>3, <1>5 DEF HostsInv

LEMMA PassKeeps ==
  ASSUME HostsInv, PassEnds \/ ReloadHosts
  PROVE  HostsInv'
<1>1. CASE PassEnds
  <2>1. Race' = Race /\ \A u \in Targets : Covered(u)' = Covered(u) /\ Exists(HostOf[u])' = Exists(HostOf[u])
    BY <1>1 DEF PassEnds, Race, SharedHost, Covered, Exists
  <2>2. HostsTypes' /\ PhaseInv'
    BY <1>1 DEF PassEnds, HostsInv, HostsTypes, PhaseInv
  <2>3. ErrorsExplained' /\ TasksInv'
    BY <1>1, <2>1 DEF PassEnds, HostsInv, ErrorsExplained, TasksInv
  <2>. QED BY <2>2, <2>3 DEF HostsInv
<1>2. CASE ReloadHosts
  <2>1. HostsTypes'
    BY <1>2, Zenon DEF ReloadHosts, HostsInv, HostsTypes
  <2>2. PhaseInv' /\ ErrorsExplained' /\ TasksInv'
    BY <1>2 DEF ReloadHosts, PhaseInv, ErrorsExplained, TasksInv
  <2>. QED BY <2>1, <2>2 DEF HostsInv
<1>. QED BY <1>1, <1>2

(* However many targets share hosts, in whatever order their goroutines    *)
(* run and operators interfere: a pass without an error leaves the hosts   *)
(* in place, and the process gives up at startup only for a reason.        *)
THEOREM PreparationAlwaysExplained == HostsSpec => []PreparationExplained
<1>1. HostsInit => HostsInv
  BY Zenon DEF HostsInit, HostsInv, HostsTypes, TasksInv, ErrorsExplained, PhaseInv
<1>2. HostsInv /\ [HostsNext]_hostVars => HostsInv'
  <2>. SUFFICES ASSUME HostsInv, [HostsNext]_hostVars PROVE HostsInv'
    OBVIOUS
  <2>1. CASE UNCHANGED hostVars
    BY <2>1 DEF hostVars, HostsInv, HostsTypes, TasksInv, ErrorsExplained, PhaseInv, Covered,
                Race, SharedHost, Exists
  <2>. QED BY <2>1, LookUpKeeps, ConflictCheckKeeps, PutHostKeeps, PassKeeps, OperatorKeeps
           DEF HostsNext
<1>3. HostsInv => PreparationExplained
  BY DEF HostsInv, HostsTypes, TasksInv, ErrorsExplained, PhaseInv, Covered, Race,
         PreparationExplained
<1>. QED BY <1>1, <1>2, <1>3, PTL DEF HostsSpec
=============================================================================
