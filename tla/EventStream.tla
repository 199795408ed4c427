----------------------------- MODULE EventStream ------------------------------
(***************************************************************************)
(* The live view of the dashboard: the ring of recent API traffic          *)
(* (icinga/debug.go), its listener, and the broker that fans events out to *)
(* the connected browsers (handler/sse.go).                                *)
(*                                                                         *)
(* A publisher is a goroutine that pushes a debug entry or publishes an    *)
(* alert event.  The ring has its own mutex; the listener runs after it is *)
(* released.  A publication holds the broker's read lock for its loop over *)
(* the client channels, so the loops of two publishers interleave, and     *)
(* Subscribe and Unsubscribe, which take the write lock, wait for all of   *)
(* them.  A reader that finds a writer waiting waits too, and the next     *)
(* writer lets in all that wait when it unlocks (sync.RWMutex).  A send    *)
(* never blocks: a full channel loses the event.                           *)
(*                                                                         *)
(* expected is a history variable: the events published since a client     *)
(* joined that it was not given.                                           *)
(***************************************************************************)
EXTENDS Integers, Sequences, FiniteSets, RingBuffer

CONSTANTS
  Publishers,       \* goroutines that push or publish
  Browsers,         \* connections that may subscribe
  RingSize,         \* debugRingSize
  BufferSize,       \* sseChannelBuffer
  MaxClients,       \* sseMaxClients
  MaxEvents         \* bound: events pushed or published

ASSUME StreamAssumption ==
  /\ RingSize \in Nat \ {0} /\ BufferSize \in Nat \ {0}
  /\ MaxClients \in Nat /\ MaxEvents \in Nat

VARIABLES
  ring, enabled,    \* the debug ring and its switch
  at,               \* what each publisher does next
  event,            \* the event it carries
  todo,             \* the clients its loop has not reached
  clients,          \* b.clients: the subscribed channels, all open
  locking,          \* connections waiting for the write lock
  channel,          \* the buffered events of each open channel
  events,           \* number of events so far
  expected

ringVars == <<ring, enabled>>
brokerVars == <<clients, locking, channel, expected>>
streamVars == <<ringVars, at, event, todo, brokerVars, events>>

StreamInit ==
  /\ ring = EmptyRing(RingSize) /\ enabled = FALSE
  /\ at = [p \in Publishers |-> "idle"] /\ event = [p \in Publishers |-> 0]
  /\ todo = [p \in Publishers |-> {}]
  /\ clients = {} /\ locking = {}
  /\ channel = [b \in Browsers |-> <<>>] /\ expected = [b \in Browsers |-> {}]
  /\ events = 0
-----------------------------------------------------------------------------
(* SetEnabled, from the admin endpoint.                                    *)
Toggle ==
  /\ enabled' = ~enabled
  /\ UNCHANGED <<ring, at, event, todo, brokerVars, events>>

(* Push of an entry while collection is on: into the ring, then on to the  *)
(* listener.                                                               *)
PushDebug(p) ==
  /\ at[p] = "idle" /\ enabled /\ events < MaxEvents
  /\ events' = events + 1
  /\ ring' = Push(ring, RingSize, events')
  /\ event' = [event EXCEPT ![p] = events']
  /\ at' = [at EXCEPT ![p] = "listener"]
  /\ UNCHANGED <<enabled, todo, brokerVars>>

(* A mode handler has an alert event for the broker.                       *)
AlertEvent(p) ==
  /\ at[p] = "idle" /\ events < MaxEvents
  /\ events' = events + 1
  /\ event' = [event EXCEPT ![p] = events']
  /\ at' = [at EXCEPT ![p] = "listener"]
  /\ UNCHANGED <<ringVars, todo, brokerVars>>

(* RLock granted to the publishers P while these channels are open: each   *)
(* of them will visit all of them.                                         *)
StartLoops(P, open) ==
  /\ at' = [p \in Publishers |-> IF p \in P THEN "sending" ELSE at[p]]
  /\ todo' = [p \in Publishers |-> IF p \in P THEN open ELSE todo[p]]
  /\ expected' = [b \in Browsers |-> IF b \in open THEN expected[b] \cup {event[p] : p \in P}
                                                   ELSE {}]

(* Publish, PublishRaw: RLock.                                             *)
StartPublish(p) ==
  /\ at[p] = "listener"
  /\ \/ locking = {} /\ StartLoops({p}, clients)
     \/ /\ locking # {} /\ at' = [at EXCEPT ![p] = "waiting"]
        /\ UNCHANGED <<todo, expected>>
  /\ UNCHANGED <<ringVars, event, clients, locking, channel, events>>

\* Faulty variant: the send has no default case.
SendOrWait(p, b) ==
  /\ at[p] = "sending" /\ b \in todo[p]
  /\ Len(channel[b]) < BufferSize
  /\ todo' = [todo EXCEPT ![p] = @ \ {b}]
  /\ channel' = [channel EXCEPT ![b] = Append(@, event[p])]
  /\ UNCHANGED <<ringVars, at, event, clients, locking, expected, events>>

(* One round of the loop: a channel with room gets the event.              *)
Send(p, b) ==
  /\ at[p] = "sending" /\ b \in todo[p]
  /\ todo' = [todo EXCEPT ![p] = @ \ {b}]
  /\ channel' = IF Len(channel[b]) < BufferSize
                  THEN [channel EXCEPT ![b] = Append(@, event[p])] ELSE channel
  /\ UNCHANGED <<ringVars, at, event, clients, locking, expected, events>>

EndPublish(p) ==
  /\ at[p] = "sending" /\ todo[p] = {}
  /\ at' = [at EXCEPT ![p] = "idle"] /\ event' = [event EXCEPT ![p] = 0]
  /\ UNCHANGED <<ringVars, todo, brokerVars, events>>

(* Lock is granted when no loop runs; Unlock lets the waiting readers in.  *)
NoReader == \A p \in Publishers : at[p] # "sending"
Unlock(open) == StartLoops({p \in Publishers : at[p] = "waiting"}, open)
-----------------------------------------------------------------------------
(* ServeHTTP begins: Subscribe asks for the lock.                          *)
Connect(b) ==
  /\ b \notin clients \cup locking
  /\ locking' = locking \cup {b}
  /\ UNCHANGED <<ringVars, at, event, todo, clients, channel, expected, events>>

(* Subscribe makes an empty channel.  At the limit the answer is 503.      *)
Subscribe(b) ==
  /\ b \in locking \ clients /\ NoReader
  /\ clients' = IF Cardinality(clients) < MaxClients THEN clients \cup {b} ELSE clients
  /\ locking' = locking \ {b}
  /\ Unlock(clients')
  /\ UNCHANGED <<ringVars, event, channel, events>>

(* ServeHTTP writes the next event to the browser.                         *)
Deliver(b) ==
  /\ b \in clients \ locking /\ channel[b] # <<>>
  /\ expected' = [expected EXCEPT ![b] = @ \ {Head(channel[b])}]
  /\ channel' = [channel EXCEPT ![b] = Tail(@)]
  /\ UNCHANGED <<ringVars, at, event, todo, clients, locking, events>>

(* The request context ends; the deferred Unsubscribe asks for the lock.   *)
Disconnect(b) ==
  /\ b \in clients \ locking
  /\ locking' = locking \cup {b}
  /\ UNCHANGED <<ringVars, at, event, todo, clients, channel, expected, events>>

\* Faulty variant: the channel is closed without the lock.
UnsubscribeUnlocked(b) ==
  /\ b \in locking \cap clients
  /\ clients' = clients \ {b} /\ locking' = locking \ {b}
  /\ channel' = [channel EXCEPT ![b] = <<>>] /\ expected' = [expected EXCEPT ![b] = {}]
  /\ UNCHANGED <<ringVars, at, event, todo, events>>

\* Faulty variant: the channel is kept for the next connection.
UnsubscribeKeepsChannel(b) ==
  /\ b \in locking \cap clients /\ NoReader
  /\ clients' = clients \ {b} /\ locking' = locking \ {b}
  /\ Unlock(clients')
  /\ UNCHANGED <<ringVars, event, channel, events>>

(* Unsubscribe: remove the channel and close it.                           *)
Unsubscribe(b) ==
  /\ b \in locking \cap clients /\ NoReader
  /\ clients' = clients \ {b} /\ locking' = locking \ {b}
  /\ channel' = [channel EXCEPT ![b] = <<>>]
  /\ Unlock(clients')
  /\ UNCHANGED <<ringVars, event, events>>

PublishStep(p) ==
  StartPublish(p) \/ EndPublish(p) \/ \E b \in Browsers : Send(p, b)

(* What a connection does under the write lock.                            *)
Locked(b) == Subscribe(b) \/ Unsubscribe(b)

StreamNext ==
  \/ Toggle
  \/ \E p \in Publishers : PushDebug(p) \/ AlertEvent(p) \/ PublishStep(p)
  \/ \E b \in Browsers : Connect(b) \/ Deliver(b) \/ Disconnect(b) \/ Locked(b)

StreamSpec == StreamInit /\ [][StreamNext]_streamVars

(* A goroutine that started to publish goes on, and so does one that has   *)
(* the write lock within reach.  No browser has to read.                   *)
StreamFairness ==
  /\ \A p \in Publishers : WF_streamVars(PublishStep(p))
  /\ \A b \in Browsers : WF_streamVars(Locked(b))

FairStreamSpec == StreamSpec /\ StreamFairness
-----------------------------------------------------------------------------
StreamTypeOK ==
  /\ at \in [Publishers -> {"idle", "listener", "waiting", "sending"}]
  /\ event \in [Publishers -> 0..MaxEvents] /\ events \in 0..MaxEvents
  /\ todo \in [Publishers -> SUBSET Browsers]
  /\ clients \subseteq Browsers /\ Cardinality(clients) <= MaxClients
  /\ locking \subseteq Browsers
  /\ \A b \in Browsers : Len(channel[b]) <= BufferSize
  /\ ring.pos \in 0..(RingSize - 1) /\ ring.count \in 0..RingSize

(* No publication sends on a closed channel, which would end the process   *)
(* with a panic: every channel a running loop has still to visit is open.  *)
NoSendOnClosed == \A p \in Publishers : todo[p] \subseteq clients

(* What waits for a browser are distinct events, each published since it   *)
(* subscribed and not yet given to it: none comes twice, none is left over *)
(* from an earlier connection.  The order may differ between browsers.     *)
StreamIsFresh ==
  \A b \in clients : \A i \in DOMAIN channel[b] :
    /\ channel[b][i] \in expected[b]
    /\ \A j \in DOMAIN channel[b] : channel[b][i] = channel[b][j] => i = j

(* A slow or dead browser holds up nobody: every publication ends, though  *)
(* no browser has to read; and whoever asks for the write lock gets it, so *)
(* one that connects is let in or told that there is no room, and one that *)
(* goes away gives its place back.                                         *)
NobodyBlocks ==
  /\ \A p \in Publishers : at[p] = "listener" ~> at[p] = "idle"
  /\ \A b \in Browsers : b \in locking ~> b \notin locking
=============================================================================
