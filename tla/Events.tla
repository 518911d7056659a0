------------------------------- MODULE Events -------------------------------
(***************************************************************************)
(* The event streams of one user (internal/server/events.go) and the end   *)
(* of the server (Shutdown of internal/server/server.go, run of            *)
(* cmd/godrive/main.go).  Each stream is a goroutine with a buffered       *)
(* channel; a mutex guards the set of channels, so what is done under it   *)
(* is one step.  A channel is closed by the stream that ends and by        *)
(* Shutdown.                                                               *)
(***************************************************************************)
EXTENDS Naturals, Sequences, SequencesExt, FiniteSets

CONSTANTS
  Streams,    \* streams that are ever opened
  Buffer,     \* what a channel holds (32 in the code)
  MaxEvents   \* bound on the events

ASSUME EventsAssumption == Buffer \in Nat \ {0} /\ MaxEvents \in Nat

VARIABLES
  eventsSubs,   \* the channels publishEvent sends to
  channel,      \* what is in each channel
  closes,       \* how often each channel has been closed
  stream,       \* where the goroutine of each stream is
  got,          \* what each client has received
  events,       \* how many events there have been
  server,       \* serving, closing (between the two calls of Shutdown),
                \* draining, or stopped
  since,        \* history: the events there were when a stream subscribed
  late,         \* history: the streams that subscribed after Shutdown began
  dropped,      \* history: what did not fit into the channel
  panicked      \* history: an event was sent to a closed channel

history == <<since, late, dropped, panicked>>
eventVars ==
  <<eventsSubs, channel, closes, stream, got, events, server, history>>

EventsInit ==
  /\ eventsSubs = {} /\ events = 0 /\ server = "serving" /\ panicked = FALSE
  /\ stream = [r \in Streams |-> "none"] /\ closes = [r \in Streams |-> 0]
  /\ channel = [r \in Streams |-> <<>>] /\ got = [r \in Streams |-> <<>>]
  /\ since = [r \in Streams |-> 0] /\ late = {} /\ dropped = [r \in Streams |-> {}]

-----------------------------------------------------------------------------
\* GET /api/events is accepted, until the http server closes its listeners; the
\* session is looked up.
Accept(r) ==
  /\ server \in {"serving", "closing"}
  /\ stream[r] = "none" /\ stream' = [stream EXCEPT ![r] = "asked"]
  /\ UNCHANGED <<eventsSubs, channel, closes, got, events, server, history>>

\* subscribeEvents
Subscribe(r) ==
  /\ stream[r] = "asked" /\ stream' = [stream EXCEPT ![r] = "open"]
  /\ eventsSubs' = eventsSubs \cup {r}
  /\ since' = [since EXCEPT ![r] = events]
  /\ late' = IF server = "serving" THEN late ELSE late \cup {r}
  /\ UNCHANGED <<channel, closes, got, events, server, dropped, panicked>>

Fits(r) == Len(channel[r]) < Buffer

\* publishEvent: what does not fit is dropped.
Publish ==
  /\ server # "stopped" /\ events < MaxEvents /\ events' = events + 1
  /\ channel' = [r \in Streams |-> IF r \in eventsSubs /\ Fits(r)
                                     THEN Append(channel[r], events')
                                     ELSE channel[r]]
  /\ dropped' = [r \in Streams |-> IF r \in eventsSubs /\ ~Fits(r)
                                     THEN dropped[r] \cup {events'}
                                     ELSE dropped[r]]
  /\ panicked' = (panicked \/ \E r \in eventsSubs : closes[r] > 0)
  /\ UNCHANGED <<eventsSubs, closes, stream, got, server, since, late>>

\* Mutant: a flush for all that is there, of which one was written.
NoRest(c) == <<>>

Rest(c) == Tail(c)

\* events: the loop of the handler takes an event and writes it.
Deliver(r) ==
  /\ stream[r] = "open" /\ channel[r] # <<>>
  /\ got' = [got EXCEPT ![r] = Append(@, Head(channel[r]))]
  /\ channel' = [channel EXCEPT ![r] = Rest(@)]
  /\ UNCHANGED <<eventsSubs, closes, stream, events, server, history>>

\* The client has gone, or the channel is closed and empty: the loop returns.
Returns(r, gone) ==
  /\ stream[r] = "open"
  /\ gone \/ (closes[r] > 0 /\ channel[r] = <<>>)
  /\ stream' = [stream EXCEPT ![r] = "leaving"]
  /\ UNCHANGED <<eventsSubs, channel, closes, got, events, server, history>>

\* Mutant: the channel stays in the set.
Forgets(r) == eventsSubs

\* delete from the set
WithoutStream(r) == eventsSubs \ {r}

\* unsubscribeEvents, deferred.  Closing a channel twice panics after the
\* mutex has been given back; net/http recovers the handler.
Unsubscribe(r) ==
  /\ stream[r] = "leaving" /\ stream' = [stream EXCEPT ![r] = "ended"]
  /\ eventsSubs' = WithoutStream(r)
  /\ closes' = [closes EXCEPT ![r] = @ + 1]
  /\ UNCHANGED <<channel, got, events, server, history>>

-----------------------------------------------------------------------------
(* SIGTERM *)

\* Mutant: Shutdown leaves the channels to their handlers.
ClosesNone == {}
ClosesAll == eventsSubs

\* closeAllSubscriptions
CloseAllSubscriptions ==
  /\ server = "serving" /\ server' = "closing"
  /\ closes' = [r \in Streams |-> IF r \in ClosesAll THEN closes[r] + 1 ELSE closes[r]]
  /\ eventsSubs' = {}
  /\ UNCHANGED <<channel, stream, got, events, history>>

\* Shutdown of the http server: no more requests.
StopListening ==
  /\ server = "closing" /\ server' = "draining"
  /\ UNCHANGED <<eventsSubs, channel, closes, stream, got, events, history>>

Busy(r) == stream[r] \in {"asked", "open", "leaving"}

\* Shutdown has waited for all handlers.
Drained ==
  /\ server = "draining" /\ (\A r \in Streams : ~Busy(r))
  /\ server' = "stopped"
  /\ UNCHANGED <<eventsSubs, channel, closes, stream, got, events, history>>

\* Its time is over first, and the process ends under the handlers.
CutOff ==
  /\ server = "draining" /\ server' = "stopped"
  /\ stream' = [r \in Streams |-> IF Busy(r) THEN "ended" ELSE stream[r]]
  /\ UNCHANGED <<eventsSubs, channel, closes, got, events, history>>

Stream(r) == Subscribe(r) \/ Deliver(r) \/ Returns(r, FALSE) \/ Unsubscribe(r)

EventsNext ==
  \/ Publish \/ CloseAllSubscriptions \/ StopListening \/ Drained \/ CutOff
  \/ \E r \in Streams : Accept(r) \/ Returns(r, TRUE) \/ Stream(r)

\* Goroutines of streams go on, as does Shutdown.
EventsFairness ==
  /\ WF_eventVars(StopListening) /\ WF_eventVars(Drained)
  /\ \A r \in Streams : WF_eventVars(Stream(r))

EventsSpec == EventsInit /\ [][EventsNext]_eventVars /\ EventsFairness

-----------------------------------------------------------------------------
(* Properties *)

\* No event is ever sent to a closed channel, which would end the process when
\* the watcher publishes it, and a channel is closed a second time only when
\* Shutdown has closed it under its stream.
ChannelsRight ==
  /\ ~panicked
  /\ \A r \in Streams : closes[r] = 2 => server # "serving"

\* A client receives the events since its subscription in their order, each
\* once, and misses only those that found its channel full.
StreamsInOrder ==
  \A r \in Streams :
    LET seen == got[r] \o channel[r] IN
    /\ \A j, k \in 1..Len(seen) : j < k => seen[j] < seen[k]
    /\ stream[r] = "open" /\ r \in eventsSubs =>
         Range(seen) \cup dropped[r] = (since[r] + 1)..events

\* Streams do not hold up the end of the server, but for those that subscribe
\* after Shutdown has closed the others: they get no event any more and end with
\* their clients, or are cut off.
ShutdownDrains ==
  (server = "draining" /\ \A r \in Streams :
      stream[r] # "asked" /\ (r \in late => stream[r] # "open"))
    ~> server = "stopped"
=============================================================================
