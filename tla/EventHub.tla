------------------------------ MODULE EventHub ------------------------------
(***************************************************************************)
(* apps/bridge/src/events.ts and the event stream of a tab in useBridge.ts: *)
(* what happens on the wire is published to the streams there are and       *)
(* replayed to a new one.  The browser opens a stream that broke again; one *)
(* that is refused with 503 it gives up.                                    *)
(***************************************************************************)
EXTENDS Naturals, Sequences, FiniteSets, SequencesExt

CONSTANTS ReplayLimit,    \* REPLAY_LIMIT
          TimelineLimit,  \* TIMELINE_LIMIT of the tab
          MaxEvents,      \* bound: events
          MaxStreams      \* bound: streams the tab opens

ASSUME EventHubAssumption ==
  {ReplayLimit, TimelineLimit, MaxEvents, MaxStreams} \subseteq Nat \ {0}

VARIABLES hubOpen,        \* ~closed
          recent,         \* wire events and notices, by number
          count,          \* events published
          subscribers,    \* streams in the Map
          keepAlive,      \* the timer is set
          stream,         \* per stream: "unused", "live", "ended" by the hub,
                          \* "broken", "over", "refused"
          channel,        \* per stream: written and not handled by the tab
          source,         \* eventSourceRef is set
          status,         \* the tab's status.connected
          timeline,       \* its wireEvents
          breaks,         \* history: streams that broke
          cleared         \* history: the timeline was cleared

hubVars == <<hubOpen, recent, count, subscribers, keepAlive, stream, channel>>
tabVars == <<source, status, timeline, cleared>>
streamVars == <<hubVars, tabVars, breaks>>

Streams == 1 .. MaxStreams
At(place) == {k \in Streams : stream[k] = place}

\* A status carries the state, a wire event or notice its number.
Status(up) == [name |-> "status", up |-> up, seq |-> 0]
Wire(n) == [name |-> "wire", up |-> FALSE, seq |-> n]

HubInit ==
  /\ hubOpen = TRUE /\ recent = <<>> /\ count = 0
  /\ subscribers = {} /\ keepAlive = FALSE
  /\ stream = [k \in Streams |-> "unused"] /\ channel = [k \in Streams |-> <<>>]
  /\ source = FALSE /\ status = FALSE /\ timeline = <<>>
  /\ breaks = 0 /\ cleared = FALSE

\* The newest of a sequence.
LastOf(limit, s) == IF Len(s) > limit THEN SubSeq(s, Len(s) - limit + 1, Len(s)) ELSE s

\* An event is written to each stream; to a broken one it is written in vain.
Sent(event) ==
  channel' = [k \in Streams |-> IF k \in subscribers /\ stream[k] = "live"
                                THEN Append(channel[k], event) ELSE channel[k]]

\* Streams leave the Map; the timer stops with the last.
Dropped(ks) ==
  /\ subscribers' = subscribers \ ks
  /\ keepAlive' = (keepAlive /\ subscribers' # {})

\* publishStatus: sent, and not remembered.
PublishStatus(up) ==
  /\ IF hubOpen THEN Sent(Status(up)) ELSE UNCHANGED channel
  /\ UNCHANGED <<hubOpen, recent, count, subscribers, keepAlive, stream>>

\* publishWire and publishNotice.  A write that throws drops its stream.
Publish ==
  /\ count < MaxEvents /\ hubOpen
  /\ count' = count + 1
  /\ recent' = LastOf(ReplayLimit, Append(recent, count + 1))
  /\ Sent(Wire(count + 1))
  /\ \E throwing \in {{}, subscribers \cap At("broken")} : Dropped(throwing)
  /\ UNCHANGED <<hubOpen, stream>> /\ UNCHANGED tabVars /\ UNCHANGED breaks

\* Mutant of Subscribe: nothing is replayed.
SubscribeAnew(k) ==
  /\ stream' = [stream EXCEPT ![k] = "live"]
  /\ channel' = [channel EXCEPT ![k] = <<>>]
  /\ subscribers' = subscribers \cup {k}
  /\ keepAlive' = TRUE
  /\ UNCHANGED <<hubOpen, recent, count>>

\* subscribe: the replay comes before what is published from now on.
Subscribe(k) ==
  /\ stream' = [stream EXCEPT ![k] = "live"]
  /\ channel' = [channel EXCEPT ![k] = [i \in DOMAIN recent |-> Wire(recent[i])]]
  /\ subscribers' = subscribers \cup {k}
  /\ keepAlive' = TRUE
  /\ UNCHANGED <<hubOpen, recent, count>>

\* The browser has no stream and none was refused.
MayOpen == source /\ At("live") \cup At("ended") \cup At("refused") = {}

\* An EventSource opens, for the first time or again.
Open(k) ==
  /\ MayOpen
  /\ stream[k] = "unused" /\ \A j \in 1 .. k - 1 : stream[j] # "unused"
  /\ IF hubOpen
       THEN Subscribe(k)
       ELSE /\ stream' = [stream EXCEPT ![k] = "refused"]
            /\ UNCHANGED <<hubOpen, recent, count, subscribers, keepAlive, channel>>
  /\ UNCHANGED tabVars /\ UNCHANGED breaks

\* The connection of a stream breaks: what was under way is lost, and the hub
\* hears of it later.
Break(k) ==
  /\ stream[k] = "live"
  /\ stream' = [stream EXCEPT ![k] = "broken"]
  /\ channel' = [channel EXCEPT ![k] = <<>>]
  /\ breaks' = breaks + 1
  /\ UNCHANGED <<hubOpen, recent, count, subscribers, keepAlive>> /\ UNCHANGED tabVars

\* The close event of the response: detach.
Detach(k) ==
  /\ stream[k] = "broken"
  /\ stream' = [stream EXCEPT ![k] = "over"]
  /\ Dropped({k})
  /\ UNCHANGED <<hubOpen, recent, count, channel>> /\ UNCHANGED tabVars /\ UNCHANGED breaks

\* close(): every stream is ended.
CloseHub ==
  /\ hubOpen /\ hubOpen' = FALSE
  /\ keepAlive' = FALSE /\ subscribers' = {}
  /\ stream' = [k \in Streams |-> IF stream[k] = "live" THEN "ended" ELSE stream[k]]
  /\ UNCHANGED <<recent, count, channel>> /\ UNCHANGED tabVars /\ UNCHANGED breaks

-----------------------------------------------------------------------------
(* The tab.                                                                 *)

\* The listeners of the EventSource.
Handle(k) ==
  /\ stream[k] \in {"live", "ended"} /\ channel[k] # <<>>
  /\ LET event == Head(channel[k])
     IN /\ timeline' = IF event.name = "wire"
                         THEN LastOf(TimelineLimit, Append(timeline, event.seq)) ELSE timeline
        /\ status' = IF event.name = "status" THEN event.up ELSE status
  /\ channel' = [channel EXCEPT ![k] = Tail(@)]
  /\ UNCHANGED <<hubOpen, recent, count, subscribers, keepAlive, stream, source, breaks, cleared>>

\* The tab has read an ended stream to its end.
Finish(k) ==
  /\ stream[k] = "ended" /\ channel[k] = <<>>
  /\ stream' = [stream EXCEPT ![k] = "over"]
  /\ UNCHANGED <<hubOpen, recent, count, subscribers, keepAlive, channel, breaks>>
  /\ UNCHANGED tabVars

\* clearTimeline
ClearTimeline ==
  /\ timeline # <<>>
  /\ timeline' = <<>> /\ cleared' = TRUE
  /\ UNCHANGED <<source, status, breaks>> /\ UNCHANGED hubVars

StreamStep ==
  \/ Publish \/ CloseHub \/ ClearTimeline
  \/ \E k \in Streams : Open(k) \/ Break(k) \/ Detach(k) \/ Handle(k) \/ Finish(k)

-----------------------------------------------------------------------------
(* Properties.                                                              *)

\* "Replay is what makes a page reload harmless" (events.ts:69): a tab that has
\* handled what its stream brought shows every recent event, whatever broke
\* before, as its own limit is not the smaller one.
RecentIsShown ==
  (~cleared /\ TimelineLimit >= ReplayLimit)
    => \A k \in At("live") : channel[k] = <<>> => ToSet(recent) \subseteq ToSet(timeline)

\* Events are shown in their order, and once: only a stream that broke makes
\* the timeline start over (publish, subscribe, attachEvents).
ShownInOrder ==
  Cardinality({i \in 1 .. Len(timeline) - 1 : timeline[i] >= timeline[i + 1]}) <= breaks

\* The keep-alive runs as long as there is a stream, also when one breaks as
\* another comes (startKeepAlive, stopKeepAlive).
KeepAliveWhileWatched == keepAlive <=> subscribers # {}
=============================================================================
