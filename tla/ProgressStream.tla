---------------------------- MODULE ProgressStream ----------------------------
(***************************************************************************)
(* The progress events of jobs: appended durably under one transaction,    *)
(* then sent to the bounded live hub, and followed by SSE clients that     *)
(* replay what they missed, follow the hub, and reconnect with the last    *)
(* sequence they saw.  Events of the job queue itself (a failure, recovery *)
(* of a stale job, the repair of a missing terminal event) are appended in *)
(* the queue's transaction and never reach the hub.                        *)
(***************************************************************************)
EXTENDS Naturals, Sequences

CONSTANTS Jobs, Clients,
          JobOf,        \* the job each client follows
          HubCapacity,  \* DEFAULT_PROGRESS_LIVE_CAPACITY
          Limit,        \* REPLAY_PAGE_SIZE
          MaxEvents     \* bound: events of each job

\* What the constants may be.
ProgressConstants ==
    /\ JobOf \in [Clients -> Jobs]
    /\ HubCapacity \in Nat \ {0} /\ Limit \in Nat \ {0} /\ MaxEvents \in [Jobs -> Nat]

VARIABLES events,      \* job_progress_events: the kinds of a job's events by sequence
          publishing,  \* per job, the sequence committed and not sent yet, or 0
          sent,        \* everything sent to the hub, in order
          stream,      \* ProgressStreamState of a client's connection
          lastSeen     \* Last-Event-ID: what a client saw before it connects

progressVars == <<events, publishing, sent, stream, lastSeen>>

Closed == [at |-> "closed", cursor |-> 0, pending |-> <<>>, more |-> FALSE, next |-> 0, candidate |-> 0]

ProgressInit ==
    /\ events = [j \in Jobs |-> <<>>]
    /\ publishing = [j \in Jobs |-> 0]
    /\ sent = <<>>
    /\ stream = [c \in Clients |-> Closed]
    /\ lastSeen = [c \in Clients |-> 0]
-----------------------------------------------------------------------------
(* Appending and publishing *)

\* ensure_stream_open
StreamOpen(j) == events[j] # <<>> => events[j][Len(events[j])] # "terminal"

\* append_in_transaction, allocate_sequence: the next sequence, or nothing.
Appended(j, kind) == [events EXCEPT ![j] = Append(@, kind)]

\* append_and_publish_at: append_at
AppendAndPublish(j, kind) ==
    /\ StreamOpen(j) /\ Len(events[j]) < MaxEvents[j]
    /\ publishing[j] = 0
    /\ events' = Appended(j, kind)
    /\ publishing' = [publishing EXCEPT ![j] = Len(events'[j])]
    /\ UNCHANGED <<sent, stream, lastSeen>>

\* ProgressLiveHub::publish
Publish(j) ==
    /\ publishing[j] # 0
    /\ sent' = Append(sent, [job |-> j, sequence |-> publishing[j]])
    /\ publishing' = [publishing EXCEPT ![j] = 0]
    /\ UNCHANGED <<events, stream, lastSeen>>

\* The handler's future is dropped between the commit and the send.
HandlerDropped(j) ==
    /\ publishing[j] # 0
    /\ publishing' = [publishing EXCEPT ![j] = 0]
    /\ UNCHANGED <<events, sent, stream, lastSeen>>

\* The job queue fails a job or repairs a missing terminal event in its own
\* transaction.
AppendByQueue(j) ==
    /\ StreamOpen(j) /\ Len(events[j]) < MaxEvents[j]
    /\ events' = Appended(j, "terminal")
    /\ UNCHANGED <<publishing, sent, stream, lastSeen>>
-----------------------------------------------------------------------------
(* job_progress_sse, next_progress_item *)

Least(a, b) == IF a < b THEN a ELSE b

\* ProgressRepository::replay: the sequences of one page, and whether there
\* are more.
Page(c, after) == LET all == Len(events[JobOf[c]])
                  IN [i \in 1..Least(Limit, IF all > after THEN all - after ELSE 0) |-> after + i]

More(c, after) == Len(events[JobOf[c]]) > after + Limit

\* subscribe comes first.
Connect(c) ==
    /\ stream[c].at = "closed"
    /\ stream' = [stream EXCEPT ![c] = [Closed EXCEPT !.at = "replay", !.cursor = lastSeen[c],
                                                      !.next = Len(sent) + 1]]
    /\ UNCHANGED <<events, publishing, sent, lastSeen>>

InitialReplay(c) ==
    /\ stream[c].at = "replay"
    /\ stream' = [stream EXCEPT ![c].at = "follow",
                                ![c].pending = Page(c, stream[c].cursor),
                                ![c].more = More(c, stream[c].cursor)]
    /\ UNCHANGED <<events, publishing, sent, lastSeen>>

\* A pending event goes out; the terminal one ends the stream.
Deliver(c) ==
    /\ stream[c].at = "follow" /\ stream[c].pending # <<>>
    /\ LET n == Head(stream[c].pending)
           popped == [stream[c] EXCEPT !.pending = Tail(@)]
       IN IF n <= stream[c].cursor
          THEN stream' = [stream EXCEPT ![c] = popped] /\ UNCHANGED lastSeen
          ELSE /\ lastSeen' \in {[lastSeen EXCEPT ![c] = n], lastSeen}   \* it may not arrive
               /\ stream' = [stream EXCEPT ![c] =
                               [popped EXCEPT !.cursor = n,
                                              !.at = IF n \in DOMAIN events[JobOf[c]] /\ events[JobOf[c]][n] = "terminal"
                                                     THEN "done" ELSE "follow"]]
    /\ UNCHANGED <<events, publishing, sent>>

\* refill_from_durable, whose page begins after the cursor, so that its filter
\* keeps all of it; live_candidate is used only if nothing came of it.
Refilled(c) ==
    LET pending == stream[c].pending \o Page(c, stream[c].cursor)
    IN [stream[c] EXCEPT
          !.at = "follow", !.candidate = 0, !.more = More(c, stream[c].cursor),
          !.pending = IF pending = <<>> /\ stream[c].candidate > stream[c].cursor
                      THEN <<stream[c].candidate>> ELSE pending]

Refill(c) ==
    /\ \/ stream[c].at = "follow" /\ stream[c].pending = <<>> /\ stream[c].more
       \/ stream[c].at = "refill"
    /\ stream' = [stream EXCEPT ![c] = Refilled(c)]
    /\ UNCHANGED <<events, publishing, sent, lastSeen>>

\* tokio::sync::broadcast: a receiver that is more than the capacity behind
\* has lost the oldest.
Lagged(c) == Len(sent) + 1 - stream[c].next > HubCapacity

\* Mutant: Whatever comes is the next event.
TakenAsNext(c, n) == [stream[c] EXCEPT !.next = @ + 1, !.pending = Append(@, n)]

\* The next of the job is pending, an earlier one or another job's is
\* skipped, a later one shows that some are missing.
Taken(c, n) ==
    IF n = stream[c].cursor + 1
    THEN [stream[c] EXCEPT !.next = @ + 1, !.pending = Append(@, n)]
    ELSE [stream[c] EXCEPT !.next = @ + 1, !.at = "refill", !.candidate = n]

\* Mutant: What was lost is not looked for.
ReceiveOn(c) ==
    /\ stream[c].at = "follow" /\ stream[c].pending = <<>> /\ ~stream[c].more
    /\ stream[c].next <= Len(sent)
    /\ LET live == sent[stream[c].next]
       IN stream' = [stream EXCEPT ![c] =
             IF Lagged(c) THEN [@ EXCEPT !.next = Len(sent) + 1 - HubCapacity]
             ELSE IF live.job # JobOf[c] \/ live.sequence <= stream[c].cursor
             THEN [@ EXCEPT !.next = stream[c].next + 1]
             ELSE Taken(c, live.sequence)]
    /\ UNCHANGED <<events, publishing, sent, lastSeen>>

Receive(c) ==
    /\ stream[c].at = "follow" /\ stream[c].pending = <<>> /\ ~stream[c].more
    /\ stream[c].next <= Len(sent)
    /\ LET live == sent[stream[c].next]
       IN stream' = [stream EXCEPT ![c] =
             IF Lagged(c) THEN [@ EXCEPT !.next = Len(sent) + 1 - HubCapacity, !.at = "refill"]
             ELSE IF live.job # JobOf[c] \/ live.sequence <= stream[c].cursor
             THEN [@ EXCEPT !.next = stream[c].next + 1]
             ELSE Taken(c, live.sequence)]
    /\ UNCHANGED <<events, publishing, sent, lastSeen>>

\* The client goes away, the terminal event has ended the stream, or the
\* database cannot be read.
Disconnect(c) ==
    /\ stream[c].at # "closed"
    /\ stream' = [stream EXCEPT ![c] = Closed]
    /\ UNCHANGED <<events, publishing, sent, lastSeen>>
-----------------------------------------------------------------------------
StreamStep(c) == InitialReplay(c) \/ Deliver(c) \/ Refill(c) \/ Receive(c)

ProgressNext ==
    \/ \E j \in Jobs : \/ \E kind \in {"progress", "terminal"} : AppendAndPublish(j, kind)
                       \/ Publish(j) \/ HandlerDropped(j) \/ AppendByQueue(j)
    \/ \E c \in Clients : Connect(c) \/ StreamStep(c) \/ Disconnect(c)

ProgressSpec == ProgressInit /\ [][ProgressNext]_progressVars

\* A connection that is polled makes progress, as does a publisher.
ProgressFairSpec ==
    /\ ProgressSpec
    /\ \A c \in Clients : WF_progressVars(StreamStep(c))
    /\ \A j \in Jobs : WF_progressVars(Publish(j))
-----------------------------------------------------------------------------
(* Properties *)

\* A client sees every event after its Last-Event-ID once and in order,
\* however replay, the hub, lost and repeated sends interleave
\* (next_progress_item).
OnceStep ==
    \A c \in Clients :
       stream[c].at # "closed" /\ stream'[c].at # "closed"
          => stream'[c].cursor \in {stream[c].cursor, stream[c].cursor + 1}

EveryEventOnce == [][OnceStep]_progressVars

Sent(j, n) == \E i \in DOMAIN sent : sent[i] = [job |-> j, sequence |-> n]

\* What was sent to the hub reaches every client that stays connected, even
\* if the hub dropped it.
SentIsShown ==
    \A c \in Clients : \A n \in 1..MaxEvents[JobOf[c]] :
       Sent(JobOf[c], n) /\ stream[c].at = "follow"
          ~> stream[c].cursor >= n \/ stream[c].at = "closed"

\* What was durable before the replay reaches the client, however many pages
\* it takes and whatever is sent meanwhile.
CommittedIsShown ==
    \A c \in Clients : \A n \in 1..MaxEvents[JobOf[c]] :
       Len(events[JobOf[c]]) >= n /\ stream[c].at = "replay"
          ~> stream[c].cursor >= n \/ stream[c].at = "closed"

===============================================================================
