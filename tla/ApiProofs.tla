------------------------------- MODULE ApiProofs -------------------------------
(***************************************************************************)
(* What the API promises its clients: EveryEventOnce of the progress       *)
(* stream, and SubmissionsAgree and ClassificationIsSound of the           *)
(* submissions, for any clients, URLs, jobs, batches, answers and sizes.   *)
(***************************************************************************)
EXTENDS Submission, ProgressStream, FiniteSetTheorems, SequenceTheorems, TLAPS
-----------------------------------------------------------------------------
(* PROGRESS STREAM.  What a stream has pending is a run of consecutive      *)
(* sequences that starts at its cursor or before it, whichever of replay,   *)
(* refill and hub it came from, and all that was ever sent is durable: so   *)
(* the next one shown is the next one there is, and a live candidate is     *)
(* never needed.                                                            *)

\* The n sequences after k.
Run(k, n) == [i \in 1..n |-> k + i]

Connection ==
    [at : {"closed", "replay", "follow", "refill", "done"}, cursor : Nat,
     pending : Seq(Nat), more : BOOLEAN, next : Nat, candidate : Nat]

\* A connection while its job has `known` events.
Pending(conn, known) ==
    \E k \in Nat : \E n \in Nat :
       /\ conn.pending = Run(k, n)
       /\ k <= conn.cursor
       /\ k + n <= known

Sound(conn, known) ==
    /\ conn \in Connection
    /\ conn.cursor <= known
    /\ conn.candidate <= known
    /\ conn.at # "closed" => conn.next >= 1
    /\ conn.at \in {"closed", "replay", "refill"} => conn.pending = <<>>
    /\ Pending(conn, known)

Durable(c) == Len(events[JobOf[c]])

Typed ==
    /\ events \in [Jobs -> Seq({"progress", "terminal"})]
    /\ publishing \in [Jobs -> Nat]
    /\ sent \in Seq([job : Jobs, sequence : Nat])
    /\ stream \in [Clients -> Connection]
    /\ lastSeen \in [Clients -> Nat]

\* What is about to be sent, what was sent and what a client has seen is durable.
SentIsDurable ==
    /\ \A j \in Jobs : publishing[j] <= Len(events[j])
    /\ \A i \in 1..Len(sent) : sent[i].sequence <= Len(events[sent[i].job])
    /\ \A c \in Clients : lastSeen[c] <= Durable(c)

\* The inductive invariant.
ProgressInv ==
    /\ Typed
    /\ SentIsDurable
    /\ \A c \in Clients : Sound(stream[c], Durable(c))
-----------------------------------------------------------------------------
\* What a run of sequences is made of.
LEMMA RunFacts ==
  ASSUME NEW k \in Nat, NEW n \in Nat
  PROVE  /\ Run(k, n) \in Seq(Nat)
         /\ Len(Run(k, n)) = n
         /\ n = 0 <=> Run(k, n) = <<>>
         /\ n # 0 => Head(Run(k, n)) = k + 1
BY DEF Run

LEMMA RunTail ==
  ASSUME NEW k \in Nat, NEW n \in Nat, n # 0, NEW m \in Nat, n = m + 1
  PROVE  Tail(Run(k, n)) = Run(k + 1, m)
<1>1. Run(k, n) \in Seq(Nat) /\ Len(Run(k, n)) = n /\ Run(k, n) # <<>>
  BY RunFacts
<1>2. Tail(Run(k, n)) = [i \in 1..m |-> Run(k, n)[i + 1]]
  <2>1. Tail(Run(k, n)) \in Seq(Nat) /\ Len(Tail(Run(k, n))) = m
    BY <1>1
  <2>2. \A i \in 1..m : Tail(Run(k, n))[i] = Run(k, n)[i + 1]
    BY <1>1, <2>1
  <2> QED BY <2>1, <2>2
<1>3. \A i \in 1..m : Run(k, n)[i + 1] = (k + 1) + i
  BY DEF Run
<1> QED BY <1>2, <1>3 DEF Run

LEMMA OneRun ==
  ASSUME NEW k \in Nat
  PROVE  <<k + 1>> = Run(k, 1)
BY DEF Run

\* A sound connection stays sound when events are appended.
LEMMA SoundGrows ==
  ASSUME NEW conn, NEW d \in Nat, NEW e \in Nat, d <= e, Sound(conn, d)
  PROVE  Sound(conn, e)
<1>1. PICK k \in Nat : \E n \in Nat : conn.pending = Run(k, n) /\ k <= conn.cursor /\ k + n <= d
  BY DEF Sound, Pending
<1>2. PICK n \in Nat : conn.pending = Run(k, n) /\ k <= conn.cursor /\ k + n <= d
  BY <1>1
<1>3. Pending(conn, e)
  BY <1>2 DEF Pending
<1>4. conn.cursor <= e /\ conn.candidate <= e
  BY DEF Sound, Connection
<1> QED BY <1>3, <1>4 DEF Sound

-----------------------------------------------------------------------------
\* A page of a replay is the run after its cursor, as far as it is durable,
\* and is empty only if nothing is left.
LEMMA PageIsRun ==
  ASSUME ProgressConstants, Typed, NEW c \in Clients, NEW after \in Nat, after <= Durable(c)
  PROVE  \E n \in Nat : /\ Page(c, after) = Run(after, n)
                        /\ after + n <= Durable(c)
                        /\ n = 0 => Durable(c) <= after
<1>1. JobOf[c] \in Jobs /\ Limit \in Nat \ {0}
  BY DEF ProgressConstants
<1>2. PICK all \in Nat : all = Len(events[JobOf[c]])
  BY <1>1 DEF Typed
<1>3. PICK left \in Nat : left = IF all > after THEN all - after ELSE 0
  <2>1. CASE all > after
    <3>1. all - after \in Nat
      BY <2>1
    <3> QED BY <2>1, <3>1
  <2>2. CASE ~(all > after)
    BY <2>2
  <2> QED BY <2>1, <2>2
<1>4. PICK n \in Nat : n = Least(Limit, left)
  BY <1>1 DEF Least
<1>5. Page(c, after) = Run(after, n)
  BY <1>2, <1>3, <1>4 DEF Page, Run
<1>6. after + n <= all /\ (n = 0 => all <= after)
  BY <1>1, <1>2, <1>3, <1>4 DEF Least, Durable
<1> QED BY <1>2, <1>5, <1>6 DEF Durable

\* A step of one connection that leaves the others and the events alone.
LEMMA OneConnection ==
  ASSUME ProgressConstants, ProgressInv, NEW c \in Clients, NEW conn,
         stream' = [stream EXCEPT ![c] = conn], Sound(conn, Durable(c)),
         UNCHANGED <<events, publishing, sent>>,
         lastSeen' \in [Clients -> Nat], \A b \in Clients : lastSeen'[b] <= Durable(b)
  PROVE  ProgressInv'
<1>1. conn \in Connection
  BY DEF Sound
<1>2. Typed'
  BY <1>1 DEF ProgressInv, Typed
<1>3. SentIsDurable'
  BY DEF ProgressInv, SentIsDurable, Durable
<1>4. ASSUME NEW b \in Clients PROVE Sound(stream'[b], Durable(b)')
  <2>1. stream'[b] = IF b = c THEN conn ELSE stream[b]
    BY DEF ProgressInv, Typed
  <2>2. Durable(b)' = Durable(b)
    BY DEF Durable
  <2>3. Sound(stream[b], Durable(b))
    BY DEF ProgressInv
  <2>4. Sound(stream'[b], Durable(b))
    BY <2>1, <2>3
  <2> QED BY <2>2, <2>4
<1> QED BY <1>2, <1>3, <1>4 DEF ProgressInv

\* A step that appends an event keeps every connection sound.
LEMMA OneMore ==
  ASSUME ProgressConstants, ProgressInv, NEW j \in Jobs,
         NEW kind \in {"progress", "terminal"}, events' = Appended(j, kind),
         UNCHANGED <<sent, stream, lastSeen>>,
         publishing' \in {publishing, [publishing EXCEPT ![j] = Len(events'[j])]}
  PROVE  ProgressInv'
<1>1. events \in [Jobs -> Seq({"progress", "terminal"})] /\ publishing \in [Jobs -> Nat]
  BY DEF ProgressInv, Typed
<1>2. events' \in [Jobs -> Seq({"progress", "terminal"})]
  BY <1>1 DEF Appended
<1>3. ASSUME NEW i \in Jobs PROVE Len(events'[i]) \in Nat /\ Len(events[i]) \in Nat /\ Len(events[i]) <= Len(events'[i])
  <2>1. CASE i = j
    <3>1. events'[i] = Append(events[i], kind)
      BY <1>1, <2>1 DEF Appended
    <3> QED BY <1>1, <1>2, <3>1
  <2>2. CASE i # j
    <3>1. events'[i] = events[i]
      BY <1>1, <2>2 DEF Appended
    <3> QED BY <1>1, <1>2, <3>1
  <2> QED BY <2>1, <2>2
<1>4. publishing' \in [Jobs -> Nat]
  BY <1>1, <1>3
<1>5. Typed'
  BY <1>2, <1>4 DEF ProgressInv, Typed
<1>6. SentIsDurable'
  <2>1. ASSUME NEW i \in Jobs PROVE publishing'[i] <= Len(events'[i])
    <3>1. publishing[i] <= Len(events[i]) /\ publishing[i] \in Nat
      BY <1>1 DEF ProgressInv, SentIsDurable
    <3>2. publishing'[i] \in {publishing[i], Len(events'[i])}
      BY <1>1
    <3>3. PICK n \in Nat : n = Len(events[i])
      BY <1>3
    <3>4. PICK m \in Nat : m = Len(events'[i])
      BY <1>3
    <3>5. n <= m
      BY <1>3, <3>3, <3>4
    <3>6. PICK p \in Nat : p = publishing[i]
      BY <3>1
    <3>7. p <= n /\ publishing'[i] \in {p, m}
      BY <3>1, <3>2, <3>3, <3>4, <3>6
    <3>8. publishing'[i] <= m
      BY <3>5, <3>7
    <3> QED BY <3>4, <3>8
  <2>2. ASSUME NEW i \in 1..Len(sent) PROVE sent[i].sequence <= Len(events'[sent[i].job])
    <3>1. sent[i].job \in Jobs /\ sent[i].sequence \in Nat
      <4>1. sent \in Seq([job : Jobs, sequence : Nat])
        BY DEF ProgressInv, Typed
      <4>2. sent[i] \in [job : Jobs, sequence : Nat]
        BY <4>1, ElementOfSeq
      <4> QED BY <4>2
    <3>2. sent[i].sequence <= Len(events[sent[i].job])
      BY DEF ProgressInv, SentIsDurable
    <3> QED BY <1>3, <3>1, <3>2
  <2>3. ASSUME NEW c \in Clients PROVE lastSeen[c] <= Len(events'[JobOf[c]])
    <3>1. JobOf[c] \in Jobs /\ lastSeen[c] \in Nat
      BY DEF ProgressInv, Typed, ProgressConstants
    <3>2. lastSeen[c] <= Len(events[JobOf[c]])
      BY DEF ProgressInv, SentIsDurable, Durable
    <3> QED BY <1>3, <3>1, <3>2
  <2> QED BY <2>1, <2>2, <2>3 DEF SentIsDurable, Durable
<1>7. ASSUME NEW c \in Clients PROVE Sound(stream'[c], Durable(c)')
  <2>1. JobOf[c] \in Jobs
    BY DEF ProgressConstants
  <2>2. PICK d \in Nat : d = Len(events[JobOf[c]])
    BY <1>3, <2>1
  <2>3. PICK e \in Nat : e = Len(events'[JobOf[c]])
    BY <1>3, <2>1
  <2>4. d <= e
    BY <1>3, <2>1, <2>2, <2>3
  <2>5. Sound(stream[c], d)
    BY <2>2 DEF ProgressInv, Durable
  <2>6. Sound(stream[c], e)
    BY <2>4, <2>5, SoundGrows
  <2>7. stream'[c] = stream[c] /\ Durable(c)' = e
    BY <2>3 DEF Durable
  <2> QED BY <2>6, <2>7
<1> QED BY <1>5, <1>6, <1>7 DEF ProgressInv

-----------------------------------------------------------------------------
(* The streams *)

\* What is known of one connection.
LEMMA Known ==
  ASSUME ProgressConstants, ProgressInv, NEW c \in Clients
  PROVE  /\ JobOf[c] \in Jobs
         /\ events[JobOf[c]] \in Seq({"progress", "terminal"})
         /\ Durable(c) \in Nat
         /\ stream[c] \in Connection
         /\ Sound(stream[c], Durable(c))
         /\ lastSeen[c] \in Nat /\ lastSeen[c] <= Durable(c)
<1>1. JobOf[c] \in Jobs
  BY DEF ProgressConstants
<1>2. events[JobOf[c]] \in Seq({"progress", "terminal"})
  BY <1>1 DEF ProgressInv, Typed
<1>3. Durable(c) \in Nat
  BY <1>2 DEF Durable
<1> QED BY <1>1, <1>2, <1>3 DEF ProgressInv, Typed, SentIsDurable

LEMMA Unseen ==
  ASSUME ProgressInv, UNCHANGED lastSeen
  PROVE  lastSeen' \in [Clients -> Nat] /\ \A b \in Clients : lastSeen'[b] <= Durable(b)
BY DEF ProgressInv, Typed, SentIsDurable

\* A connection with nothing pending.
LEMMA Idle ==
  ASSUME NEW conn, NEW d \in Nat, conn \in Connection, conn.pending = <<>>, conn.cursor <= d,
         conn.candidate <= d, conn.at # "closed" => conn.next >= 1
  PROVE  Sound(conn, d)
<1>1. conn.pending = Run(0, 0)
  BY DEF Run
<1>2. Pending(conn, d)
  BY <1>1 DEF Pending, Connection
<1> QED BY <1>2 DEF Sound

\* A connection that follows the hub with a run pending.
LEMMA Following ==
  ASSUME NEW conn, NEW d \in Nat, conn \in Connection, conn.at \in {"follow", "done"}, conn.cursor <= d,
         conn.candidate <= d, conn.next >= 1,
         NEW k \in Nat, NEW n \in Nat, conn.pending = Run(k, n), k <= conn.cursor, k + n <= d
  PROVE  Sound(conn, d)
<1>1. Pending(conn, d)
  BY DEF Pending
<1> QED BY <1>1 DEF Sound

LEMMA ConnectStep ==
  ASSUME ProgressConstants, ProgressInv, NEW c \in Clients, Connect(c)
  PROVE  ProgressInv'
<1>1. PICK h \in Nat : h = Len(sent)
  BY DEF ProgressInv, Typed
<1>2. PICK conn : conn = [Closed EXCEPT !.at = "replay", !.cursor = lastSeen[c], !.next = h + 1]
  OBVIOUS
<1>3. stream' = [stream EXCEPT ![c] = conn]
  BY <1>1, <1>2 DEF Connect
<1>4. Durable(c) \in Nat /\ lastSeen[c] \in Nat /\ lastSeen[c] <= Durable(c)
  BY Known
<1>5. /\ conn.at = "replay" /\ conn.cursor = lastSeen[c] /\ conn.pending = <<>>
      /\ conn.next = h + 1 /\ conn.candidate = 0
  BY <1>2 DEF Closed
<1>6. conn \in Connection
  <2>1. conn = [at |-> "replay", cursor |-> lastSeen[c], pending |-> <<>>, more |-> FALSE,
             next |-> h + 1, candidate |-> 0]
    BY <1>2 DEF Closed
  <2>2. h + 1 \in Nat /\ <<>> \in Seq(Nat)
    BY <1>1
  <2> QED BY <1>4, <2>1, <2>2 DEF Connection
<1>7. Sound(conn, Durable(c))
  BY <1>1, <1>4, <1>5, <1>6, Idle
<1>8. UNCHANGED <<events, publishing, sent, lastSeen>>
  BY DEF Connect
<1> QED BY <1>3, <1>7, <1>8, Unseen, OneConnection

LEMMA DisconnectStep ==
  ASSUME ProgressConstants, ProgressInv, NEW c \in Clients, Disconnect(c)
  PROVE  ProgressInv'
<1>1. Closed \in Connection
  BY DEF Closed, Connection
<1>2. Durable(c) \in Nat
  BY Known
<1>3. Closed.at = "closed" /\ Closed.cursor = 0 /\ Closed.pending = <<>> /\ Closed.candidate = 0
  BY DEF Closed
<1>4. Sound(Closed, Durable(c))
  BY <1>1, <1>2, <1>3, Idle
<1>5. stream' = [stream EXCEPT ![c] = Closed] /\ UNCHANGED <<events, publishing, sent, lastSeen>>
  BY DEF Disconnect
<1> QED BY <1>4, <1>5, Unseen, OneConnection

LEMMA InitialReplayStep ==
  ASSUME ProgressConstants, ProgressInv, NEW c \in Clients, InitialReplay(c)
  PROVE  ProgressInv'
<1>1. /\ Durable(c) \in Nat /\ stream[c] \in Connection /\ Sound(stream[c], Durable(c))
  BY Known
<1>2. stream[c].at = "replay" /\ stream[c].cursor \in Nat /\ stream[c].cursor <= Durable(c)
  BY <1>1 DEF InitialReplay, Sound, Connection
<1>3. PICK n \in Nat : /\ Page(c, stream[c].cursor) = Run(stream[c].cursor, n)
                       /\ stream[c].cursor + n <= Durable(c)
  BY <1>2, PageIsRun DEF ProgressInv
<1>4. PICK conn : conn = [stream[c] EXCEPT !.at = "follow", !.pending = Page(c, stream[c].cursor),
                                     !.more = More(c, stream[c].cursor)]
  OBVIOUS
<1>5. stream' = [stream EXCEPT ![c] = conn]
  BY <1>4 DEF InitialReplay, ProgressInv, Typed
<1>6. /\ conn.at = "follow" /\ conn.cursor = stream[c].cursor /\ conn.pending = Run(stream[c].cursor, n)
      /\ conn.next = stream[c].next /\ conn.candidate = stream[c].candidate
  BY <1>1, <1>3, <1>4 DEF Connection
<1>7. conn \in Connection
  <2>1. More(c, stream[c].cursor) \in BOOLEAN
    BY DEF More
  <2>2. Page(c, stream[c].cursor) \in Seq(Nat)
    BY <1>2, <1>3, RunFacts
  <2> QED BY <1>1, <1>4, <2>1, <2>2 DEF Connection
<1>8. Sound(conn, Durable(c))
  <2>1. conn.next >= 1 /\ conn.candidate <= Durable(c)
    BY <1>1, <1>2, <1>6 DEF Sound
  <2> QED BY <1>1, <1>2, <1>3, <1>6, <1>7, <2>1, Following
<1>9. UNCHANGED <<events, publishing, sent, lastSeen>>
  BY DEF InitialReplay
<1> QED BY <1>5, <1>8, <1>9, Unseen, OneConnection

LEMMA DeliverStep ==
  ASSUME ProgressConstants, ProgressInv, NEW c \in Clients, Deliver(c)
  PROVE  ProgressInv' /\ stream'[c].cursor \in {stream[c].cursor, stream[c].cursor + 1}
<1>1. /\ Durable(c) \in Nat /\ stream[c] \in Connection /\ Sound(stream[c], Durable(c))
      /\ lastSeen[c] \in Nat /\ lastSeen[c] <= Durable(c)
  BY Known
<1>2. stream[c].at = "follow" /\ stream[c].cursor \in Nat /\ stream[c].cursor <= Durable(c)
  BY <1>1 DEF Deliver, Sound, Connection
<1>3. PICK k \in Nat : \E n \in Nat : /\ stream[c].pending = Run(k, n)
                                      /\ k <= stream[c].cursor
                                      /\ k + n <= Durable(c)
  BY <1>1 DEF Sound, Pending
<1>4. PICK n \in Nat : /\ stream[c].pending = Run(k, n)
                       /\ k <= stream[c].cursor
                       /\ k + n <= Durable(c)
  BY <1>3
<1>5. n # 0
  BY <1>4, RunFacts DEF Deliver
<1>6. PICK m \in Nat : n = m + 1
  <2>1. n - 1 \in Nat /\ n = (n - 1) + 1
    BY <1>5
  <2> QED BY <2>1
<1>7. Head(stream[c].pending) = k + 1 /\ Tail(stream[c].pending) = Run(k + 1, m)
  BY <1>4, <1>5, <1>6, RunFacts, RunTail
<1>8. PICK popped : popped = [stream[c] EXCEPT !.pending = Run(k + 1, m)]
  OBVIOUS
<1>9. /\ popped.at = "follow" /\ popped.cursor = stream[c].cursor
      /\ popped.pending = Run(k + 1, m)
      /\ popped.next = stream[c].next /\ popped.candidate = stream[c].candidate
  BY <1>1, <1>2, <1>8 DEF Connection
<1>10. k + 1 \in Nat /\ (k + 1) + m <= Durable(c) /\ k + 1 <= Durable(c)
  BY <1>1, <1>4, <1>6
<1>11. popped \in Connection
  BY <1>1, <1>8, <1>10, RunFacts DEF Connection
<1>12. stream[c].next >= 1 /\ stream[c].candidate <= Durable(c)
  BY <1>1, <1>2 DEF Sound
<1>13. UNCHANGED <<events, publishing, sent>>
  BY DEF Deliver
<1>14. stream \in [Clients -> Connection] /\ lastSeen \in [Clients -> Nat]
  BY DEF ProgressInv, Typed
<1>15. CASE k + 1 <= stream[c].cursor
  <2>1. stream' = [stream EXCEPT ![c] = popped] /\ UNCHANGED lastSeen
    BY <1>7, <1>8, <1>14, <1>15 DEF Deliver
  <2>2. Sound(popped, Durable(c))
    BY <1>1, <1>2, <1>9, <1>10, <1>11, <1>12, <1>15, Following
  <2>3. ProgressInv'
    BY <1>13, <2>1, <2>2, Unseen, OneConnection
  <2>4. stream'[c] = popped
    BY <1>14, <2>1
  <2> QED BY <1>9, <2>3, <2>4
<1>16. CASE ~(k + 1 <= stream[c].cursor)
  <2>1. k = stream[c].cursor
    BY <1>2, <1>4, <1>16
  <2>2. PICK at \in {"follow", "done"} :
          stream' = [stream EXCEPT ![c] = [popped EXCEPT !.cursor = k + 1, !.at = at]]
    BY <1>7, <1>8, <1>14, <1>16 DEF Deliver
  <2>3. lastSeen' \in {[lastSeen EXCEPT ![c] = k + 1], lastSeen}
    BY <1>7, <1>8, <1>14, <1>16 DEF Deliver
  <2>4. PICK conn : conn = [popped EXCEPT !.cursor = k + 1, !.at = at]
    OBVIOUS
  <2>5. /\ conn.at = at /\ conn.cursor = k + 1 /\ conn.pending = Run(k + 1, m)
        /\ conn.next = stream[c].next /\ conn.candidate = stream[c].candidate
    BY <1>9, <1>11, <2>4 DEF Connection
  <2>6. conn \in Connection
    BY <1>10, <1>11, <2>4 DEF Connection
  <2>7. Sound(conn, Durable(c))
    BY <1>1, <1>10, <1>12, <2>5, <2>6, Following
  <2>8. lastSeen' \in [Clients -> Nat]
    BY <1>10, <1>14, <2>3
  <2>9. ASSUME NEW b \in Clients PROVE lastSeen'[b] <= Durable(b)
    <3>1. lastSeen[b] <= Durable(b)
      BY Known
    <3>2. CASE lastSeen' = lastSeen
      BY <3>1, <3>2
    <3>3. CASE lastSeen' = [lastSeen EXCEPT ![c] = k + 1]
      <4>1. CASE b = c
        BY <1>10, <1>14, <3>3, <4>1
      <4>2. CASE b # c
        BY <1>14, <3>1, <3>3, <4>2
      <4> QED BY <4>1, <4>2
    <3> QED BY <2>3, <3>2, <3>3
  <2>10. ProgressInv'
    BY <1>13, <2>2, <2>4, <2>7, <2>8, <2>9, OneConnection
  <2>11. stream'[c] = conn
    BY <1>14, <2>2, <2>4
  <2> QED BY <2>1, <2>5, <2>10, <2>11
<1> QED BY <1>15, <1>16

LEMMA RefillStep ==
  ASSUME ProgressConstants, ProgressInv, NEW c \in Clients, Refill(c)
  PROVE  ProgressInv' /\ stream'[c].cursor = stream[c].cursor
<1>1. /\ Durable(c) \in Nat /\ stream[c] \in Connection /\ Sound(stream[c], Durable(c))
  BY Known
<1>2. /\ stream[c].at \in {"follow", "refill"} /\ stream[c].pending = <<>>
      /\ stream[c].cursor \in Nat /\ stream[c].cursor <= Durable(c)
      /\ stream[c].candidate \in Nat /\ stream[c].candidate <= Durable(c)
      /\ stream[c].next >= 1
  BY <1>1 DEF Refill, Sound, Connection
<1>3. PICK n \in Nat : /\ Page(c, stream[c].cursor) = Run(stream[c].cursor, n)
                       /\ stream[c].cursor + n <= Durable(c)
                       /\ n = 0 => Durable(c) <= stream[c].cursor
  BY <1>2, PageIsRun DEF ProgressInv
<1>4. Run(stream[c].cursor, n) \in Seq(Nat) /\ (n = 0 <=> Run(stream[c].cursor, n) = <<>>)
  BY <1>2, <1>3, RunFacts
<1>5. stream[c].pending \o Page(c, stream[c].cursor) = Run(stream[c].cursor, n)
  <2>1. <<>> \o Run(stream[c].cursor, n) = Run(stream[c].cursor, n)
    BY <1>4
  <2> QED BY <1>2, <1>3, <2>1
\* The page is empty only if the cursor is at the last event, and so is the
\* candidate.
<1>6. ~(Run(stream[c].cursor, n) = <<>> /\ stream[c].candidate > stream[c].cursor)
  <2>1. SUFFICES ASSUME n = 0 PROVE ~(stream[c].candidate > stream[c].cursor)
    BY <1>4
  <2>2. Durable(c) <= stream[c].cursor
    BY <1>3, <2>1
  <2> QED BY <1>1, <1>2, <2>2
<1>7. PICK conn : conn = [stream[c] EXCEPT !.at = "follow", !.candidate = 0,
                       !.more = More(c, stream[c].cursor), !.pending = Run(stream[c].cursor, n)]
  OBVIOUS
<1>8. Refilled(c) = conn
  BY <1>5, <1>6, <1>7 DEF Refilled
<1>9. /\ conn.at = "follow" /\ conn.cursor = stream[c].cursor /\ conn.pending = Run(stream[c].cursor, n)
      /\ conn.next = stream[c].next /\ conn.candidate = 0
  BY <1>1, <1>7 DEF Connection
<1>10. conn \in Connection
  <2>1. More(c, stream[c].cursor) \in BOOLEAN
    BY DEF More
  <2> QED BY <1>1, <1>4, <1>7, <2>1 DEF Connection
<1>11. Sound(conn, Durable(c))
  BY <1>1, <1>2, <1>3, <1>9, <1>10, Following
<1>12. stream' = [stream EXCEPT ![c] = conn] /\ UNCHANGED <<events, publishing, sent, lastSeen>>
  BY <1>8 DEF Refill
<1>13. ProgressInv'
  BY <1>11, <1>12, Unseen, OneConnection
<1>14. stream'[c] = conn
  BY <1>12 DEF ProgressInv, Typed
<1> QED BY <1>9, <1>13, <1>14

LEMMA ReceiveStep ==
  ASSUME ProgressConstants, ProgressInv, NEW c \in Clients, Receive(c)
  PROVE  ProgressInv' /\ stream'[c].cursor = stream[c].cursor
<1>1. /\ Durable(c) \in Nat /\ stream[c] \in Connection /\ Sound(stream[c], Durable(c))
      /\ JobOf[c] \in Jobs
  BY Known
<1>2. /\ stream[c].at = "follow" /\ stream[c].pending = <<>>
      /\ stream[c].cursor \in Nat /\ stream[c].cursor <= Durable(c)
      /\ stream[c].candidate \in Nat /\ stream[c].candidate <= Durable(c)
      /\ stream[c].next \in Nat /\ stream[c].next >= 1 /\ stream[c].next <= Len(sent)
  BY <1>1 DEF Receive, Sound, Connection
<1>3. stream \in [Clients -> Connection] /\ sent \in Seq([job : Jobs, sequence : Nat])
  BY DEF ProgressInv, Typed
<1>4. PICK h \in Nat : h = Len(sent)
  BY <1>3
<1>5. stream[c].next \in 1..h
  BY <1>2, <1>4
<1>6. PICK live : live = sent[stream[c].next]
  OBVIOUS
<1>7. live \in [job : Jobs, sequence : Nat]
  BY <1>3, <1>4, <1>5, <1>6, ElementOfSeq
<1>8. live.sequence \in Nat /\ live.sequence <= Len(events[live.job])
  BY <1>4, <1>5, <1>6, <1>7 DEF ProgressInv, SentIsDurable
<1>9. HubCapacity \in Nat
  BY DEF ProgressConstants
<1>10. UNCHANGED <<events, publishing, sent, lastSeen>>
  BY DEF Receive
\* In each case the record the connection becomes.
<1>11. SUFFICES \E conn : /\ stream' = [stream EXCEPT ![c] = conn]
                       /\ Sound(conn, Durable(c))
                       /\ conn.cursor = stream[c].cursor
  <2>1. PICK conn : /\ stream' = [stream EXCEPT ![c] = conn]
                 /\ Sound(conn, Durable(c))
                 /\ conn.cursor = stream[c].cursor
    BY <1>11
  <2>2. ProgressInv'
    BY <1>10, <2>1, Unseen, OneConnection
  <2>3. stream'[c] = conn
    BY <1>3, <2>1
  <2> QED BY <2>1, <2>2, <2>3
<1>12. CASE Lagged(c)
  <2>1. PICK conn : conn = [stream[c] EXCEPT !.next = Len(sent) + 1 - HubCapacity, !.at = "refill"]
    OBVIOUS
  <2>2. stream' = [stream EXCEPT ![c] = conn]
    BY <1>3, <1>12, <2>1 DEF Receive
  <2>3. h + 1 - stream[c].next > HubCapacity
    BY <1>4, <1>12 DEF Lagged
  <2>4. h + 1 - HubCapacity \in Nat /\ h + 1 - HubCapacity >= 1
    BY <1>2, <1>9, <2>3
  <2>5. /\ conn.at = "refill" /\ conn.cursor = stream[c].cursor /\ conn.pending = <<>>
        /\ conn.candidate = stream[c].candidate /\ conn.next >= 1
    BY <1>1, <1>2, <1>4, <2>1, <2>4 DEF Connection
  <2>6. conn \in Connection
    BY <1>1, <1>4, <2>1, <2>4 DEF Connection
  <2>7. Sound(conn, Durable(c))
    BY <1>1, <1>2, <2>5, <2>6, Idle
  <2> QED BY <2>2, <2>5, <2>7
<1>13. stream[c].next + 1 \in Nat /\ stream[c].next + 1 >= 1
  BY <1>2
<1>14. CASE ~Lagged(c) /\ (live.job # JobOf[c] \/ live.sequence <= stream[c].cursor)
  <2>1. PICK conn : conn = [stream[c] EXCEPT !.next = stream[c].next + 1]
    OBVIOUS
  <2>2. stream' = [stream EXCEPT ![c] = conn]
    BY <1>3, <1>6, <1>14, <2>1 DEF Receive
  <2>3. /\ conn.at = "follow" /\ conn.cursor = stream[c].cursor /\ conn.pending = <<>>
        /\ conn.candidate = stream[c].candidate /\ conn.next >= 1
    BY <1>1, <1>2, <1>13, <2>1 DEF Connection
  <2>4. conn \in Connection
    BY <1>1, <1>13, <2>1 DEF Connection
  <2>5. Sound(conn, Durable(c))
    BY <1>1, <1>2, <2>3, <2>4, Idle
  <2> QED BY <2>2, <2>3, <2>5
<1>15. CASE ~Lagged(c) /\ ~(live.job # JobOf[c] \/ live.sequence <= stream[c].cursor)
  <2>1. stream' = [stream EXCEPT ![c] = Taken(c, live.sequence)]
    BY <1>6, <1>15 DEF Receive
  <2>2. live.sequence <= Durable(c)
    BY <1>8, <1>15 DEF Durable
  <2>3. CASE live.sequence = stream[c].cursor + 1
    <3>1. PICK conn : conn = [stream[c] EXCEPT !.next = @ + 1, !.pending = Run(stream[c].cursor, 1)]
      OBVIOUS
    <3>2. Append(<<>>, live.sequence) = Run(stream[c].cursor, 1)
      <4>1. Append(<<>>, live.sequence) = <<live.sequence>>
        BY <1>8
      <4> QED BY <1>2, <2>3, <4>1, OneRun
    <3>3. Taken(c, live.sequence) = conn
      BY <1>1, <1>2, <2>3, <3>1, <3>2 DEF Taken, Connection
    <3>4. /\ conn.at = "follow" /\ conn.cursor = stream[c].cursor /\ conn.pending = Run(stream[c].cursor, 1)
          /\ conn.candidate = stream[c].candidate /\ conn.next >= 1
      BY <1>1, <1>2, <1>13, <3>1 DEF Connection
    <3>5. conn \in Connection
      <4>1. Run(stream[c].cursor, 1) \in Seq(Nat)
        BY <1>2, RunFacts
      <4> QED BY <1>1, <1>13, <3>1, <4>1 DEF Connection
    <3>6. Sound(conn, Durable(c))
      BY <1>1, <1>2, <2>2, <2>3, <3>4, <3>5, Following
    <3> QED BY <2>1, <3>3, <3>4, <3>6
  <2>4. CASE live.sequence # stream[c].cursor + 1
    <3>1. PICK conn : conn = [stream[c] EXCEPT !.next = @ + 1, !.at = "refill", !.candidate = live.sequence]
      OBVIOUS
    <3>2. Taken(c, live.sequence) = conn
      BY <2>4, <3>1 DEF Taken
    <3>3. /\ conn.at = "refill" /\ conn.cursor = stream[c].cursor /\ conn.pending = <<>>
          /\ conn.candidate = live.sequence /\ conn.next >= 1
      BY <1>1, <1>2, <1>13, <3>1 DEF Connection
    <3>4. conn \in Connection
      BY <1>1, <1>8, <1>13, <3>1 DEF Connection
    <3>5. Sound(conn, Durable(c))
      BY <1>1, <1>2, <2>2, <3>3, <3>4, Idle
    <3> QED BY <2>1, <3>2, <3>3, <3>5
  <2> QED BY <2>3, <2>4
<1> QED BY <1>12, <1>14, <1>15
-----------------------------------------------------------------------------
(* The publishers *)

LEMMA PublishStep ==
  ASSUME ProgressConstants, ProgressInv, NEW j \in Jobs, Publish(j)
  PROVE  ProgressInv'
<1>1. sent \in Seq([job : Jobs, sequence : Nat]) /\ publishing \in [Jobs -> Nat]
  BY DEF ProgressInv, Typed
<1>2. PICK e \in [job : Jobs, sequence : Nat] : e = [job |-> j, sequence |-> publishing[j]]
  BY <1>1
<1>3. e.job = j /\ e.sequence = publishing[j] /\ sent' = Append(sent, e)
  BY <1>2 DEF Publish
<1>4. sent' \in Seq([job : Jobs, sequence : Nat]) /\ publishing' \in [Jobs -> Nat]
  BY <1>1, <1>2, <1>3 DEF Publish
<1>5. UNCHANGED <<events, stream, lastSeen>>
  BY DEF Publish
<1>6. Typed'
  BY <1>4, <1>5 DEF ProgressInv, Typed
<1>7. SentIsDurable'
  <2>1. ASSUME NEW i \in Jobs PROVE publishing'[i] <= Len(events'[i])
    <3>1. publishing[i] <= Len(events[i]) /\ events[i] \in Seq({"progress", "terminal"})
      BY DEF ProgressInv, SentIsDurable, Typed
    <3>2. PICK n \in Nat : n = Len(events[i])
      BY <3>1
    <3>3. publishing'[i] \in {publishing[i], 0}
      BY <1>1 DEF Publish
    <3> QED BY <1>5, <3>1, <3>2, <3>3
  <2>2. ASSUME NEW i \in 1..Len(sent') PROVE sent'[i].sequence <= Len(events'[sent'[i].job])
    <3>1. PICK n \in Nat : n = Len(sent)
      BY <1>1
    <3>2. Len(sent') = n + 1 /\ i \in 1..n + 1
      BY <1>1, <1>2, <1>3, <3>1
    <3>3. CASE i = n + 1
      <4>1. sent'[i] = e
        BY <1>1, <1>2, <1>3, <3>1, <3>3
      <4> QED BY <1>3, <1>5, <4>1 DEF ProgressInv, SentIsDurable
    <3>4. CASE i # n + 1
      <4>1. i \in 1..n
        BY <3>2, <3>4
      <4>2. sent'[i] = sent[i]
        BY <1>1, <1>2, <1>3, <3>1, <4>1
      <4> QED BY <1>5, <3>1, <4>1, <4>2 DEF ProgressInv, SentIsDurable
    <3> QED BY <3>3, <3>4
  <2>3. ASSUME NEW c \in Clients PROVE lastSeen'[c] <= Durable(c)'
    BY <1>5 DEF ProgressInv, SentIsDurable, Durable
  <2> QED BY <2>1, <2>2, <2>3 DEF SentIsDurable
<1>8. \A c \in Clients : Sound(stream'[c], Durable(c)')
  BY <1>5 DEF ProgressInv, Durable
<1> QED BY <1>6, <1>7, <1>8 DEF ProgressInv

LEMMA DroppedStep ==
  ASSUME ProgressConstants, ProgressInv, NEW j \in Jobs, HandlerDropped(j)
  PROVE  ProgressInv'
<1>1. publishing \in [Jobs -> Nat] /\ publishing' = [publishing EXCEPT ![j] = 0]
      /\ UNCHANGED <<events, sent, stream, lastSeen>>
  BY DEF ProgressInv, Typed, HandlerDropped
<1>2. Typed'
  BY <1>1 DEF ProgressInv, Typed
<1>3. SentIsDurable'
  <2>1. ASSUME NEW i \in Jobs PROVE publishing'[i] <= Len(events'[i])
    <3>1. publishing[i] <= Len(events[i]) /\ events[i] \in Seq({"progress", "terminal"})
      BY DEF ProgressInv, SentIsDurable, Typed
    <3>2. PICK n \in Nat : n = Len(events[i])
      BY <3>1
    <3>3. publishing'[i] \in {publishing[i], 0}
      BY <1>1
    <3> QED BY <1>1, <3>1, <3>2, <3>3
  <2> QED BY <1>1, <2>1 DEF ProgressInv, SentIsDurable, Durable
<1>4. \A c \in Clients : Sound(stream'[c], Durable(c)')
  BY <1>1 DEF ProgressInv, Durable
<1> QED BY <1>2, <1>3, <1>4 DEF ProgressInv

LEMMA AppendStep ==
  ASSUME ProgressConstants, ProgressInv, NEW j \in Jobs,
         AppendByQueue(j) \/ \E kind \in {"progress", "terminal"} : AppendAndPublish(j, kind)
  PROVE  ProgressInv'
<1>1. CASE AppendByQueue(j)
  BY <1>1, OneMore DEF AppendByQueue
<1>2. ASSUME NEW kind \in {"progress", "terminal"}, AppendAndPublish(j, kind) PROVE ProgressInv'
  BY <1>2, OneMore DEF AppendAndPublish
<1> QED BY <1>1, <1>2

-----------------------------------------------------------------------------
LEMMA ProgressStart == ProgressConstants /\ ProgressInit => ProgressInv
<1> SUFFICES ASSUME ProgressConstants, ProgressInit PROVE ProgressInv
  OBVIOUS
<1>1. \A j \in Jobs : events[j] = <<>> /\ publishing[j] = 0
  BY DEF ProgressInit
<1>2. sent = <<>> /\ lastSeen = [c \in Clients |-> 0] /\ stream = [c \in Clients |-> Closed]
  BY DEF ProgressInit
<1>3. Closed \in Connection
  BY DEF Closed, Connection
<1>4. Typed
  <2>1. events \in [Jobs -> Seq({"progress", "terminal"})]
    BY DEF ProgressInit
  <2>2. publishing \in [Jobs -> Nat]
    BY DEF ProgressInit
  <2> QED BY <1>2, <1>3, <2>1, <2>2 DEF Typed
<1>5. \A c \in Clients : JobOf[c] \in Jobs /\ Durable(c) = 0
  BY <1>1 DEF ProgressConstants, Durable
<1>6. SentIsDurable
  BY <1>1, <1>2, <1>5 DEF SentIsDurable
<1>7. Sound(Closed, 0)
  <2>1. Closed.at = "closed" /\ Closed.cursor = 0 /\ Closed.pending = <<>> /\ Closed.candidate = 0
    BY DEF Closed
  <2> QED BY <1>3, <2>1, Idle
<1> QED BY <1>2, <1>4, <1>5, <1>6, <1>7 DEF ProgressInv

\* Every step keeps the invariant, and moves the cursor of an open connection
\* by one event at most.
LEMMA ProgressStep ==
  ASSUME ProgressConstants, ProgressInv, [ProgressNext]_progressVars
  PROVE  ProgressInv' /\ OnceStep
<1>1. stream \in [Clients -> Connection]
  BY DEF ProgressInv, Typed
<1>2. ASSUME UNCHANGED stream PROVE OnceStep
  BY <1>1, <1>2 DEF OnceStep
<1>3. ASSUME NEW j \in Jobs,
             \/ \E kind \in {"progress", "terminal"} : AppendAndPublish(j, kind)
             \/ Publish(j) \/ HandlerDropped(j) \/ AppendByQueue(j)
      PROVE  ProgressInv' /\ OnceStep
  <2>1. UNCHANGED stream
    BY <1>3 DEF AppendAndPublish, Publish, HandlerDropped, AppendByQueue
  <2>2. ProgressInv'
    BY <1>3, AppendStep, PublishStep, DroppedStep
  <2> QED BY <1>2, <2>1, <2>2
<1>4. ASSUME NEW c \in Clients, Connect(c) \/ StreamStep(c) \/ Disconnect(c)
      PROVE  ProgressInv' /\ OnceStep
  <2>1. \A b \in Clients : b # c => stream'[b] = stream[b]
    BY <1>1, <1>4 DEF Connect, StreamStep, Disconnect, InitialReplay, Deliver, Refill, Receive
  <2>2. SUFFICES /\ ProgressInv'
                 /\ stream[c].at # "closed" /\ stream'[c].at # "closed"
                       => stream'[c].cursor \in {stream[c].cursor, stream[c].cursor + 1}
    BY <2>1, <2>2 DEF OnceStep
  <2>3. CASE Connect(c)
    <3>1. stream[c].at = "closed"
      BY <2>3 DEF Connect
    <3> QED BY <2>3, <3>1, ConnectStep
  <2>4. CASE Disconnect(c)
    <3>1. stream'[c].at = "closed"
      BY <1>1, <2>4 DEF Disconnect, Closed
    <3> QED BY <2>4, <3>1, DisconnectStep
  <2>5. CASE InitialReplay(c)
    <3>1. stream'[c].cursor = stream[c].cursor
      BY <1>1, <2>5 DEF InitialReplay, Connection
    <3> QED BY <2>5, <3>1, InitialReplayStep
  <2>6. CASE Deliver(c)
    BY <2>6, DeliverStep
  <2>7. CASE Refill(c)
    BY <2>7, RefillStep
  <2>8. CASE Receive(c)
    BY <2>8, ReceiveStep
  <2> QED BY <1>4, <2>3, <2>4, <2>5, <2>6, <2>7, <2>8 DEF StreamStep
<1>5. CASE UNCHANGED progressVars
  <2>1. UNCHANGED <<events, publishing, sent, stream, lastSeen>>
    BY <1>5 DEF progressVars
  <2>2. ProgressInv'
    BY <2>1 DEF ProgressInv, Typed, SentIsDurable, Durable
  <2> QED BY <1>2, <2>1, <2>2
<1> QED BY <1>3, <1>4, <1>5 DEF ProgressNext

\* A client sees every event after its Last-Event-ID once and in order, for
\* any jobs and clients, however replay, refill and hub interleave, whatever
\* the hub drops and whatever is sent late (next_progress_item).
THEOREM EventsOnce ==
  ASSUME ProgressConstants
  PROVE  ProgressSpec => EveryEventOnce
<1>1. ProgressInit => ProgressInv
  BY ProgressStart
<1>2. ProgressInv /\ [ProgressNext]_progressVars => ProgressInv'
  BY ProgressStep
<1>3. ProgressInv /\ [ProgressNext]_progressVars => [OnceStep]_progressVars
  BY ProgressStep
<1> QED BY <1>1, <1>2, <1>3, PTL DEF ProgressSpec, EveryEventOnce

\* Nothing is shown, or acknowledged by a client, that is not durable: the
\* hub never runs ahead of the database (append_and_publish_at).
ShownIsDurable ==
    \A c \in Clients : stream[c].cursor <= Durable(c) /\ lastSeen[c] <= Durable(c)

\* A client is shown durable events only, whatever comes first of the commit,
\* the send and the replay (append_and_publish_at, job_progress_sse).
THEOREM EventsAreDurable ==
  ASSUME ProgressConstants
  PROVE  ProgressSpec => []ShownIsDurable
<1>1. ProgressInit => ProgressInv
  BY ProgressStart
<1>2. ProgressInv /\ [ProgressNext]_progressVars => ProgressInv'
  BY ProgressStep
<1>3. ProgressInv => ShownIsDurable
  BY DEF ProgressInv, SentIsDurable, Sound, ShownIsDurable
<1> QED BY <1>1, <1>2, <1>3, PTL DEF ProgressSpec
-----------------------------------------------------------------------------
(* SUBMISSIONS.  At each stage a request has one outcome for each item it   *)
(* is past, a checked target and a Source of its item that is in the table; *)
(* its accepted outcomes are the runs it made.                              *)

\* The stages of an item, and those in which it has its Source.
Sourced == {"head", "get", "mark", "run"}
Checked == Sourced \cup {"source"}
Active == Checked \cup {"item", "resolve"}

Targets == {Canonical[u] : u \in Url} \cup {"none"}
SourceType == {"WEB_PAGE", "FILE_ASSET"}
SourceRecord == [id : Nat, original : Url \cup {"none"}, canonical : Targets, type : SourceType]
Decision == [file : BOOLEAN, kind : FileKind \cup {"none"},
             evidence : {"none", "type", "signature", "type and signature"}]
Seen == [media : MediaType, prefix : Prefix]
OutRecord == [status : {"ACCEPTED", "VALIDATION", "SYSTEM", "NOT_PROCESSED"},
              cause : {"none", "target", "database"}]
Request ==
    [pc : Active \cup {"idle", "refused", "done", "gone"}, endpoint : {"single", "batch"},
     items : Seq(Url), at : Nat \ {0}, target : SUBSET Address, source : SourceRecord,
     decision : Decision, seen : Seen, outs : Seq(OutRecord)]

\* An item of a batch was left untried exactly when one before it failed.
Stops(outs) ==
    \A j \in DOMAIN outs :
       outs[j].status = "NOT_PROCESSED" <=> \E i \in 1..(j - 1) : outs[i].status = "SYSTEM"

\* What the decision of a file rests on.
Evidence(q) ==
    q.decision.file =>
        LET m == q.seen.media
            p == q.seen.prefix
            says == {MediaTypeKind(m), SignatureKind(p, m)} \ {"none"}
        IN  /\ "html" \notin {m, p}
            /\ q.decision.kind \in says
            /\ Cardinality(says) = 1 \/ says = {"ARCHIVE", "OFFICE"}

\* What a request has in memory at each stage: one outcome for each item it
\* is past, addresses that were checked, and the type its run will freeze.
Progress(q) ==
    /\ q.at \in 1..Len(q.items)
    /\ Len(q.outs) = q.at - 1
    /\ \A i \in DOMAIN q.outs : q.outs[i].status \in {"ACCEPTED", "VALIDATION"}

Local(q) ==
    /\ q \in Request
    /\ q.pc \in Active => Progress(q)
    /\ q.pc \in {"idle", "refused"} => q.outs = <<>>
    /\ q.pc = "done" => Len(q.outs) = Len(q.items)
    /\ q.pc \in Checked => q.target # {} /\ q.target \subseteq PublicAddress
    /\ q.pc = "run" /\ q.decision.file => q.source.type = "FILE_ASSET"
    /\ Stops(q.outs)
    /\ Evidence(q)

\* The Source a request works for is in the table, for the URL of its item.
Linked(q) ==
    q.pc \in Sourced =>
        \E s \in sources : s.id = q.source.id /\ s.canonical = Canonical[q.items[q.at]]

Made(c) == {run.by[2] : run \in {x \in runs : x.by[1] = c}}
Accepted(outs) == {i \in DOMAIN outs : outs[i].status = "ACCEPTED"}
Reported(c) == r[c].pc # "gone" => Made(c) = Accepted(r[c].outs)

SourcesOK ==
    /\ IsFiniteSet(sources)
    /\ sources \subseteq SourceRecord
    /\ OneSourcePerUrl

RunsOK ==
    /\ roots = {run.by : run \in runs}
    /\ RunMatchesSource
    /\ FileIsNotCrawled

\* The inductive invariant.
SubmissionInv ==
    /\ r \in [Client -> Request]
    /\ \A c \in Client : Local(r[c])
    /\ \A c \in Client : Linked(r[c])
    /\ \A c \in Client : Reported(c)
    /\ SourcesOK
    /\ RunsOK
-----------------------------------------------------------------------------
(* What a step of one request does to the others                            *)

\* Every Source stays, but perhaps for its type.
SourcesStay == \A s \in sources : \E t \in sources' : t.id = s.id /\ t.canonical = s.canonical

\* A step that makes no run.
LEMMA NoRun ==
  ASSUME SubmissionInv, NEW c \in Client, NEW q, r' = [r EXCEPT ![c] = q],
         Local(q), Linked(q)', 
         q.pc # "gone" => r[c].pc # "gone" /\ Accepted(q.outs) = Accepted(r[c].outs),
         SourcesStay, SourcesOK', UNCHANGED <<runs, roots>>
  PROVE  SubmissionInv'
<1>1. q \in Request
  BY DEF Local
<1>2. r' \in [Client -> Request]
  BY <1>1 DEF SubmissionInv
<1>3. \A b \in Client : r'[b] = IF b = c THEN q ELSE r[b]
  BY DEF SubmissionInv
<1>4. \A b \in Client : Local(r'[b])
  BY <1>3 DEF SubmissionInv
<1>5. ASSUME NEW b \in Client PROVE Linked(r[b])'
  <2>1. CASE b = c
    <3>1. r'[b] = q
      BY <1>3, <2>1
    <3> QED BY <3>1 DEF Linked
  <2>2. CASE b # c
    <3>1. r'[b] = r[b]
      BY <1>3, <2>2
    <3>2. Linked(r[b])
      BY DEF SubmissionInv
    <3>3. ASSUME r[b].pc \in Sourced
          PROVE  \E s \in sources' : s.id = r[b].source.id /\ s.canonical = Canonical[r[b].items[r[b].at]]
      BY <3>2, <3>3 DEF Linked, SourcesStay
    <3> QED BY <3>1, <3>3 DEF Linked
  <2> QED BY <2>1, <2>2
<1>6. ASSUME NEW b \in Client PROVE Reported(b)'
  <2>1. Made(b)' = Made(b)
    BY DEF Made
  <2>2. Reported(b)
    BY DEF SubmissionInv
  <2> QED BY <1>3, <2>1, <2>2 DEF Reported
<1>7. RunsOK'
  <2>1. ASSUME NEW run \in runs
        PROVE  \E s \in sources' : s.id = run.source /\ s.canonical = run.target
    <3>1. PICK s \in sources : s.id = run.source /\ s.canonical = run.target
      BY DEF SubmissionInv, RunsOK, RunMatchesSource
    <3> QED BY <3>1 DEF SourcesStay
  <2> QED BY <2>1 DEF SubmissionInv, RunsOK, FileIsNotCrawled, RunMatchesSource
<1> QED BY <1>2, <1>4, <1>5, <1>6, <1>7 DEF SubmissionInv

\* A step that makes the run of the current item, with its root job.
LEMMA OneRunMore ==
  ASSUME SubmissionInv, NEW c \in Client, NEW q, r' = [r EXCEPT ![c] = q],
         r[c].pc = "run", StoreRun(c), Local(q), q.pc \notin Sourced,
         q.pc # "gone" => Accepted(q.outs) = Accepted(r[c].outs) \cup {r[c].at}
  PROVE  SubmissionInv'
<1>1. q \in Request
  BY DEF Local
<1>2. r' \in [Client -> Request]
  BY <1>1 DEF SubmissionInv
<1>3. \A b \in Client : r'[b] = IF b = c THEN q ELSE r[b]
  BY DEF SubmissionInv
<1>4. \A b \in Client : Local(r'[b])
  BY <1>3 DEF SubmissionInv
<1>5. sources' = sources /\ runs' = runs \cup {Snapshot(c)} /\ roots' = roots \cup {This(c)}
  BY DEF StoreRun
<1>6. ASSUME NEW b \in Client PROVE Linked(r[b])'
  <2>1. Linked(r[b])
    BY DEF SubmissionInv
  <2> QED BY <1>3, <1>5, <2>1 DEF Linked
<1>7. PICK run : run = Snapshot(c)
  OBVIOUS
<1>8. /\ run.by = This(c) /\ run.source = r[c].source.id
      /\ run.target = Canonical[r[c].items[r[c].at]]
      /\ run.type = r[c].source.type /\ run.file = r[c].decision.file
  BY <1>7 DEF Snapshot, Item
<1>9. run.by[1] = c /\ run.by[2] = r[c].at
  BY <1>8 DEF This
<1>10. ASSUME NEW b \in Client PROVE Reported(b)'
  <2>1. Reported(b)
    BY DEF SubmissionInv
  <2>2. CASE b = c
    <3>1. Made(c)' = Made(c) \cup {r[c].at}
      BY <1>5, <1>7, <1>9 DEF Made
    <3>2. Made(c) = Accepted(r[c].outs)
      BY <2>1, <2>2 DEF Reported
    <3> QED BY <1>3, <2>2, <3>1, <3>2 DEF Reported
  <2>3. CASE b # c
    <3>1. Made(b)' = Made(b)
      BY <1>5, <1>7, <1>9, <2>3 DEF Made
    <3> QED BY <1>3, <2>1, <2>3, <3>1 DEF Reported
  <2> QED BY <2>2, <2>3
<1>11. RunsOK'
  <2>1. roots' = {x.by : x \in runs'}
    BY <1>5, <1>7, <1>8 DEF SubmissionInv, RunsOK
  <2>2. ASSUME NEW x \in runs'
        PROVE  \E s \in sources' : s.id = x.source /\ s.canonical = x.target
    <3>1. CASE x \in runs
      BY <1>5, <3>1 DEF SubmissionInv, RunsOK, RunMatchesSource
    <3>2. CASE x = run
      <4>1. Linked(r[c])
        BY DEF SubmissionInv
      <4> QED BY <1>5, <1>8, <3>2, <4>1 DEF Linked, Sourced
    <3> QED BY <1>5, <1>7, <3>1, <3>2
  <2>3. ASSUME NEW x \in runs', x.file PROVE x.type = "FILE_ASSET"
    <3>1. CASE x \in runs
      BY <2>3, <3>1 DEF SubmissionInv, RunsOK, FileIsNotCrawled
    <3>2. CASE x = run
      <4>1. Local(r[c])
        BY DEF SubmissionInv
      <4> QED BY <1>8, <2>3, <3>2, <4>1 DEF Local
    <3> QED BY <1>5, <1>7, <3>1, <3>2
  <2> QED BY <2>1, <2>2, <2>3 DEF RunsOK, RunMatchesSource, FileIsNotCrawled
<1>12. SourcesOK'
  BY <1>5 DEF SubmissionInv, SourcesOK, OneSourcePerUrl
<1> QED BY <1>2, <1>4, <1>6, <1>10, <1>11, <1>12 DEF SubmissionInv
-----------------------------------------------------------------------------
(* Outcomes                                                                 *)

LEMMA FreshFacts ==
  /\ Fresh \in Request
  /\ Fresh.outs = <<>> /\ Fresh.decision.file = FALSE /\ Fresh.pc = "idle"
<1>1. NoSource \in SourceRecord
  BY DEF NoSource, SourceRecord, Targets, SourceType
<1>2. Web \in Decision /\ Web.file = FALSE
  BY DEF Web, Decision, FileKind
<1>3. [media |-> "none", prefix |-> "none"] \in Seen
  BY DEF Seen, MediaType, Prefix
<1>4. PICK s : s = NoSource
  OBVIOUS
<1>5. PICK d : d = Web
  OBVIOUS
<1>6. PICK m : m = [media |-> "none", prefix |-> "none"]
  OBVIOUS
<1>7. Fresh = [pc |-> "idle", endpoint |-> "batch", items |-> <<>>, at |-> 1,
               target |-> {}, source |-> s, decision |-> d, seen |-> m, outs |-> <<>>]
  BY <1>4, <1>5, <1>6 DEF Fresh
<1> QED BY <1>1, <1>2, <1>3, <1>4, <1>5, <1>6, <1>7 DEF Request

LEMMA StopsWithoutFailure ==
  ASSUME NEW outs \in Seq(OutRecord),
         \A i \in DOMAIN outs : outs[i].status \in {"ACCEPTED", "VALIDATION"}
  PROVE  Stops(outs)
<1>1. PICK n \in Nat : n = Len(outs) /\ DOMAIN outs = 1..n
  OBVIOUS
<1>2. ASSUME NEW j \in 1..n, NEW i \in 1..(j - 1) PROVE outs[i].status # "SYSTEM"
  <2>1. i \in 1..n
    OBVIOUS
  <2> QED BY <1>1, <2>1
<1>3. ASSUME NEW j \in 1..n PROVE outs[j].status # "NOT_PROCESSED"
  BY <1>1
<1> QED BY <1>1, <1>2, <1>3 DEF Stops

\* The request with one outcome more, at the next item or done.
LEMMA OutcomeStep ==
  ASSUME SubmissionInv, NEW c \in Client, r[c].pc \in Active, NEW o \in OutRecord,
         o.status \in {"ACCEPTED", "VALIDATION"}, Outcome(c, o)
  PROVE  \E q : /\ r' = [r EXCEPT ![c] = q]
                /\ Local(q)
                /\ q.pc \in {"item", "done"}
                /\ Accepted(q.outs) = Accepted(r[c].outs)
                                        \cup (IF o.status = "ACCEPTED" THEN {r[c].at} ELSE {})
<1>1. r[c] \in Request /\ Progress(r[c])
  BY DEF SubmissionInv, Local
<1>2. PICK n \in Nat : n = Len(r[c].items)
  BY <1>1 DEF Request
<1>3. PICK a \in 1..n : a = r[c].at
  BY <1>1, <1>2 DEF Progress
<1>4. r[c].outs \in Seq(OutRecord) /\ Len(r[c].outs) = a - 1
  BY <1>1, <1>3 DEF Request, Progress
<1>5. PICK outs : outs = Append(r[c].outs, o)
  OBVIOUS
<1>6. outs \in Seq(OutRecord) /\ Len(outs) = a
  BY <1>3, <1>4, <1>5
<1>7. \A i \in 1..a : outs[i] = IF i = a THEN o ELSE r[c].outs[i]
  BY <1>3, <1>4, <1>5
<1>8. DOMAIN outs = 1..a /\ DOMAIN r[c].outs = 1..(a - 1)
  BY <1>4, <1>6
<1>9. \A i \in 1..a : outs[i].status \in {"ACCEPTED", "VALIDATION"}
  <2>1. \A i \in 1..(a - 1) : r[c].outs[i].status \in {"ACCEPTED", "VALIDATION"}
    BY <1>1, <1>8 DEF Progress
  <2>2. ASSUME NEW i \in 1..a PROVE outs[i].status \in {"ACCEPTED", "VALIDATION"}
    <3>1. CASE i = a
      BY <1>7, <3>1
    <3>2. CASE i # a
      <4>1. i \in 1..(a - 1)
        BY <1>3, <3>2
      <4> QED BY <1>7, <2>1, <3>2, <4>1
    <3> QED BY <3>1, <3>2
  <2> QED BY <2>2
<1>10. Stops(outs)
  BY <1>6, <1>8, <1>9, StopsWithoutFailure
<1>11. Accepted(outs) = Accepted(r[c].outs) \cup (IF o.status = "ACCEPTED" THEN {a} ELSE {})
  BY <1>7, <1>8 DEF Accepted
<1>12. PICK q : q = [Fresh EXCEPT !.endpoint = r[c].endpoint, !.items = r[c].items,
                        !.outs = outs, !.at = a + 1, !.pc = IF a = n THEN "done" ELSE "item"]
  OBVIOUS
<1>13. r' = [r EXCEPT ![c] = q]
  BY <1>2, <1>3, <1>5, <1>12 DEF Outcome, Become
<1>14. q \in Request
  <2>1. a + 1 \in Nat \ {0}
    BY <1>3
  <2>2. PICK pc : pc = IF a = n THEN "done" ELSE "item"
    OBVIOUS
  <2>3. pc \in Active \cup {"idle", "refused", "done", "gone"}
    BY <2>2 DEF Active
  <2>4. q = [Fresh EXCEPT !.endpoint = r[c].endpoint, !.items = r[c].items,
                          !.outs = outs, !.at = a + 1, !.pc = pc]
    BY <1>12, <2>2
  <2> QED BY <1>1, <1>6, <2>1, <2>3, <2>4, FreshFacts DEF Request
<1>15. /\ q.pc = (IF a = n THEN "done" ELSE "item") /\ q.items = r[c].items /\ q.outs = outs
       /\ q.at = a + 1 /\ q.decision.file = FALSE
  BY <1>12, FreshFacts DEF Request
<1>16. Local(q)
  <2>1. q.pc \in Active => Progress(q)
    BY <1>2, <1>6, <1>8, <1>9, <1>15 DEF Progress, Active, Checked, Sourced
  <2>2. q.pc = "done" => Len(q.outs) = Len(q.items)
    BY <1>2, <1>6, <1>15
  <2> QED BY <1>10, <1>14, <1>15, <2>1, <2>2 DEF Local, Checked, Sourced, Evidence
<1> QED BY <1>3, <1>11, <1>13, <1>15, <1>16

-----------------------------------------------------------------------------
(* The Sources                                                              *)

\* Nothing is written.
LEMMA NothingStored ==
  ASSUME SubmissionInv, UNCHANGED durable
  PROVE  SourcesStay /\ SourcesOK' /\ UNCHANGED <<runs, roots>>
BY DEF SubmissionInv, SourcesStay, SourcesOK, OneSourcePerUrl, durable

\* A Source is found by its URL, or made for it.
LEMMA SourceStored ==
  ASSUME SubmissionAssumption, SubmissionInv, NEW c \in Client, r[c].pc \in Active, StoreSource(c)
  PROVE  /\ SourcesStay /\ SourcesOK' /\ UNCHANGED <<runs, roots>>
         /\ SourceRow(c) \in sources' /\ SourceRow(c) \in SourceRecord
         /\ SourceRow(c).canonical = Canonical[r[c].items[r[c].at]]
<1>1. r[c] \in Request /\ Progress(r[c])
  BY DEF SubmissionInv, Local
<1>2. r[c].items[r[c].at] \in Url
  BY <1>1, ElementOfSeq DEF Request, Progress
<1>3. Canonical[r[c].items[r[c].at]] \in Targets
  BY <1>2 DEF Targets
<1>4. SourcesOK
  BY DEF SubmissionInv
<1>5. sources' = sources \cup {SourceRow(c)} /\ UNCHANGED <<runs, roots>>
  BY DEF StoreSource
<1>6. CASE Matching(c) = {}
  <2>1. SourceRow(c) = NewSource(c)
    BY <1>6 DEF SourceRow
  <2>2. Cardinality(sources) + 1 \in Nat
    BY <1>4, FS_CardinalityType DEF SourcesOK
  <2>3. NewSource(c) \in SourceRecord /\ NewSource(c).canonical = Canonical[r[c].items[r[c].at]]
    BY <1>2, <1>3, <2>2 DEF NewSource, SourceRecord, SourceType, Item
  <2>4. \A s \in sources : s.canonical # NewSource(c).canonical
    BY <1>6, <2>3 DEF Matching, Item
  <2>5. OneSourcePerUrl'
    BY <1>4, <1>5, <2>1, <2>4 DEF SourcesOK, OneSourcePerUrl
  <2>6. IsFiniteSet(sources')
    BY <1>4, <1>5, FS_AddElement DEF SourcesOK
  <2>7. SourcesOK'
    BY <1>4, <1>5, <2>1, <2>3, <2>5, <2>6 DEF SourcesOK
  <2>8. SourcesStay
    BY <1>5 DEF SourcesStay
  <2> QED BY <1>5, <2>1, <2>3, <2>7, <2>8
<1>7. CASE Matching(c) # {}
  <2>1. SourceRow(c) \in Matching(c)
    BY <1>7 DEF SourceRow
  <2>2. SourceRow(c) \in sources /\ SourceRow(c).canonical = Canonical[r[c].items[r[c].at]]
    BY <2>1 DEF Matching, Item
  <2>3. sources' = sources
    BY <1>5, <2>2
  <2> QED BY <1>4, <1>5, <2>2, <2>3 DEF SourcesOK, SourcesStay, OneSourcePerUrl
<1> QED BY <1>6, <1>7

\* The Source of a file is marked, and stays the Source it was.
LEMMA SourceMarked ==
  ASSUME SubmissionInv, NEW c \in Client, StoreMark(c)
  PROVE  SourcesStay /\ SourcesOK' /\ UNCHANGED <<runs, roots>>
<1>1. SourcesOK
  BY DEF SubmissionInv
<1> DEFINE Row(s) == IF s.id = r[c].source.id THEN Marked(s) ELSE s
<1>2. ASSUME NEW s \in sources
      PROVE  /\ Row(s) \in SourceRecord
             /\ Row(s).id = s.id /\ Row(s).canonical = s.canonical
  <2>1. s \in SourceRecord
    BY <1>1 DEF SourcesOK
  <2> QED BY <2>1 DEF Marked, SourceRecord, SourceType
<1>3. sources' = {Row(s) : s \in sources} /\ UNCHANGED <<runs, roots>>
  BY DEF StoreMark
<1> HIDE DEF Row
<1>4. IsFiniteSet(sources')
  <2>1. PICK f : f = [s \in sources |-> Row(s)]
    OBVIOUS
  <2>2. f \in Surjection(sources, sources')
    BY <1>3, <2>1 DEF Surjection
  <2> QED BY <1>1, <2>2, FS_Surjection DEF SourcesOK
<1>5. SourcesStay
  BY <1>2, <1>3 DEF SourcesStay
<1>6. OneSourcePerUrl'
  <2>1. ASSUME NEW s \in sources', NEW t \in sources', s.canonical = t.canonical PROVE s = t
    <3>1. PICK s0 \in sources : s = Row(s0)
      BY <1>3
    <3>2. PICK t0 \in sources : t = Row(t0)
      BY <1>3
    <3>3. s0 = t0
      BY <1>1, <1>2, <2>1, <3>1, <3>2 DEF SourcesOK, OneSourcePerUrl
    <3> QED BY <3>1, <3>2, <3>3
  <2> QED BY <2>1 DEF OneSourcePerUrl
<1>7. sources' \subseteq SourceRecord
  BY <1>2, <1>3
<1> QED BY <1>3, <1>4, <1>5, <1>6, <1>7 DEF SourcesOK
-----------------------------------------------------------------------------
(* The actions                                                              *)

LEMMA AcceptKeeps ==
  ASSUME SubmissionAssumption, SubmissionInv, NEW c \in Client, NEW e \in Endpoints,
         NEW items \in Batches, Accept(c, e, items)
  PROVE  SubmissionInv'
<1>1. PICK k \in Nat : items \in [1..k -> Url]
  BY DEF Batches
<1>2. items \in Seq(Url)
  BY <1>1
<1>3. PICK n \in Nat : n = Len(items)
  BY <1>2
<1>4. PICK pc : pc = IF Len(items) \in 1..MaxItems THEN "item" ELSE "refused"
  OBVIOUS
<1>5. PICK q : q = [Fresh EXCEPT !.endpoint = e, !.items = items, !.pc = pc]
  OBVIOUS
<1>6. r' = [r EXCEPT ![c] = q] /\ UNCHANGED durable /\ r[c].pc = "idle"
  BY <1>4, <1>5 DEF Accept, Become
<1>7. MaxItems \in Nat /\ e \in {"single", "batch"}
  BY DEF SubmissionAssumption
<1>8. q \in Request
  <2>1. pc \in Active \cup {"idle", "refused", "done", "gone"}
    BY <1>4 DEF Active
  <2> QED BY <1>2, <1>5, <1>7, <2>1, FreshFacts DEF Request
<1>9. /\ q.pc = pc /\ q.items = items /\ q.outs = <<>> /\ q.at = 1 /\ q.decision.file = FALSE
  BY <1>5, FreshFacts DEF Request, Fresh
<1>10. Local(q)
  <2>1. q.pc \in Active => Progress(q)
    <3>1. ASSUME q.pc \in Active PROVE n \in 1..MaxItems
      BY <1>3, <1>4, <1>9, <3>1 DEF Active, Checked, Sourced
    <3>2. Len(<<>>) = 1 - 1 /\ \A i \in DOMAIN <<>> : <<>>[i].status \in {"ACCEPTED", "VALIDATION"}
      OBVIOUS
    <3>3. ASSUME q.pc \in Active PROVE 1 \in 1..n
      BY <1>7, <3>1, <3>3
    <3> QED BY <1>3, <1>9, <3>2, <3>3 DEF Progress
  <2>2. Stops(q.outs)
    BY <1>9 DEF Stops
  <2> QED BY <1>4, <1>8, <1>9, <2>1, <2>2 DEF Local, Checked, Sourced, Evidence
<1>11. Linked(q)'
  BY <1>4, <1>9 DEF Linked, Sourced
<1>12. r[c].pc # "gone" /\ Accepted(q.outs) = Accepted(r[c].outs)
  <2>1. r[c].outs = <<>>
    BY <1>6 DEF SubmissionInv, Local
  <2> QED BY <1>6, <1>9, <2>1
<1> QED BY <1>6, <1>10, <1>11, <1>12, NothingStored, NoRun

\* An item that is refused ends there, and its place has the outcome.
LEMMA RefusedKeeps ==
  ASSUME SubmissionInv, NEW c \in Client, r[c].pc \in Active, NEW o \in OutRecord,
         o.status = "VALIDATION", Outcome(c, o), UNCHANGED durable
  PROVE  SubmissionInv'
<1>1. PICK q : /\ r' = [r EXCEPT ![c] = q]
               /\ Local(q)
               /\ q.pc \in {"item", "done"}
               /\ Accepted(q.outs) = Accepted(r[c].outs)
                                       \cup (IF o.status = "ACCEPTED" THEN {r[c].at} ELSE {})
  BY OutcomeStep
<1>2. Linked(q)'
  BY <1>1 DEF Linked, Sourced
<1>3. r[c].pc # "gone" /\ Accepted(q.outs) = Accepted(r[c].outs)
  BY <1>1 DEF Active, Checked, Sourced
<1> QED BY <1>1, <1>2, <1>3, NothingStored, NoRun

LEMMA CheckItemKeeps ==
  ASSUME SubmissionInv, NEW c \in Client, CheckItem(c)
  PROVE  SubmissionInv'
<1>1. r[c].pc = "item" /\ r[c].pc \in Active /\ UNCHANGED durable
  BY DEF CheckItem, Active
<1>2. CASE Item(c) \in Unacceptable
  <2>1. Out("VALIDATION", "target") \in OutRecord /\ Out("VALIDATION", "target").status = "VALIDATION"
    BY DEF Out, OutRecord
  <2> QED BY <1>1, <1>2, <2>1, RefusedKeeps DEF CheckItem
<1>3. CASE Item(c) \notin Unacceptable
  <2>1. PICK q : q = [r[c] EXCEPT !.pc = "resolve"]
    OBVIOUS
  <2>2. r' = [r EXCEPT ![c] = q]
    BY <1>3, <2>1 DEF CheckItem, Goto, Become
  <2>3. Local(r[c]) /\ r[c] \in Request
    BY DEF SubmissionInv, Local
  <2>4. q \in Request
    BY <2>1, <2>3 DEF Request, Active
  <2>5. /\ q.pc = "resolve" /\ q.items = r[c].items /\ q.at = r[c].at /\ q.outs = r[c].outs
        /\ q.decision = r[c].decision /\ q.seen = r[c].seen
    BY <2>1, <2>3 DEF Request
  <2>6. Local(q)
    BY <1>1, <2>3, <2>4, <2>5 DEF Local, Progress, Active, Checked, Sourced, Evidence
  <2>7. Linked(q)'
    BY <2>5 DEF Linked, Sourced
  <2> QED BY <1>1, <2>2, <2>5, <2>6, <2>7, NothingStored, NoRun
<1> QED BY <1>2, <1>3

LEMMA ResolveKeeps ==
  ASSUME SubmissionAssumption, SubmissionInv, NEW c \in Client, NEW answers \in Resolutions,
         Resolve(c, answers)
  PROVE  SubmissionInv'
<1>1. r[c].pc = "resolve" /\ r[c].pc \in Active /\ UNCHANGED durable
  BY DEF Resolve, Active
<1>2. CASE ~ValidAddresses(answers)
  <2>1. Out("VALIDATION", "target") \in OutRecord /\ Out("VALIDATION", "target").status = "VALIDATION"
    BY DEF Out, OutRecord
  <2> QED BY <1>1, <1>2, <2>1, RefusedKeeps DEF Resolve
<1>3. CASE ValidAddresses(answers)
  <2>1. PICK target : target = {answers[i] : i \in DOMAIN answers}
    OBVIOUS
  <2>2. PICK k \in Nat : answers \in [1..k -> Address]
    BY DEF Resolutions
  <2>3. AddressLimit \in Nat /\ Len(answers) = k
    BY <2>2 DEF SubmissionAssumption
  <2>4. k \in 1..AddressLimit
    BY <1>3, <2>3 DEF ValidAddresses
  <2>5. answers[1] \in target
    BY <2>1, <2>2, <2>3, <2>4
  <2>6. target \subseteq PublicAddress /\ target # {} /\ target \in SUBSET Address
    BY <1>3, <2>1, <2>2, <2>5 DEF ValidAddresses
  <2>7. PICK q : q = [r[c] EXCEPT !.target = target, !.pc = "source"]
    OBVIOUS
  <2>8. r' = [r EXCEPT ![c] = q]
    BY <1>3, <2>1, <2>7 DEF Resolve, Become
  <2>9. Local(r[c]) /\ r[c] \in Request
    BY DEF SubmissionInv, Local
  <2>10. q \in Request
    BY <2>6, <2>7, <2>9 DEF Request, Active, Checked
  <2>11. /\ q.pc = "source" /\ q.items = r[c].items /\ q.at = r[c].at /\ q.outs = r[c].outs
         /\ q.decision = r[c].decision /\ q.seen = r[c].seen /\ q.target = target
    BY <2>7, <2>9 DEF Request
  <2>12. Local(q)
    BY <1>1, <2>6, <2>9, <2>10, <2>11 DEF Local, Progress, Active, Checked, Sourced, Evidence
  <2>13. Linked(q)'
    BY <2>11 DEF Linked, Sourced
  <2> QED BY <1>1, <2>8, <2>11, <2>12, <2>13, NothingStored, NoRun
<1> QED BY <1>2, <1>3

LEMMA CreateOrReuseKeeps ==
  ASSUME SubmissionAssumption, SubmissionInv, NEW c \in Client, CreateOrReuse(c)
  PROVE  SubmissionInv'
<1>1. r[c].pc = "source" /\ r[c].pc \in Active /\ StoreSource(c)
  BY DEF CreateOrReuse, Active, Checked
<1>2. PICK row : row = SourceRow(c)
  OBVIOUS
<1>3. /\ SourcesStay /\ SourcesOK' /\ UNCHANGED <<runs, roots>>
      /\ row \in sources' /\ row \in SourceRecord
      /\ row.canonical = Canonical[r[c].items[r[c].at]]
  BY <1>1, <1>2, SourceStored
<1>4. PICK q : q = [r[c] EXCEPT !.source = row, !.pc = "head"]
  OBVIOUS
<1>5. r' = [r EXCEPT ![c] = q]
  BY <1>2, <1>4 DEF CreateOrReuse, Become
<1>6. Local(r[c]) /\ r[c] \in Request
  BY DEF SubmissionInv, Local
<1>7. q \in Request
  BY <1>3, <1>4, <1>6 DEF Request, Active, Checked, Sourced
<1>8. /\ q.pc = "head" /\ q.items = r[c].items /\ q.at = r[c].at /\ q.outs = r[c].outs
      /\ q.decision = r[c].decision /\ q.seen = r[c].seen /\ q.target = r[c].target
      /\ q.source = row
  BY <1>4, <1>6 DEF Request
<1>9. Local(q)
  BY <1>1, <1>6, <1>7, <1>8 DEF Local, Progress, Active, Checked, Sourced, Evidence
<1>10. Linked(q)'
  BY <1>3, <1>8 DEF Linked
<1>11. q.pc # "gone" => r[c].pc # "gone" /\ Accepted(q.outs) = Accepted(r[c].outs)
  BY <1>1, <1>8
<1> QED BY <1>3, <1>5, <1>9, <1>10, <1>11, NoRun

\* The row the request refers to is still there after a step that writes none.
LEMMA StillLinked ==
  ASSUME SubmissionInv, NEW c \in Client, r[c].pc \in Sourced, SourcesStay,
         NEW q, q.source.id = r[c].source.id, q.items = r[c].items, q.at = r[c].at
  PROVE  Linked(q)'
<1>1. PICK s \in sources : s.id = r[c].source.id /\ s.canonical = Canonical[r[c].items[r[c].at]]
  BY DEF SubmissionInv, Linked
<1>2. PICK t \in sources' : t.id = s.id /\ t.canonical = s.canonical
  BY DEF SourcesStay
<1> QED BY <1>1, <1>2 DEF Linked

\* A decision of the probe, with what was seen.
LEMMA DecidedKeeps ==
  ASSUME SubmissionInv, NEW c \in Client, r[c].pc \in {"head", "get"},
         NEW d \in Decision, NEW seen \in Seen, Decided(c, d, seen), UNCHANGED durable,
         \A q : q.decision = d /\ q.seen = seen => Evidence(q)
  PROVE  SubmissionInv'
<1>1. PICK pc : pc = IF d.file THEN "mark" ELSE "run"
  OBVIOUS
<1>2. PICK q : q = [r[c] EXCEPT !.decision = d, !.seen = seen, !.pc = pc]
  OBVIOUS
<1>3. r' = [r EXCEPT ![c] = q]
  BY <1>1, <1>2 DEF Decided, Become
<1>4. Local(r[c]) /\ r[c] \in Request
  BY DEF SubmissionInv, Local
<1>5. pc \in Sourced /\ pc \in Checked /\ pc \in Active
  BY <1>1 DEF Active, Checked, Sourced
<1>6. q \in Request
  BY <1>2, <1>4, <1>5 DEF Request
<1>7. /\ q.pc = pc /\ q.items = r[c].items /\ q.at = r[c].at /\ q.outs = r[c].outs
      /\ q.decision = d /\ q.seen = seen /\ q.target = r[c].target
      /\ q.source = r[c].source
  BY <1>2, <1>4 DEF Request
<1>8. Evidence(q)
  BY <1>7
<1>9. Progress(q)
  <2>1. Progress(r[c])
    BY <1>4 DEF Local, Active, Checked, Sourced
  <2> QED BY <1>7, <2>1 DEF Progress
<1>10. q.target # {} /\ q.target \subseteq PublicAddress
  BY <1>4, <1>7 DEF Local, Checked, Sourced
<1>11. Stops(q.outs)
  BY <1>4, <1>7 DEF Local
<1>12. q.pc = "run" => ~q.decision.file
  BY <1>1, <1>7
<1>13. q.pc \notin {"idle", "refused", "done"}
  BY <1>1, <1>7
<1>14. Local(q)
  BY <1>6, <1>8, <1>9, <1>10, <1>11, <1>12, <1>13 DEF Local
<1>15. SourcesStay /\ SourcesOK' /\ UNCHANGED <<runs, roots>>
  BY NothingStored
<1>16. Linked(q)'
  BY <1>7, <1>15, StillLinked DEF Sourced
<1>17. q.pc # "gone" => r[c].pc # "gone" /\ Accepted(q.outs) = Accepted(r[c].outs)
  BY <1>7
<1> QED BY <1>3, <1>14, <1>15, <1>16, <1>17, NoRun

\* A page needs no evidence.
LEMMA PageNeedsNone ==
  /\ Web \in Decision
  /\ \A q : q.decision = Web => Evidence(q)
BY DEF Web, Decision, Evidence

\* What a HEAD says of a file is its type alone.
LEMMA TypeIsEvidence ==
  ASSUME NEW m \in MediaType, m # "html", MediaTypeKind(m) # "none",
         NEW q, q.seen = [media |-> m, prefix |-> "none"],
         q.decision = FileAsset(MediaTypeKind(m), "type")
  PROVE  Evidence(q)
<1>1. q.seen.media = m /\ q.seen.prefix = "none" /\ q.decision.kind = MediaTypeKind(m)
  BY DEF FileAsset
<1>2. SignatureKind("none", m) = "none"
  BY DEF SignatureKind
<1>3. {MediaTypeKind(m), SignatureKind("none", m)} \ {"none"} = {MediaTypeKind(m)}
  BY <1>2
<1>4. Cardinality({MediaTypeKind(m)}) = 1
  BY FS_Singleton
<1> QED BY <1>1, <1>3, <1>4 DEF Evidence

\* What type and signature say together.
LEMMA PrefixIsEvidence ==
  ASSUME NEW m \in MediaType, NEW p \in Prefix
  PROVE  /\ ClassifyPrefix(m, p) \in Decision
         /\ \A q : q.decision = ClassifyPrefix(m, p) /\ q.seen.media = m /\ q.seen.prefix = p
                      => Evidence(q)
<1>1. PICK signature : signature = SignatureKind(p, m)
  OBVIOUS
<1>2. PICK typed : typed = MediaTypeKind(m)
  OBVIOUS
<1>3. signature \in FileKind \cup {"none"}
  BY <1>1 DEF SignatureKind, FileKind
<1>4. typed \in FileKind \cup {"none"}
  BY <1>2 DEF MediaTypeKind, FileKind
<1>5. "none" \notin FileKind
  BY DEF FileKind
<1>6. ASSUME NEW kind \in FileKind, NEW evidence \in {"type", "signature", "type and signature"}
      PROVE  FileAsset(kind, evidence) \in Decision /\ FileAsset(kind, evidence).kind = kind
  BY <1>6 DEF FileAsset, Decision
<1>7. CASE m = "html" \/ p = "html"
  <2>1. ClassifyPrefix(m, p) = Web
    BY <1>7 DEF ClassifyPrefix
  <2> QED BY <2>1, PageNeedsNone
<1>8. CASE ~(m = "html" \/ p = "html") /\ signature # "none" /\ typed # "none"
  <2>1. ClassifyPrefix(m, p) = IF CompatibleEvidence(signature, typed)
                               THEN FileAsset(typed, "type and signature") ELSE Web
    BY <1>1, <1>2, <1>8 DEF ClassifyPrefix
  <2>2. CASE ~CompatibleEvidence(signature, typed)
    BY <2>1, <2>2, PageNeedsNone
  <2>3. CASE CompatibleEvidence(signature, typed)
    <3>1. ClassifyPrefix(m, p) = FileAsset(typed, "type and signature")
      BY <2>1, <2>3
    <3>2. ASSUME NEW q, q.decision = ClassifyPrefix(m, p), q.seen.media = m, q.seen.prefix = p
          PROVE  Evidence(q)
      <4>1. q.decision.kind = typed
        BY <1>4, <1>6, <1>8, <3>1, <3>2
      <4>2. {typed, signature} \ {"none"} = {typed, signature}
        BY <1>8
      <4>3. Cardinality({typed, signature}) = 1 \/ {typed, signature} = {"ARCHIVE", "OFFICE"}
        <5>1. CASE signature = typed
          <6>1. {typed, signature} = {typed}
            BY <5>1
          <6> QED BY <6>1, FS_Singleton
        <5>2. CASE signature # typed
          BY <2>3, <5>2 DEF CompatibleEvidence
        <5> QED BY <5>1, <5>2
      <4> QED BY <1>1, <1>2, <1>8, <3>2, <4>1, <4>2, <4>3 DEF Evidence
    <3> QED BY <1>4, <1>6, <1>8, <3>1, <3>2
  <2> QED BY <2>2, <2>3
<1>9. CASE ~(m = "html" \/ p = "html") /\ signature # "none" /\ typed = "none"
  <2>1. ClassifyPrefix(m, p) = IF m \in {"none", "octet"} THEN FileAsset(signature, "signature") ELSE Web
    BY <1>1, <1>2, <1>9 DEF ClassifyPrefix
  <2>2. CASE m \notin {"none", "octet"}
    BY <2>1, <2>2, PageNeedsNone
  <2>3. CASE m \in {"none", "octet"}
    <3>1. ClassifyPrefix(m, p) = FileAsset(signature, "signature")
      BY <2>1, <2>3
    <3>2. ASSUME NEW q, q.decision = ClassifyPrefix(m, p), q.seen.media = m, q.seen.prefix = p
          PROVE  Evidence(q)
      <4>1. q.decision.kind = signature
        BY <1>3, <1>6, <1>9, <3>1, <3>2
      <4>2. {typed, signature} \ {"none"} = {signature}
        BY <1>9
      <4>3. Cardinality({signature}) = 1
        BY FS_Singleton
      <4> QED BY <1>1, <1>2, <1>9, <3>2, <4>1, <4>2, <4>3 DEF Evidence
    <3> QED BY <1>3, <1>6, <1>9, <3>1, <3>2
  <2> QED BY <2>2, <2>3
<1>10. CASE ~(m = "html" \/ p = "html") /\ signature = "none" /\ typed # "none"
  <2>1. ClassifyPrefix(m, p) = FileAsset(typed, "type")
    BY <1>1, <1>2, <1>10 DEF ClassifyPrefix
  <2>2. ASSUME NEW q, q.decision = ClassifyPrefix(m, p), q.seen.media = m, q.seen.prefix = p
        PROVE  Evidence(q)
    <3>1. q.decision.kind = typed
      BY <1>4, <1>6, <1>10, <2>1, <2>2
    <3>2. {typed, signature} \ {"none"} = {typed}
      BY <1>10
    <3>3. Cardinality({typed}) = 1
      BY FS_Singleton
    <3> QED BY <1>1, <1>2, <1>10, <2>2, <3>1, <3>2, <3>3 DEF Evidence
  <2> QED BY <1>4, <1>6, <1>10, <2>1, <2>2
<1>11. CASE ~(m = "html" \/ p = "html") /\ signature = "none" /\ typed = "none"
  <2>1. ClassifyPrefix(m, p) = Web
    BY <1>1, <1>2, <1>11 DEF ClassifyPrefix
  <2> QED BY <2>1, PageNeedsNone
<1> QED BY <1>7, <1>8, <1>9, <1>10, <1>11

LEMMA ProbeHeadKeeps ==
  ASSUME SubmissionAssumption, SubmissionInv, NEW c \in Client, NEW a \in HeadAnswers, ProbeHead(c, a)
  PROVE  SubmissionInv'
<1>1. r[c].pc = "head" /\ UNCHANGED durable
  BY DEF ProbeHead
<1>2. a.media \in MediaType /\ a.status \in {"ok", "unsupported", "error"}
  BY DEF SubmissionAssumption
<1>3. PICK seen : seen = [media |-> a.media, prefix |-> "none"]
  OBVIOUS
<1>4. seen \in Seen
  BY <1>2, <1>3 DEF Seen, Prefix
<1>5. PICK class : class = ClassifyHead(a.status, a.media)
  OBVIOUS
<1>6. class \in {"get", "web", "file"}
  BY <1>5 DEF ClassifyHead
<1>7. CASE class = "get"
  <2>1. PICK q : q = [r[c] EXCEPT !.pc = "get"]
    OBVIOUS
  <2>2. r' = [r EXCEPT ![c] = q]
    BY <1>5, <1>7, <2>1 DEF ProbeHead, Goto, Become
  <2>3. Local(r[c]) /\ r[c] \in Request
    BY DEF SubmissionInv, Local
  <2>4. q \in Request
    BY <2>1, <2>3 DEF Request, Active, Checked, Sourced
  <2>5. /\ q.pc = "get" /\ q.items = r[c].items /\ q.at = r[c].at /\ q.outs = r[c].outs
        /\ q.decision = r[c].decision /\ q.seen = r[c].seen /\ q.target = r[c].target
        /\ q.source = r[c].source
    BY <2>1, <2>3 DEF Request
  <2>6. Local(q)
    BY <1>1, <2>3, <2>4, <2>5 DEF Local, Progress, Active, Checked, Sourced, Evidence
  <2>7. Linked(q)'
    BY <1>1, <2>5, NothingStored, StillLinked DEF Sourced
  <2>8. q.pc # "gone" => r[c].pc # "gone" /\ Accepted(q.outs) = Accepted(r[c].outs)
    BY <1>1, <2>5
  <2> QED BY <1>1, <2>2, <2>6, <2>7, <2>8, NothingStored, NoRun
<1>8. CASE class = "web"
  <2>1. Decided(c, Web, seen)
    BY <1>3, <1>5, <1>8 DEF ProbeHead
  <2> QED BY <1>1, <1>4, <2>1, PageNeedsNone, DecidedKeeps
<1>9. CASE class = "file"
  <2>1. a.media # "html" /\ MediaTypeKind(a.media) # "none"
    BY <1>5, <1>9 DEF ClassifyHead
  <2>2. PICK d : d = FileAsset(MediaTypeKind(a.media), "type")
    OBVIOUS
  <2>3. d \in Decision
    BY <2>1, <2>2 DEF FileAsset, Decision, MediaTypeKind, FileKind
  <2>4. Decided(c, d, seen)
    BY <1>3, <1>5, <1>9, <2>2 DEF ProbeHead
  <2>5. \A q : q.decision = d /\ q.seen = seen => Evidence(q)
    BY <1>2, <1>3, <2>1, <2>2, TypeIsEvidence
  <2> QED BY <1>1, <1>4, <2>3, <2>4, <2>5, DecidedKeeps
<1> QED BY <1>6, <1>7, <1>8, <1>9

LEMMA ProbeGetKeeps ==
  ASSUME SubmissionAssumption, SubmissionInv, NEW c \in Client, NEW a \in GetAnswers, ProbeGet(c, a)
  PROVE  SubmissionInv'
<1>1. r[c].pc = "get" /\ UNCHANGED durable
  BY DEF ProbeGet
<1>2. a \in Seen /\ a.media \in MediaType /\ a.prefix \in Prefix
  BY DEF SubmissionAssumption, Seen
<1>3. PICK d : d = ClassifyPrefix(a.media, a.prefix)
  OBVIOUS
<1>4. d \in Decision /\ \A q : q.decision = d /\ q.seen = a => Evidence(q)
  BY <1>2, <1>3, PrefixIsEvidence
<1>5. Decided(c, d, a)
  BY <1>3 DEF ProbeGet
<1> QED BY <1>1, <1>2, <1>4, <1>5, DecidedKeeps

LEMMA ProbeFailsKeeps ==
  ASSUME SubmissionInv, NEW c \in Client, ProbeFails(c)
  PROVE  SubmissionInv'
<1>1. r[c].pc \in {"head", "get"} /\ UNCHANGED durable /\ Decided(c, Web, r[c].seen)
  BY DEF ProbeFails
<1>2. r[c].seen \in Seen
  BY DEF SubmissionInv, Request
<1> QED BY <1>1, <1>2, PageNeedsNone, DecidedKeeps

LEMMA MarkFileAssetKeeps ==
  ASSUME SubmissionInv, NEW c \in Client, MarkFileAsset(c)
  PROVE  SubmissionInv'
<1>1. r[c].pc = "mark" /\ StoreMark(c)
  BY DEF MarkFileAsset
<1>2. Local(r[c]) /\ r[c] \in Request
  BY DEF SubmissionInv, Local
<1>3. PICK row : row = Marked(r[c].source)
  OBVIOUS
<1>4. row \in SourceRecord /\ row.type = "FILE_ASSET" /\ row.id = r[c].source.id
  BY <1>2, <1>3 DEF Request, Marked, SourceRecord, SourceType
<1>5. PICK q : q = [r[c] EXCEPT !.source = row, !.pc = "run"]
  OBVIOUS
<1>6. r' = [r EXCEPT ![c] = q]
  BY <1>2, <1>3, <1>5 DEF MarkFileAsset, Become, Request
<1>7. q \in Request
  BY <1>2, <1>4, <1>5 DEF Request, Active, Checked, Sourced
<1>8. /\ q.pc = "run" /\ q.items = r[c].items /\ q.at = r[c].at /\ q.outs = r[c].outs
      /\ q.decision = r[c].decision /\ q.seen = r[c].seen /\ q.target = r[c].target
      /\ q.source = row
  BY <1>2, <1>5 DEF Request
<1>9. Local(q)
  BY <1>1, <1>2, <1>4, <1>7, <1>8 DEF Local, Progress, Active, Checked, Sourced, Evidence
<1>10. SourcesStay /\ SourcesOK' /\ UNCHANGED <<runs, roots>>
  BY <1>1, SourceMarked
<1>11. Linked(q)'
  BY <1>1, <1>4, <1>8, <1>10, StillLinked DEF Sourced
<1>12. q.pc # "gone" => r[c].pc # "gone" /\ Accepted(q.outs) = Accepted(r[c].outs)
  BY <1>1, <1>8
<1> QED BY <1>6, <1>9, <1>10, <1>11, <1>12, NoRun

LEMMA CreateRunKeeps ==
  ASSUME SubmissionInv, NEW c \in Client, CreateRun(c)
  PROVE  SubmissionInv'
<1>1. r[c].pc = "run" /\ r[c].pc \in Active /\ StoreRun(c)
  BY DEF CreateRun, Active, Checked, Sourced
<1>2. PICK o : o = Out("ACCEPTED", "none")
  OBVIOUS
<1>3. o \in OutRecord /\ o.status = "ACCEPTED" /\ Outcome(c, o)
  BY <1>2 DEF Out, OutRecord, CreateRun
<1>4. PICK q : /\ r' = [r EXCEPT ![c] = q]
               /\ Local(q)
               /\ q.pc \in {"item", "done"}
               /\ Accepted(q.outs) = Accepted(r[c].outs)
                                       \cup (IF o.status = "ACCEPTED" THEN {r[c].at} ELSE {})
  BY <1>1, <1>3, OutcomeStep
<1>5. q.pc \notin Sourced
  BY <1>4 DEF Sourced
<1> QED BY <1>1, <1>3, <1>4, <1>5, OneRunMore

LEMMA ClientDropsKeeps ==
  ASSUME SubmissionAssumption, SubmissionInv, NEW c \in Client, ClientDrops(c)
  PROVE  SubmissionInv'
<1>1. PICK q : q = [r[c] EXCEPT !.pc = "gone"]
  OBVIOUS
<1>2. r' = [r EXCEPT ![c] = q]
  BY <1>1 DEF ClientDrops, Goto, Become
<1>3. Local(r[c]) /\ r[c] \in Request
  BY DEF SubmissionInv, Local
<1>4. q \in Request
  BY <1>1, <1>3 DEF Request
<1>5. /\ q.pc = "gone" /\ q.outs = r[c].outs /\ q.decision = r[c].decision /\ q.seen = r[c].seen
  BY <1>1, <1>3 DEF Request
<1>6. Local(q)
  BY <1>3, <1>4, <1>5 DEF Local, Active, Checked, Sourced, Evidence
<1>7. Linked(q)'
  BY <1>5 DEF Linked, Sourced
<1>8. CASE UNCHANGED durable
  BY <1>2, <1>5, <1>6, <1>7, <1>8, NothingStored, NoRun
<1>9. CASE r[c].pc = "source" /\ StoreSource(c)
  <2>1. r[c].pc \in Active
    BY <1>9 DEF Active, Checked
  <2> QED BY <1>2, <1>5, <1>6, <1>7, <1>9, <2>1, SourceStored, NoRun
<1>10. CASE r[c].pc = "mark" /\ StoreMark(c)
  BY <1>2, <1>5, <1>6, <1>7, <1>10, SourceMarked, NoRun
<1>11. CASE r[c].pc = "run" /\ StoreRun(c)
  BY <1>2, <1>5, <1>6, <1>11, OneRunMore DEF Sourced
<1> QED BY <1>8, <1>9, <1>10, <1>11 DEF ClientDrops

\* A database call fails: one URL is refused, a batch stops there.
LEMMA DatabaseFailsKeeps ==
  ASSUME SubmissionInv, NEW c \in Client, DatabaseFails(c)
  PROVE  SubmissionInv'
<1>1. r[c].pc \in {"source", "mark", "run"} /\ r[c].pc \in Active /\ UNCHANGED durable
  BY DEF DatabaseFails, Active, Checked, Sourced
<1>2. CASE r[c].endpoint = "single" /\ r[c].pc # "run"
  <2>1. Out("VALIDATION", "database") \in OutRecord /\ Out("VALIDATION", "database").status = "VALIDATION"
    BY DEF Out, OutRecord
  <2> QED BY <1>1, <1>2, <2>1, RefusedKeeps DEF DatabaseFails
<1>3. CASE ~(r[c].endpoint = "single" /\ r[c].pc # "run")
  <2>1. r[c] \in Request /\ Local(r[c]) /\ Progress(r[c])
    BY <1>1 DEF SubmissionInv, Local
  <2>2. PICK n \in Nat : n = Len(r[c].items)
    BY <2>1 DEF Request
  <2>3. PICK a \in 1..n : a = r[c].at
    BY <2>1, <2>2 DEF Progress
  <2>4. r[c].outs \in Seq(OutRecord) /\ DOMAIN r[c].outs = 1..(a - 1)
    BY <2>1, <2>3 DEF Request, Progress
  <2>5. PICK outs : outs = [i \in 1..n |-> CASE i < a -> r[c].outs[i]
                                             [] i = a -> Out("SYSTEM", "database")
                                             [] OTHER -> Out("NOT_PROCESSED", "none")]
    OBVIOUS
  <2>6. Halted(c)
    BY <1>3 DEF DatabaseFails
  <2>7. PICK q : q = [Fresh EXCEPT !.endpoint = r[c].endpoint, !.items = r[c].items, !.pc = "done",
                                   !.at = n + 1, !.outs = outs]
    OBVIOUS
  <2>8. r' = [r EXCEPT ![c] = q]
    BY <2>2, <2>3, <2>5, <2>6, <2>7 DEF Halted, Become
  <2>9. /\ \A i \in 1..(a - 1) : outs[i] = r[c].outs[i] /\ i \in 1..n
        /\ outs[a] = Out("SYSTEM", "database")
        /\ \A i \in (a + 1)..n : outs[i] = Out("NOT_PROCESSED", "none") /\ i \in 1..n
    BY <2>5
  <2>10. /\ Out("SYSTEM", "database") \in OutRecord /\ Out("SYSTEM", "database").status = "SYSTEM"
         /\ Out("NOT_PROCESSED", "none") \in OutRecord
         /\ Out("NOT_PROCESSED", "none").status = "NOT_PROCESSED"
    BY DEF Out, OutRecord
  <2>11. \A i \in 1..n : i \in 1..(a - 1) \/ i = a \/ i \in (a + 1)..n
    BY <2>3
  <2>12. \A i \in 1..(a - 1) : r[c].outs[i] \in OutRecord /\ r[c].outs[i].status \in {"ACCEPTED", "VALIDATION"}
    BY <2>1, <2>4, ElementOfSeq DEF Progress
  <2>13. \A i \in 1..n : outs[i] \in OutRecord
    BY <2>9, <2>10, <2>11, <2>12
  <2>14. outs \in Seq(OutRecord) /\ Len(outs) = n /\ DOMAIN outs = 1..n
    <3>1. outs \in [1..n -> OutRecord]
      BY <2>5, <2>13
    <3> QED BY <3>1
  <2>15. Accepted(outs) = Accepted(r[c].outs)
    <3>1. \A i \in 1..n : outs[i].status = "ACCEPTED" => i \in 1..(a - 1)
      BY <2>9, <2>10, <2>11
    <3> QED BY <2>4, <2>9, <2>14, <3>1 DEF Accepted
  <2>16. Stops(outs)
    <3>1. ASSUME NEW j \in 1..n
          PROVE  outs[j].status = "NOT_PROCESSED" <=> \E i \in 1..(j - 1) : outs[i].status = "SYSTEM"
      <4>1. CASE j \in 1..a
        <5>1. outs[j].status # "NOT_PROCESSED"
          BY <2>3, <2>9, <2>10, <2>12, <4>1
        <5>2. ASSUME NEW i \in 1..(j - 1) PROVE outs[i].status # "SYSTEM"
          <6>1. i \in 1..(a - 1)
            BY <2>3, <4>1
          <6> QED BY <2>9, <2>12, <6>1
        <5> QED BY <5>1, <5>2
      <4>2. CASE j \in (a + 1)..n
        <5>1. a \in 1..(j - 1)
          BY <2>3, <4>2
        <5> QED BY <2>9, <2>10, <4>2, <5>1
      <4> QED BY <2>3, <4>1, <4>2
    <3> QED BY <2>14, <3>1 DEF Stops
  <2>17. q \in Request
    <3>1. n + 1 \in Nat \ {0}
      OBVIOUS
    <3> QED BY <2>1, <2>7, <2>14, <3>1, FreshFacts DEF Request
  <2>18. q.pc = "done" /\ q.items = r[c].items /\ q.outs = outs /\ q.decision.file = FALSE
    BY <2>7, FreshFacts DEF Request
  <2>19. Local(q)
    BY <2>2, <2>14, <2>16, <2>17, <2>18 DEF Local, Active, Checked, Sourced, Evidence
  <2>20. Linked(q)'
    BY <2>18 DEF Linked, Sourced
  <2>21. q.pc # "gone" => r[c].pc # "gone" /\ Accepted(q.outs) = Accepted(r[c].outs)
    BY <1>1, <2>15, <2>18
  <2> QED BY <1>1, <2>8, <2>19, <2>20, <2>21, NothingStored, NoRun
<1> QED BY <1>2, <1>3
-----------------------------------------------------------------------------
(* The theorems                                                             *)

LEMMA SubmissionInvInit == SubmissionInit => SubmissionInv
<1> SUFFICES ASSUME SubmissionInit PROVE SubmissionInv
  OBVIOUS
<1>1. r = [c \in Client |-> Fresh] /\ sources = {} /\ runs = {} /\ roots = {}
  BY DEF SubmissionInit
<1>2. Fresh \in Request /\ Fresh.outs = <<>> /\ Fresh.decision.file = FALSE /\ Fresh.pc = "idle"
  BY FreshFacts
<1>3. Stops(Fresh.outs)
  BY <1>2 DEF Stops
<1>4. Local(Fresh) /\ Linked(Fresh)
  BY <1>2, <1>3 DEF Local, Linked, Active, Checked, Sourced, Evidence
<1>5. Accepted(Fresh.outs) = {}
  BY <1>2 DEF Accepted
<1>6. ASSUME NEW c \in Client PROVE Reported(c)
  <2>1. Made(c) = {}
    BY <1>1 DEF Made
  <2> QED BY <1>1, <1>5, <2>1 DEF Reported
<1>7. SourcesOK
  BY <1>1, FS_EmptySet DEF SourcesOK, OneSourcePerUrl
<1>8. RunsOK
  BY <1>1 DEF RunsOK, RunMatchesSource, FileIsNotCrawled
<1> QED BY <1>1, <1>2, <1>4, <1>6, <1>7, <1>8 DEF SubmissionInv

LEMMA SubmissionInvStep ==
  ASSUME SubmissionAssumption, SubmissionInv, [SubmissionNext]_submissionVars
  PROVE  SubmissionInv'
<1>1. CASE UNCHANGED submissionVars
  <2>1. UNCHANGED <<r, sources, runs, roots>>
    BY <1>1 DEF submissionVars, durable
  <2>2. /\ (\A c \in Client : Linked(r[c]))'
        /\ (\A c \in Client : Reported(c))'
        /\ SourcesOK' /\ RunsOK'
    BY <2>1 DEF SubmissionInv, Linked, Reported, Made, SourcesOK, RunsOK, OneSourcePerUrl,
                RunMatchesSource, FileIsNotCrawled
  <2> QED BY <2>1, <2>2 DEF SubmissionInv
<1>2. ASSUME NEW c \in Client, Step(c) PROVE SubmissionInv'
  BY <1>2, CheckItemKeeps, CreateOrReuseKeeps, MarkFileAssetKeeps, CreateRunKeeps, ResolveKeeps,
     ProbeHeadKeeps, ProbeGetKeeps, ProbeFailsKeeps DEF Step
<1> QED BY <1>1, <1>2, AcceptKeeps, DatabaseFailsKeeps, ClientDropsKeeps DEF SubmissionNext

LEMMA SubmissionInvImplies ==
  ASSUME SubmissionInv
  PROVE  SubmissionsAgree /\ ClassificationIsSound
<1>1. OneSourcePerUrl /\ RunMatchesSource /\ FileIsNotCrawled
  BY DEF SubmissionInv, SourcesOK, RunsOK
<1>2. \A c \in Client : Local(r[c])
  BY DEF SubmissionInv
<1>3. OutcomesMatchRuns
  <2>1. roots = {run.by : run \in runs}
    BY DEF SubmissionInv, RunsOK
  <2>2. \A c \in Client : r[c].pc = "done" => Len(r[c].outs) = Len(r[c].items)
    BY <1>2 DEF Local
  <2>3. \A c \in Client : Reported(c)
    BY DEF SubmissionInv
  <2> QED BY <2>1, <2>2, <2>3 DEF OutcomesMatchRuns, Reported, Made, Accepted
<1>4. BatchStopsAtFailure
  BY <1>2 DEF Local, Stops, BatchStopsAtFailure
<1>5. ProbesPublicAddresses
  BY <1>2 DEF Local, Checked, Sourced, ProbesPublicAddresses
<1>6. FileNeedsEvidence
  BY <1>2 DEF Local, Evidence, FileNeedsEvidence
<1> QED BY <1>1, <1>3, <1>4, <1>5, <1>6 DEF SubmissionsAgree, ClassificationIsSound

LEMMA SubmissionInvAlways ==
  ASSUME SubmissionAssumption
  PROVE  SubmissionSpec => []SubmissionInv
<1>1. SubmissionInit => SubmissionInv
  BY SubmissionInvInit
<1>2. SubmissionInv /\ [SubmissionNext]_submissionVars => SubmissionInv'
  BY SubmissionInvStep
<1> QED BY <1>1, <1>2, PTL DEF SubmissionSpec

\* Whatever the clients submit, at once and however spelled, and whichever
\* calls fail: a canonical URL has one Source, a run is about the Source it
\* names, an answer reports what was left behind, and a batch stops where the
\* system failed (create_or_reuse_in_transaction,
\* create_quick_scrape_run_with_root_job, submit_quick_scrape_batch).
THEOREM SubmissionsStayAgreed ==
  ASSUME SubmissionAssumption
  PROVE  SubmissionSpec => []SubmissionsAgree
<1>1. SubmissionInv => SubmissionsAgree
  BY SubmissionInvImplies
<1> QED BY <1>1, SubmissionInvAlways, PTL

\* A target is a file only on evidence that agrees, a file is never sent to the
\* provider as a page, and the probe connects only to public addresses that
\* were checked (classify_prefix, validate_and_resolve).
THEOREM ClassificationStaysSound ==
  ASSUME SubmissionAssumption
  PROVE  SubmissionSpec => []ClassificationIsSound
<1>1. SubmissionInv => ClassificationIsSound
  BY SubmissionInvImplies
<1> QED BY <1>1, SubmissionInvAlways, PTL
=============================================================================
