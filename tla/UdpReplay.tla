------------------------------ MODULE UdpReplay ------------------------------
(***************************************************************************)
(* Replay protection of native UDP, from an authenticated datagram to the  *)
(* decision to forward it: the timestamp check of the codec, the sequence  *)
(* window of a session (frame.ReplayWindow), the admission of a session's  *)
(* 10-second timestamp buckets in the durable replay cache                 *)
(* (UDPReplayWindow), and the two tables that create and expire sessions:  *)
(* PlainUDPServer's (read loop, worker, cleaner) and the one of the Xray   *)
(* inbound (udpReplayRegistry).  The sequence window is FrameWindow's.     *)
(*                                                                         *)
(* The network loses, reorders, delays and repeats datagrams.  Time is in  *)
(* seconds.  Whether other sessions fill the table to its limit is an      *)
(* input (full).  The replay cache is represented by what it promises      *)
(* (ReplayGuard): a bucket is admitted once per CacheWindow, over restarts *)
(* too.                                                                    *)
(***************************************************************************)
EXTENDS FrameWindow, Sequences

CONSTANTS Sessions,     \* user and session id
          Skew,         \* MaxTimestampSkew
          Bucket,       \* UDPReplayBucketSeconds
          CacheWindow,  \* 2 * MaxClockSkew
          Idle,         \* the cleaner's 60 seconds
          Retention,    \* udpReplayRetention
          MaxSeq,       \* bound: datagrams a session sends
          MaxQueue,     \* bound: a worker's queue
          MaxTime       \* bound: the clock stops here

ASSUME UdpReplayAssumption ==
  /\ Skew \in Nat /\ Bucket \in Nat \ {0}
  /\ Idle \in Nat /\ Idle >= 2 * Skew
  /\ Retention \in Nat /\ Retention >= 2 * Skew
  /\ CacheWindow \in Nat /\ CacheWindow >= 2 * Skew + Bucket
  /\ MaxSeq \in Nat /\ MaxQueue \in Nat
  /\ MaxTime \in Nat

VARIABLES
  time,
  host,      \* "plain": PlainUDPServer, "xray": udpReplayRegistry
  durable,   \* a replay cache is configured
  sent,      \* datagrams on the network
  queue,     \* queue[s]: decoded datagrams waiting for the session's worker
  holding,   \* holding[s]: the session object the worker has: none, a new
             \* one, one in the table, or one the cleaner closed since
  table,     \* the sessions in the table
  last,      \* last[s]: lastActive, 0 in a new session
  window,    \* window[s]: the session's ReplayWindow
  buckets,   \* buckets[s]: the buckets it admitted, with their expiry
  admitted,  \* the cache: admitted[s][b] is the expiry of the bucket's record
  count      \* history: how often each datagram was forwarded

serving == <<queue, holding, table, last, window, buckets>>
admissionVars == <<time, host, durable, sent, serving, admitted, count>>

Seqs == 1..MaxSeq
Times == 0..(MaxTime + Skew)
Buckets == {t \div Bucket : t \in Times}
Packets == [s : Sessions, seq : Seqs, ts : Times]

\* The clock starts where a lastActive of 0 is long ago.
Start == 1 + IF Idle > Retention THEN Idle ELSE Retention

AdmissionInit ==
  /\ time = Start
  /\ host \in {"plain", "xray"} /\ durable \in BOOLEAN
  /\ sent = {} /\ queue = [s \in Sessions |-> <<>>]
  /\ holding = [s \in Sessions |-> "none"]
  /\ table = {} /\ last = [s \in Sessions |-> 0]
  /\ window = [s \in Sessions |-> NewWindow]
  /\ buckets = [s \in Sessions |-> [b \in Buckets |-> 0]]
  /\ admitted = [s \in Sessions |-> [b \in Buckets |-> 0]]
  /\ count = [p \in Packets |-> 0]

-----------------------------------------------------------------------------
(* UDPReplayWindow.AcceptAuthenticated on a session's state: the outcome,  *)
(* the window, the session's buckets and the cache's record of the bucket. *)

InSkew(ts, now) == now - ts <= Skew /\ ts - now <= Skew

LiveBuckets(known, now) ==
  [b \in Buckets |-> IF known[b] <= now THEN 0 ELSE known[b]]

\* Variant: the cache key names the session but not the bucket.
KeyWithoutBucket(s, b, now, healthy) ==
  healthy /\ \A x \in Buckets : admitted[s][x] <= now

\* ReplayCache.Accept of the bucket's key, or an error of the cache.
CacheAccepts(s, b, now, healthy) == healthy /\ admitted[s][b] <= now

\* Variant: the time of processing is not compared with the timestamp again.
AdmitUnchecked(s, p, known, w, healthy) ==
  LET b == p.ts \div Bucket
      live == LiveBuckets(known, time)
      new == durable /\ live[b] = 0
      pass == ~new \/ CacheAccepts(s, b, time, healthy)
  IN  [ok |-> pass /\ Accepts(w, p.seq),
       w |-> IF pass THEN Accept(w, p.seq) ELSE w,
       known |-> IF ~durable THEN known
                 ELSE IF new /\ pass
                 THEN [live EXCEPT ![b] = time + CacheWindow]
                 ELSE live,
       records |-> IF new /\ pass
                   THEN [admitted[s] EXCEPT ![b] = time + CacheWindow]
                   ELSE admitted[s]]

AcceptAuthenticated(s, p, known, w, healthy) ==
  LET b == p.ts \div Bucket
      live == LiveBuckets(known, time)
      new == durable /\ live[b] = 0
      pass == ~new \/ CacheAccepts(s, b, time, healthy)
  IN  IF ~InSkew(p.ts, time)
      THEN [ok |-> FALSE, w |-> w, known |-> known, records |-> admitted[s]]
      ELSE [ok |-> pass /\ Accepts(w, p.seq),
            w |-> IF pass THEN Accept(w, p.seq) ELSE w,
            known |-> IF ~durable THEN known
                      ELSE IF new /\ pass
                      THEN [live EXCEPT ![b] = time + CacheWindow]
                      ELSE live,
            records |-> IF new /\ pass
                        THEN [admitted[s] EXCEPT ![b] = time + CacheWindow]
                        ELSE admitted[s]]

\* The outcome is applied to the session; an accepted datagram is forwarded.
Decide(s, p, r, past) ==
  /\ window' = [window EXCEPT ![s] = r.w]
  /\ buckets' = [buckets EXCEPT ![s] = r.known]
  /\ admitted' = [admitted EXCEPT ![s] = r.records]
  /\ last' = [last EXCEPT ![s] = IF r.ok THEN time ELSE past]
  /\ count' = [count EXCEPT ![p] = IF r.ok THEN @ + 1 ELSE @]

-----------------------------------------------------------------------------
(* Clients and the network *)

\* Codec.EncodePacket: the sequence number grows with every datagram; the
\* sender's clock is off by up to Skew either way.
EncodePacket(s, ts) ==
  /\ ts \in Times /\ InSkew(ts, time)
  /\ \E n \in Seqs :
       /\ {p.seq : p \in {q \in sent : q.s = s}} = 1..(n - 1)
       /\ sent' = sent \cup {[s |-> s, seq |-> n, ts |-> ts]}
  /\ UNCHANGED <<time, host, durable, serving, admitted, count>>

TimePasses ==
  /\ time < MaxTime
  /\ time' = time + 1
  /\ UNCHANGED <<host, durable, sent, serving, admitted, count>>

-----------------------------------------------------------------------------
(* PlainUDPServer *)

\* The read loop decodes a datagram (Codec.DecodePacket checks its age) and
\* queues it for the session's worker, or drops it when the queue is full.
Receive(p) ==
  /\ host = "plain"
  /\ InSkew(p.ts, time) /\ Len(queue[p.s]) < MaxQueue
  /\ queue' = [queue EXCEPT ![p.s] = Append(@, p)]
  /\ UNCHANGED <<time, host, durable, sent, holding, table, last, window,
                 buckets, admitted, count>>

\* processTask loads the session, or, if there is none, looks at the limit and
\* then stores a new one: workers of other sessions may do the same meanwhile.
FindSession(s, full) ==
  /\ queue[s] # <<>> /\ holding[s] = "none"
  /\ s \in table \/ ~full
  /\ holding' = [holding EXCEPT ![s] = IF s \in table THEN "live" ELSE "new"]
  /\ UNCHANGED <<time, host, durable, sent, queue, table, last, window,
                 buckets, admitted, count>>

StoreSession(s) ==
  /\ holding[s] = "new"
  /\ holding' = [holding EXCEPT ![s] = "live"]
  /\ table' = table \cup {s}
  /\ UNCHANGED <<time, host, durable, sent, queue, last, window, buckets,
                 admitted, count>>

\* The table is full, or the cleaner has closed the session in between.
DropTask(s, full) ==
  /\ queue[s] # <<>>
  /\ \/ holding[s] = "none" /\ s \notin table /\ full
     \/ holding[s] = "closed"
  /\ queue' = [queue EXCEPT ![s] = Tail(@)]
  /\ holding' = [holding EXCEPT ![s] = "none"]
  /\ UNCHANGED <<time, host, durable, sent, table, last, window, buckets,
                 admitted, count>>

\* Under targetMu: the replay decision, then lastActive.
processTask(s, healthy) ==
  LET p == Head(queue[s])
      r == AcceptAuthenticated(s, p, buckets[s], window[s], healthy)
  IN  /\ queue[s] # <<>> /\ holding[s] = "live"
      /\ queue' = [queue EXCEPT ![s] = Tail(@)]
      /\ holding' = [holding EXCEPT ![s] = "none"]
      /\ Decide(s, p, r, last[s])
      /\ UNCHANGED <<time, host, durable, sent, table>>

\* A response of the target also renews lastActive (listenUpstream).
listenUpstream(s) ==
  /\ host = "plain" /\ s \in table /\ last[s] # 0
  /\ last' = [last EXCEPT ![s] = time]
  /\ UNCHANGED <<time, host, durable, sent, queue, holding, table, window,
                 buckets, admitted, count>>

Forget(s) ==
  /\ table' = table \ {s}
  /\ window' = [window EXCEPT ![s] = NewWindow]
  /\ buckets' = [buckets EXCEPT ![s] = [b \in Buckets |-> 0]]
  /\ last' = [last EXCEPT ![s] = 0]

\* TryLock and the second look at lastActive make this one step.
cleaner(s) ==
  /\ host = "plain" /\ s \in table
  /\ time - last[s] > Idle
  /\ Forget(s)
  /\ holding' = [holding EXCEPT ![s] = IF @ = "live" THEN "closed" ELSE @]
  /\ UNCHANGED <<time, host, durable, sent, queue, admitted, count>>

-----------------------------------------------------------------------------
(* The Xray inbound: decoding and decision in one step under the registry's *)
(* mutex                                                                    *)

accept(p, full, healthy) ==
  LET s == p.s
      r == AcceptAuthenticated(s, p, buckets[s], window[s], healthy)
  IN  /\ host = "xray"
      /\ InSkew(p.ts, time) /\ (s \in table \/ ~full)
      /\ table' = table \cup {s}
      /\ Decide(s, p, r, last[s])
      /\ UNCHANGED <<time, host, durable, sent, queue, holding>>

expire(s) ==
  /\ host = "xray" /\ s \in table
  /\ time - last[s] > Retention
  /\ Forget(s)
  /\ UNCHANGED <<time, host, durable, sent, queue, holding, admitted, count>>

\* The process is restarted.  Without a cache nothing is promised beyond it.
Restart ==
  /\ queue' = [s \in Sessions |-> <<>>]
  /\ holding' = [s \in Sessions |-> "none"]
  /\ table' = {} /\ last' = [s \in Sessions |-> 0]
  /\ window' = [s \in Sessions |-> NewWindow]
  /\ buckets' = [s \in Sessions |-> [b \in Buckets |-> 0]]
  /\ count' = IF durable THEN count ELSE [p \in Packets |-> 0]
  /\ UNCHANGED <<time, host, durable, sent, admitted>>

-----------------------------------------------------------------------------
AdmissionNext ==
  \/ TimePasses \/ Restart
  \/ \E s \in Sessions, ts \in Times : EncodePacket(s, ts)
  \/ \E p \in sent : Receive(p)
  \/ \E p \in sent, full, healthy \in BOOLEAN : accept(p, full, healthy)
  \/ \E s \in Sessions, full \in BOOLEAN :
       FindSession(s, full) \/ DropTask(s, full)
  \/ \E s \in Sessions :
       \/ StoreSession(s) \/ listenUpstream(s)
       \/ cleaner(s) \/ expire(s)
       \/ \E healthy \in BOOLEAN : processTask(s, healthy)

AdmissionSpec == AdmissionInit /\ [][AdmissionNext]_admissionVars
-----------------------------------------------------------------------------
(* Properties *)

\* A session that a worker goes on to use is the one in the table.
AdmissionTypes ==
  /\ time \in Nat /\ host \in {"plain", "xray"} /\ durable \in BOOLEAN
  /\ sent \subseteq Packets
  /\ queue \in [Sessions -> Seq(Packets)]
  /\ holding \in [Sessions -> {"none", "new", "live", "closed"}]
  /\ table \subseteq Sessions /\ last \in [Sessions -> Nat]
  /\ window \in [Sessions -> Windows]
  /\ buckets \in [Sessions -> [Buckets -> Nat]]
  /\ admitted \in [Sessions -> [Buckets -> Nat]]
  /\ \A s \in Sessions : holding[s] = "live" => s \in table
  /\ count \in [Packets -> Nat]

\* No datagram is forwarded twice, however often and late it is delivered,
\* while sessions expire and come back and, when the admissions are durable,
\* over restarts (AcceptAuthenticated, the cleaner's and the registry's ages).
NoReplay == \A p \in Packets : count[p] <= 1

\* An association is not locked out by the replay protection: a datagram that
\* arrives fresh, is its session's newest, and whose bucket was not admitted
\* before is forwarded, even just after a restart (the "resumes in the next
\* bucket" of udp_replay_persistent.go).
ResumesNextBucket ==
  [][\A p \in sent :
       /\ \/ processTask(p.s, TRUE) /\ p = Head(queue[p.s])
          \/ accept(p, FALSE, TRUE)
       /\ InSkew(p.ts, time)
       /\ admitted[p.s][p.ts \div Bucket] = 0
       /\ Newer(window[p.s], p.seq)
       => count'[p] = count[p] + 1]_admissionVars
=============================================================================
