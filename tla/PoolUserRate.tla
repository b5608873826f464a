---------------------------- MODULE PoolUserRate ----------------------------
(***************************************************************************)
(* The rates of handle resolutions and failure reports that a registrar    *)
(* allows a pool user (rspregistrar-security.c): a list of the pool users  *)
(* it has heard of (pooluserlist-template_impl.h), each with a hash table  *)
(* of time stamps per kind of request (timestamphashtable.c).              *)
(*                                                                         *)
(* A pool user is the association its requests come from.  A request has   *)
(* the hash value of its pool handle.  A node is never removed from the    *)
(* list before the registrar ends.                                         *)
(***************************************************************************)
EXTENDS Integers, Sequences

CONSTANTS PoolUser,         \* (socket descriptor, association) pairs
          HashValue,        \* values of computePHPEHash
          Buckets,          \* TSHT_BUCKETS
          MaxEntries,       \* TSHT_ENTRIES
          MaxRate,          \* MaxHRRate, MaxEURate: requests per RateTime
          RateTime,
          MaxTime,          \* bound of the clock
          MaxRequests       \* bound of the requests

ASSUME PoolUserRateAssumption ==
  /\ HashValue \subseteq Nat
  /\ {Buckets, MaxEntries, MaxRate, RateTime} \subseteq Nat \ {0}
  /\ {MaxTime, MaxRequests} \subseteq Nat

Kind == {"HandleResolution", "EndpointUnreachable"}

VARIABLES poolUsers,   \* the hash tables of the nodes in the list
          clock,       \* getMicroTime()
          noted,       \* the requests there were
          permitted    \* the answer to the last one

rateVars == <<poolUsers, clock, noted, permitted>>

\* poolUserNodeNew: tables are made when they are needed.
PoolUserNodeNew == [kind \in Kind |-> <<>>]

\* timeStampHashTableNew, timeStampHashTableClear: no bucket has an entry.
TimeStampHashTableNew == [b \in 0 .. Buckets - 1 |-> <<>>]

BucketOf(hash) == hash % Buckets

\* Mutation of AddTimeStamp: the last entry of a full bucket is replaced.
AddTimeStampAtEnd(bucket, time) ==
  IF bucket # <<>> /\ bucket[Len(bucket)] > time THEN bucket
  ELSE IF Len(bucket) < MaxEntries THEN Append(bucket, time)
  ELSE [bucket EXCEPT ![MaxEntries] = time]

\* timeStampHashTableAddTimeStamp: behind the other ones, in place of the
\* first one when the bucket is full.  A time stamp from before the last one
\* is not added.
AddTimeStamp(bucket, time) ==
  IF bucket # <<>> /\ bucket[Len(bucket)] > time THEN bucket
  ELSE IF Len(bucket) < MaxEntries THEN Append(bucket, time)
  ELSE Append(Tail(bucket), time)

\* timeStampHashTableGetRate, as the number of entries and their duration.
GetRate(bucket) ==
  IF Len(bucket) > 1
    THEN [entries |-> Len(bucket), duration |-> bucket[Len(bucket)] - bucket[1]]
    ELSE [entries |-> 0, duration |-> 1]

\* rate <= threshold, where no duration means an infinite rate.
WithinThreshold(rate) ==
  rate.duration > 0 /\ rate.entries * RateTime <= MaxRate * rate.duration

\* poolUserListAddOrUpdatePoolUserNode: the node that is there, or a new one.
PoolUserNode(user) ==
  IF user \in DOMAIN poolUsers THEN poolUsers[user] ELSE PoolUserNodeNew

\* poolUserNodeNoteHandleResolution, poolUserNodeNoteEndpointUnreachable.
Note(node, kind, hash) ==
  LET table == IF node[kind] = <<>> THEN TimeStampHashTableNew ELSE node[kind]
  IN  [node EXCEPT ![kind] =
         [table EXCEPT ![BucketOf(hash)] = AddTimeStamp(@, clock)]]

RateInit ==
  /\ poolUsers = [user \in {} |-> PoolUserNodeNew]
  /\ clock = 0
  /\ noted = <<>>
  /\ permitted = TRUE

\* registrarPoolUserHasPermissionFor
HasPermissionFor(user, kind, hash) ==
  LET node == Note(PoolUserNode(user), kind, hash)
  IN  /\ Len(noted) < MaxRequests
      /\ poolUsers' = [u \in DOMAIN poolUsers \cup {user} |->
                         IF u = user THEN node ELSE poolUsers[u]]
      /\ permitted' = WithinThreshold(GetRate(node[kind][BucketOf(hash)]))
      /\ noted' = Append(noted, [user |-> user, kind |-> kind, hash |-> hash, time |-> clock])
      /\ UNCHANGED clock

\* The clock of the system may also be set back.
ClockChanges ==
  /\ Len(noted) < MaxRequests
  /\ clock' \in {clock + 1, clock - 1} \cap 0 .. MaxTime
  /\ UNCHANGED <<poolUsers, noted, permitted>>

RateNext ==
  \/ \E user \in PoolUser, kind \in Kind, hash \in HashValue :
       HasPermissionFor(user, kind, hash)
  \/ ClockChanges

RateSpec == RateInit /\ [][RateNext]_rateVars

-----------------------------------------------------------------------------
(* The requests that are counted together with the last one, and whether   *)
(* the clock has been running forward between them.                        *)

Together(r, last) ==
  /\ r.user = last.user
  /\ r.kind = last.kind
  /\ BucketOf(r.hash) = BucketOf(last.hash)

\* The times of the requests that are counted together with the given one.
TimesOf(requests, last) ==
  LET times[n \in 0 .. Len(requests)] ==
        IF n = 0 THEN <<>>
        ELSE IF Together(requests[n], last) THEN Append(times[n - 1], requests[n].time)
        ELSE times[n - 1]
  IN  times[Len(requests)]

\* The last n elements of a sequence.
LastOf(times, n) ==
  LET skipped == IF Len(times) > n THEN Len(times) - n ELSE 0
  IN  [i \in 1 .. Len(times) - skipped |-> times[skipped + i]]

\* The times of the last n requests that are counted together with the last one.
LastTimes(n) == LastOf(TimesOf(noted, noted[Len(noted)]), n)

ClockForward == \A i, j \in DOMAIN noted : i < j => noted[i].time <= noted[j].time

\* A pool user that leaves twice the time of the threshold between two requests
\* is never refused, whatever else was asked, by others or for pools of other
\* buckets, and however long it has been asking: the rate counts n entries over
\* n - 1 intervals, and so is at most twice the true one.  And the last one of
\* MaxEntries requests that came faster than the threshold is refused, also after
\* any time in which the bucket was filled and its entries were replaced
\* (timeStampHashTableGetRate, timeStampHashTableAddTimeStamp,
\* registrarPoolUserHasPermissionFor).
RateEnforced ==
  noted # <<>> /\ ClockForward =>
    LET times == LastTimes(MaxEntries)
        patient == \A i \in 2 .. Len(times) :
                     (times[i] - times[i - 1]) * MaxRate >= 2 * RateTime
        burst == /\ Len(times) = MaxEntries /\ MaxEntries > 1
                 /\ (times[MaxEntries] - times[1]) * MaxRate < MaxEntries * RateTime
    IN  (patient => permitted) /\ (burst => ~permitted)
=============================================================================
