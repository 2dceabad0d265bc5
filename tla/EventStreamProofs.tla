-------------------------- MODULE EventStreamProofs ---------------------------
(***************************************************************************)
(* Theorems about module EventStream, for any sessions, streams, handlers  *)
(* and timers: the broker's queues and the relays' handlers go with their  *)
(* streams, and every step of the streams is one that EventChannel allows. *)
(*                                                                         *)
(* The refinement rests on one fact (QueueIsRest): what a stream has been  *)
(* sent and what is in its queue make up the log from where it joined.     *)
(***************************************************************************)
EXTENDS EventStream, TLAPS

(* Where a stream or a handler is at work, it has a session; a relay does   *)
(* not greet; and nothing was sent before a stream joined.                  *)
Placed ==
  /\ \A x \in Streams : pc[x] \in {"greeted"} \cup Open => at[x] \in Sessions
  /\ \A h \in Handlers : handler[h] = "running" => at[h] \in Sessions
  /\ \A r \in Relays : pc[r] # "greeted"
  /\ \A x \in Streams : pc[x] \in {"new", "greeted"} => got[x] = <<>>

(* The queue of a stream is what its session's log has beyond what the      *)
(* stream was sent.                                                         *)
Rest(x) ==
  LET sent == from[x] + Len(got[x])
  IN  /\ Len(log[at[x]]) = sent + Len(queue[x])
      /\ \A i \in 1..Len(queue[x]) : queue[x][i] = log[at[x]][sent + i]

QueueIsRest == \A x \in Streams : pc[x] \in Open => Rest(x)

TableOK ==
  /\ DOMAIN table \subseteq Sessions
  /\ \A s \in DOMAIN table : table[s] \subseteq Streams

(* The types of what streams and handlers share, and of what they do not.   *)
SharedType ==
  /\ TableOK
  /\ queue \in [Streams -> Seq(Events)]
  /\ at \in [Clients -> Sessions \cup {NoSession}]
  /\ pc \in [Streams -> Places]
  /\ handler \in [Handlers -> {"none", "running", "done", "raised", "cancelled"}]
  /\ log \in [Sessions -> Seq(Events)]
  /\ from \in [Streams -> Nat]
  /\ got \in [Streams -> Seq(Events)]

OwnType ==
  /\ events \in [Handlers -> 0..MaxEvents]
  /\ waited \in [Listeners -> Nat]
  /\ idle \in [Listeners -> Nat]
  /\ hearts \in [Listeners -> 0..MaxHearts]
  /\ connected \in [Streams -> BOOLEAN]

Shared ==
  /\ SharedType
  /\ QueueGoesWithStream
  /\ HandlerEndsWithStream
  /\ Placed
  /\ QueueIsRest

Inv == Shared /\ OwnType

-----------------------------------------------------------------------------
(* Lemmas on the broker.                                                    *)

(* A new entry in the table is that of its session, and no other.           *)
LEMMA WithEntryTable ==
  ASSUME TableOK, NEW s \in Sessions, NEW new \in SUBSET Streams, table' = WithEntry(s, new)
  PROVE  TableOK' /\ \A t \in Sessions : Subscribers(t)' = IF t = s THEN new ELSE Subscribers(t)
  BY DEF TableOK, WithEntry, Subscribers

(* So is the removal of one.                                                *)
LEMMA WithoutEntryTable ==
  ASSUME TableOK, NEW s \in Sessions, table' = WithoutEntry(s)
  PROVE  TableOK' /\ \A t \in Sessions : Subscribers(t)' = IF t = s THEN {} ELSE Subscribers(t)
  BY DEF TableOK, WithoutEntry, Subscribers

(* The subscribers of a session are streams.                                *)
LEMMA SubscribersType ==
  ASSUME TableOK, NEW s
  PROVE  Subscribers(s) \in SUBSET Streams
  BY DEF TableOK, Subscribers

(* Registering adds a subscriber to one session.                            *)
LEMMA RegisterTable ==
  ASSUME TableOK, NEW x \in Streams, NEW s \in Sessions, Register(x, s)
  PROVE  /\ TableOK'
         /\ \A t \in Sessions :
              Subscribers(t)' = IF t = s THEN Subscribers(t) \cup {x} ELSE Subscribers(t)
  BY SubscribersType, WithEntryTable DEF Register

(* Unregistering takes it away, with the entry when it was the last.        *)
LEMMA UnregisterTable ==
  ASSUME TableOK, NEW x \in Streams, at[x] \in Sessions, Unregister(x)
  PROVE  /\ TableOK'
         /\ \A t \in Sessions :
              Subscribers(t)' = IF t = at[x] THEN Subscribers(t) \ {x} ELSE Subscribers(t)
<1> DEFINE s    == at[x]
           left == Subscribers(s) \ {x}
<1>1. left \in SUBSET Streams
  BY SubscribersType
<1>2. CASE s \notin DOMAIN table
  BY <1>2 DEF Unregister, Subscribers, TableOK
<1>3. CASE s \in DOMAIN table /\ left = {}
  <2>1. table' = WithoutEntry(s)
    BY <1>3 DEF Unregister
  <2> QED BY <1>3, <2>1, WithoutEntryTable
<1>4. CASE s \in DOMAIN table /\ left # {}
  <2>1. table' = WithEntry(s, left)
    BY <1>4 DEF Unregister
  <2> QED BY <1>1, <2>1, WithEntryTable
<1> QED BY <1>2, <1>3, <1>4

(* Publishing changes no subscribers, though it may leave an empty entry.   *)
LEMMA PublishTable ==
  ASSUME TableOK, NEW s \in Sessions, NEW e, Publish(s, e)
  PROVE  TableOK' /\ \A t \in Sessions : Subscribers(t)' = Subscribers(t)
  BY SubscribersType, WithEntryTable DEF Publish

(* A table left alone keeps its subscribers.                                *)
LEMMA SameTable ==
  ASSUME TableOK, UNCHANGED table
  PROVE  TableOK' /\ \A t \in Sessions : Subscribers(t)' = Subscribers(t)
  BY DEF TableOK, Subscribers

-----------------------------------------------------------------------------
(* Lemmas on the refinement mapping.                                        *)

(* A step that moves no stream in or out, and sends nothing, is a stutter   *)
(* of the channel.                                                          *)
LEMMA NothingMoves ==
  ASSUME \A x \in Streams : ChannelState(x)' = ChannelState(x)
                            /\ JoinedSession(x)' = JoinedSession(x),
         UNCHANGED <<log, from, got>>
  PROVE  UNCHANGED Channel!vars
<1>1. [x \in Streams |-> ChannelState(x)]' = [x \in Streams |-> ChannelState(x)]
  OBVIOUS
<1>2. [x \in Streams |-> JoinedSession(x)]' = [x \in Streams |-> JoinedSession(x)]
  OBVIOUS
<1> QED BY <1>1, <1>2 DEF Channel!vars

(* A step of one stream moves no other.                                     *)
LEMMA OneMoves ==
  ASSUME NEW x \in Streams,
         \A y \in Streams \ {x} : pc'[y] = pc[y] /\ at'[y] = at[y]
  PROVE  /\ [y \in Streams |-> ChannelState(y)]'
              = [[y \in Streams |-> ChannelState(y)] EXCEPT ![x] = ChannelState(x)']
         /\ [y \in Streams |-> JoinedSession(y)]'
              = [[y \in Streams |-> JoinedSession(y)] EXCEPT ![x] = JoinedSession(x)']
<1>1. \A y \in Streams \ {x} : ChannelState(y)' = ChannelState(y)
  BY DEF ChannelState
<1>2. \A y \in Streams \ {x} : JoinedSession(y)' = JoinedSession(y)
  BY <1>1 DEF JoinedSession
<1> QED BY <1>1, <1>2

(* What a stream has yet to be sent does not change with what is not its.   *)
LEMMA RestKept ==
  ASSUME NEW x, Rest(x), log' = log, at'[x] = at[x], queue'[x] = queue[x],
         from'[x] = from[x], got'[x] = got[x]
  PROVE  Rest(x)'
  BY DEF Rest

-----------------------------------------------------------------------------
(* What streams do, each of which several actions share.                    *)

(* A stream that only goes on waiting, or to wait, changes nothing.         *)
LEMMA Waits ==
  ASSUME Shared, NEW x \in Streams, pc[x] \in Open, NEW p \in Open,
         pc' = [pc EXCEPT ![x] = p],
         UNCHANGED <<table, queue, at, handler, log, from, got>>
  PROVE  Shared' /\ UNCHANGED Channel!vars
<1>1. SharedType'
  BY DEF Shared, SharedType, TableOK, Places
<1>2. \A y \in Streams : pc'[y] = pc[y] \/ (y = x /\ pc'[y] = p)
  BY DEF Shared, SharedType
<1>3. QueueGoesWithStream'
  <2>1. \A s \in Sessions : Subscribers(s)' = Subscribers(s)
    BY SameTable DEF Shared, SharedType
  <2> QED BY <1>2, <2>1 DEF Shared, QueueGoesWithStream
<1>4. HandlerEndsWithStream' /\ Placed'
  BY <1>2 DEF Shared, HandlerEndsWithStream, Placed, Ended, Open, Streams
<1>5. QueueIsRest'
  BY <1>2, RestKept DEF Shared, QueueIsRest
<1>6. UNCHANGED Channel!vars
  <2>1. \A y \in Streams : ChannelState(y)' = ChannelState(y)
    BY <1>2 DEF ChannelState, Open
  <2>2. \A y \in Streams : JoinedSession(y)' = JoinedSession(y)
    BY <2>1 DEF JoinedSession
  <2> QED BY <2>1, <2>2, NothingMoves
<1> QED BY <1>1, <1>3, <1>4, <1>5, <1>6 DEF Shared

(* A stream that registers joins the log where it is.                       *)
LEMMA Joins ==
  ASSUME Shared, NEW x \in Streams, pc[x] \in {"new", "greeted"}, NEW s \in Sessions,
         Register(x, s), NEW p \in Open, pc' = [pc EXCEPT ![x] = p],
         at' = [at EXCEPT ![x] = s],
         handler' = handler \/ (x \in Relays /\ handler' = [handler EXCEPT ![x] = "running"])
  PROVE  Shared' /\ Channel!Join(x, s)
<1>1. SharedType /\ x \in Clients /\ got[x] = <<>>
  BY DEF Shared, Clients, Placed
<1>2. /\ queue' = [queue EXCEPT ![x] = <<>>]
      /\ from' = [from EXCEPT ![x] = Len(log[s])]
      /\ UNCHANGED <<log, got>>
  BY DEF Register
<1>3. TableOK' /\ \A t \in Sessions :
        Subscribers(t)' = IF t = s THEN Subscribers(t) \cup {x} ELSE Subscribers(t)
  BY <1>1, RegisterTable DEF SharedType
<1>4. Len(log[s]) \in Nat
  BY <1>1 DEF SharedType
<1>5. SharedType'
  <2>1. queue' \in [Streams -> Seq(Events)] /\ from' \in [Streams -> Nat]
    BY <1>1, <1>2, <1>4 DEF SharedType
  <2>2. at' \in [Clients -> Sessions \cup {NoSession}] /\ pc' \in [Streams -> Places]
    BY <1>1 DEF SharedType, Places
  <2>3. handler' \in [Handlers -> {"none", "running", "done", "raised", "cancelled"}]
    BY <1>1 DEF SharedType
  <2> QED BY <1>1, <1>2, <1>3, <2>1, <2>2, <2>3 DEF SharedType
<1>6. /\ pc'[x] = p /\ at'[x] = s /\ queue'[x] = <<>> /\ from'[x] = Len(log[s])
      /\ \A y \in Streams \ {x} : /\ pc'[y] = pc[y] /\ at'[y] = at[y]
                                  /\ queue'[y] = queue[y] /\ from'[y] = from[y]
  BY <1>1, <1>2 DEF SharedType, Clients
<1>7. QueueGoesWithStream'
  BY <1>3, <1>6 DEF Shared, QueueGoesWithStream, Open
<1>8. HandlerEndsWithStream'
  <2>1. \A r \in Relays \ {x} : handler'[r] = handler[r]
    BY <1>1 DEF SharedType, Handlers
  <2>2. p \notin Ended
    BY DEF Open, Ended
  <2> QED BY <1>6, <2>1, <2>2 DEF Shared, HandlerEndsWithStream, Streams
<1>9. Placed'
  <2>1. \A h \in Handlers \ {x} : handler'[h] = handler[h] /\ at'[h] = at[h]
    BY <1>1 DEF SharedType, Handlers, Clients, Streams
  <2>2. p # "new" /\ p # "greeted"
    BY DEF Open
  <2> QED BY <1>2, <1>6, <2>1, <2>2 DEF Shared, Placed, Streams
<1>10. QueueIsRest'
  <2>1. Rest(x)'
    BY <1>1, <1>2, <1>4, <1>6 DEF Rest
  <2>2. \A y \in Streams \ {x} : pc'[y] \in Open => Rest(y)'
    BY <1>2, <1>6, RestKept DEF Shared, QueueIsRest
  <2> QED BY <2>1, <2>2 DEF QueueIsRest
<1>11. Channel!Join(x, s)
  <2>1. ChannelState(x) = "out" /\ ChannelState(x)' = "in" /\ JoinedSession(x)' = s
    BY <1>6 DEF ChannelState, JoinedSession, Open
  <2> QED BY <1>2, <1>6, <2>1, OneMoves DEF Channel!Join
<1> QED BY <1>5, <1>7, <1>8, <1>9, <1>10, <1>11 DEF Shared

(* A stream that is sent the next event of its queue carries it.            *)
LEMMA Carries ==
  ASSUME Shared, NEW x \in Streams, pc[x] \in Open, Carry(x), NEW p \in Open,
         pc' = [pc EXCEPT ![x] = p], UNCHANGED <<at, handler>>
  PROVE  Shared' /\ Channel!Carry(x)
<1> DEFINE q == queue[x]
           g == got[x]
           s == at[x]
<1>1. SharedType /\ s \in Sessions /\ Rest(x)
  BY DEF Shared, Placed, QueueIsRest
<1>2. q \in Seq(Events) /\ g \in Seq(Events) /\ q # <<>> /\ from[x] \in Nat
        /\ log[s] \in Seq(Events)
  BY <1>1 DEF SharedType, Carry
<1>3. /\ queue' = [queue EXCEPT ![x] = Tail(q)]
      /\ got' = [got EXCEPT ![x] = Append(g, Head(q))]
      /\ UNCHANGED <<table, log, from>>
  BY <1>1 DEF Carry, SharedType
<1> HIDE DEF q, g, s
<1>4. /\ Tail(q) \in Seq(Events) /\ Len(Tail(q)) = Len(q) - 1 /\ Len(q) \in Nat \ {0}
      /\ \A i \in 1..Len(Tail(q)) : Tail(q)[i] = q[i + 1]
      /\ Head(q) \in Events /\ Head(q) = q[1]
  BY <1>2
<1>5. Append(g, Head(q)) \in Seq(Events) /\ Len(Append(g, Head(q))) = Len(g) + 1 /\ Len(g) \in Nat
  BY <1>2, <1>4
<1>6. /\ pc'[x] = p /\ queue'[x] = Tail(q) /\ got'[x] = Append(g, Head(q))
      /\ \A y \in Streams \ {x} : /\ pc'[y] = pc[y]
                                  /\ queue'[y] = queue[y] /\ got'[y] = got[y]
  BY <1>1, <1>3 DEF SharedType
<1>7. SharedType'
  <2>1. TableOK'
    BY <1>1, <1>3, SameTable DEF SharedType
  <2>2. pc' \in [Streams -> Places]
    BY <1>1 DEF SharedType, Places
  <2> QED BY <1>1, <1>3, <1>4, <1>5, <2>1, <2>2 DEF SharedType
<1>8. QueueGoesWithStream'
  <2>1. \A t \in Sessions : Subscribers(t)' = Subscribers(t)
    BY <1>1, <1>3, SameTable DEF SharedType
  <2> QED BY <1>6, <2>1 DEF Shared, QueueGoesWithStream
<1>9. HandlerEndsWithStream' /\ Placed'
  <2>1. p \notin Ended /\ p \notin {"new", "greeted"}
    BY DEF Open, Ended
  <2>2. \A y \in Streams : pc'[y] = pc[y] \/ (y = x /\ pc'[y] = p)
    BY <1>6
  <2> QED BY <1>6, <2>1, <2>2 DEF Shared, HandlerEndsWithStream, Placed, Streams
<1>10. /\ Len(log[s]) = from[x] + Len(g) + Len(q)
       /\ \A i \in 1..Len(q) : q[i] = log[s][from[x] + Len(g) + i]
  BY <1>1 DEF Rest, q, g, s
<1>11. QueueIsRest'
  <2> DEFINE sent == from[x] + Len(g)
             next == from[x] + Len(Append(g, Head(q)))
  <2>1. sent \in Nat /\ next = sent + 1
    <3>1. from[x] \in Nat /\ Len(g) \in Nat
      BY <1>2, <1>5
    <3> QED BY <1>5, <3>1
  <2>2. Len(log[s]) = next + Len(Tail(q))
    BY <1>4, <1>10, <2>1
  <2>3. ASSUME NEW i \in 1..Len(Tail(q))
        PROVE  Tail(q)[i] = log[s][next + i]
    <3>1. i + 1 \in 1..Len(q) /\ sent + (i + 1) = next + i
      <4>1. i \in Nat /\ i + 1 \in 1..Len(q)
        BY <1>4
      <4> HIDE DEF sent, next
      <4>2. sent + (i + 1) = next + i
        BY <2>1, <4>1
      <4> QED BY <4>1, <4>2
    <3>2. q[i + 1] = log[s][sent + (i + 1)]
      <4> DEFINE j == i + 1
      <4>1. j \in 1..Len(q)
        BY <3>1
      <4> HIDE DEF j
      <4>2. q[j] = log[s][sent + j]
        BY <1>10, <4>1
      <4> QED BY <4>2 DEF j
    <3> QED BY <1>4, <3>1, <3>2
  <2>4. Rest(x)'
    BY <1>3, <1>6, <2>2, <2>3 DEF Rest, s
  <2>5. \A y \in Streams \ {x} : pc'[y] \in Open => Rest(y)'
    BY <1>3, <1>6, RestKept DEF Shared, QueueIsRest
  <2> QED BY <2>4, <2>5 DEF QueueIsRest
<1>12. Channel!Carry(x)
  <2>1. ChannelState(x) = "in" /\ ChannelState(x)' = "in"
    BY <1>6 DEF ChannelState, Open
  <2>2. JoinedSession(x) = s /\ JoinedSession(x)' = s
    BY <2>1 DEF JoinedSession, s
  <2>3. /\ [y \in Streams |-> ChannelState(y)]' = [y \in Streams |-> ChannelState(y)]
        /\ [y \in Streams |-> JoinedSession(y)]' = [y \in Streams |-> JoinedSession(y)]
    BY <1>6, <2>1, <2>2, OneMoves
  <2>4. Channel!Behind(x) > 0
    <3>1. Channel!Behind(x) = Len(log[s]) - (from[x] + Len(g))
      BY <2>2 DEF Channel!Behind, g
    <3> QED BY <1>2, <1>4, <1>5, <1>10, <3>1
  <2>5. Head(q) = log[s][from[x] + Len(g) + 1]
    BY <1>4, <1>10
  <2>6. got' = [got EXCEPT ![x] = Append(@, log[s][from[x] + Len(@) + 1])]
    BY <1>3, <2>5 DEF g
  <2> QED BY <1>3, <2>1, <2>2, <2>3, <2>4, <2>6 DEF Channel!Carry
<1> QED BY <1>7, <1>8, <1>9, <1>11, <1>12 DEF Shared

(* A stream that unregisters is over, and so is its handler.                *)
LEMMA Leaves ==
  ASSUME Shared, NEW x \in Streams, pc[x] \in Open, Unregister(x),
         NEW p \in {"complete", "dropped", "cut"}, pc' = [pc EXCEPT ![x] = p],
         UNCHANGED <<at, log, from, got>>,
         handler' \in {handler, HandlerCancelled(x)},
         x \in Relays => handler'[x] # "running"
  PROVE  /\ Shared'
         /\ p = "complete" /\ queue[x] = <<>> => Channel!Complete(x)
         /\ p # "complete" => Channel!Drop(x)
<1>1. SharedType /\ at[x] \in Sessions
  BY DEF Shared, Placed
<1>2. TableOK' /\ \A t \in Sessions :
        Subscribers(t)' = IF t = at[x] THEN Subscribers(t) \ {x} ELSE Subscribers(t)
  BY <1>1, UnregisterTable DEF SharedType
<1>3. queue' = [queue EXCEPT ![x] = <<>>]
  BY DEF Unregister
<1>4. /\ pc'[x] = p
      /\ \A y \in Streams \ {x} : pc'[y] = pc[y] /\ queue'[y] = queue[y]
  BY <1>1, <1>3 DEF SharedType
<1>5. \A h \in Handlers : handler'[h] = handler[h] \/ handler'[h] = "cancelled"
  BY <1>1 DEF HandlerCancelled, SharedType
<1>6. SharedType'
  <2>1. queue' \in [Streams -> Seq(Events)]
    <3>1. <<>> \in Seq(Events)
      OBVIOUS
    <3> QED BY <1>1, <1>3, <3>1 DEF SharedType
  <2>2. pc' \in [Streams -> Places]
    BY <1>1 DEF SharedType, Places, Ended
  <2>3. handler' \in [Handlers -> {"none", "running", "done", "raised", "cancelled"}]
    BY <1>1 DEF SharedType, HandlerCancelled
  <2> QED BY <1>1, <1>2, <2>1, <2>2, <2>3 DEF SharedType
<1>7. QueueGoesWithStream'
  BY <1>2, <1>4 DEF Shared, QueueGoesWithStream, Open
<1>8. HandlerEndsWithStream'
  <2>1. ASSUME NEW r \in Relays, pc'[r] \in Ended
        PROVE  handler'[r] # "running"
    <3>1. CASE r = x
      BY <3>1
    <3>2. CASE r # x
      BY <1>4, <1>5, <2>1, <3>2 DEF Shared, HandlerEndsWithStream, Streams, Handlers
    <3> QED BY <3>1, <3>2
  <2> QED BY <2>1 DEF HandlerEndsWithStream
<1>9. Placed'
  <2>1. p # "new" /\ p # "greeted" /\ p \notin Open
    BY DEF Open
  <2>2. \A h \in Handlers : handler'[h] = "running" => handler[h] = "running"
    BY <1>5
  <2>3. \A y \in Streams : pc'[y] = pc[y] \/ (y = x /\ pc'[y] = p)
    BY <1>4
  <2> QED BY <2>1, <2>2, <2>3 DEF Shared, Placed, Streams
<1>10. QueueIsRest'
  <2>1. pc'[x] \notin Open
    BY <1>4 DEF Open
  <2>2. \A y \in Streams \ {x} : pc'[y] \in Open => Rest(y)'
    BY <1>4, RestKept DEF Shared, QueueIsRest
  <2> QED BY <2>1, <2>2 DEF QueueIsRest
<1>11. ChannelState(x) = "in" /\ JoinedSession(x) = at[x] /\ JoinedSession(x)' = at[x]
  BY <1>4 DEF ChannelState, JoinedSession, Open
<1>12. [y \in Streams |-> JoinedSession(y)]' = [y \in Streams |-> JoinedSession(y)]
  BY <1>4, <1>11, OneMoves
<1>13. [y \in Streams |-> ChannelState(y)]'
         = [[y \in Streams |-> ChannelState(y)] EXCEPT ![x] = ChannelState(x)']
  BY <1>4, OneMoves
<1>14. ASSUME p = "complete", queue[x] = <<>>
       PROVE  Channel!Complete(x)
  <2>1. ChannelState(x)' = "complete"
    BY <1>4, <1>14 DEF ChannelState, Open
  <2>2. Channel!Behind(x) = 0
    <3>1. Channel!Behind(x) = Len(log[at[x]]) - (from[x] + Len(got[x]))
      BY <1>11 DEF Channel!Behind
    <3>2. Len(log[at[x]]) = from[x] + Len(got[x]) + 0
      BY <1>14 DEF Shared, QueueIsRest, Rest
    <3>3. from[x] \in Nat /\ Len(got[x]) \in Nat
      BY <1>1 DEF SharedType
    <3> QED BY <3>1, <3>2, <3>3
  <2> QED BY <1>11, <1>12, <1>13, <2>1, <2>2 DEF Channel!Complete
<1>15. ASSUME p # "complete"
       PROVE  Channel!Drop(x)
  <2>1. ChannelState(x)' = "dropped"
    BY <1>4, <1>15 DEF ChannelState, Open
  <2> QED BY <1>11, <1>12, <1>13, <2>1 DEF Channel!Drop
<1> QED BY <1>6, <1>7, <1>8, <1>9, <1>10, <1>14, <1>15 DEF Shared

-----------------------------------------------------------------------------
(* What handlers do.                                                        *)

(* An event that is published is put behind what the subscribers of its     *)
(* session have yet to be sent.                                             *)
LEMMA Publishes ==
  ASSUME Shared, NEW s \in Sessions, NEW e \in Events, Publish(s, e),
         UNCHANGED <<at, pc, handler>>
  PROVE  Shared' /\ Channel!Publish(s, e)
<1>1. SharedType
  BY DEF Shared
<1>2. TableOK' /\ \A t \in Sessions : Subscribers(t)' = Subscribers(t)
  BY <1>1, PublishTable DEF SharedType
<1>3. /\ queue' = [x \in Streams |-> IF x \in Subscribers(s) THEN Append(queue[x], e)
                                                           ELSE queue[x]]
      /\ log' = [log EXCEPT ![s] = Append(@, e)]
      /\ UNCHANGED <<from, got>>
  BY DEF Publish
<1>4. SharedType'
  <2>1. queue' \in [Streams -> Seq(Events)] /\ log' \in [Sessions -> Seq(Events)]
    BY <1>1, <1>3 DEF SharedType
  <2> QED BY <1>1, <1>2, <1>3, <2>1 DEF SharedType
<1>5. QueueGoesWithStream' /\ HandlerEndsWithStream' /\ Placed'
  BY <1>2, <1>3 DEF Shared, QueueGoesWithStream, HandlerEndsWithStream, Placed
<1>6. ASSUME NEW x \in Streams, pc[x] \in Open
      PROVE  Rest(x)'
  <2>1. at[x] \in Sessions /\ Rest(x)
    BY <1>6 DEF Shared, Placed, QueueIsRest
  <2>2. CASE at[x] # s
    <3>1. x \notin Subscribers(s)
      BY <2>2 DEF Shared, QueueGoesWithStream
    <3>2. queue'[x] = queue[x] /\ log'[at[x]] = log[at[x]]
      BY <1>1, <1>3, <2>1, <2>2, <3>1 DEF SharedType
    <3> QED BY <1>3, <2>1, <3>2 DEF Rest
  <2>3. CASE at[x] = s
    <3> DEFINE q == queue[x]
               l == log[s]
               sent == from[x] + Len(got[x])
    <3>1. x \in Subscribers(s)
      BY <1>6, <2>3 DEF Shared, QueueGoesWithStream
    <3>2. q \in Seq(Events) /\ l \in Seq(Events) /\ sent \in Nat
      BY <1>1 DEF SharedType
    <3>3. queue'[x] = Append(q, e) /\ log'[s] = Append(l, e)
      BY <1>1, <1>3, <3>1 DEF SharedType
    <3>4. Len(l) = sent + Len(q) /\ \A i \in 1..Len(q) : q[i] = l[sent + i]
      BY <2>1, <2>3 DEF Rest
    <3> HIDE DEF q, l, sent
    <3>5. Len(Append(l, e)) = sent + Len(Append(q, e))
      BY <3>2, <3>4
    <3>6. ASSUME NEW i \in 1..Len(Append(q, e))
          PROVE  Append(q, e)[i] = Append(l, e)[sent + i]
      <4>1. i \in 1..Len(q) \/ i = Len(q) + 1
        <5>1. Len(Append(q, e)) = Len(q) + 1 /\ Len(q) \in Nat
          BY <3>2
        <5> QED BY <5>1
      <4>2. CASE i \in 1..Len(q)
        <5>1. sent + i \in 1..Len(l)
          BY <3>2, <3>4, <4>2
        <5>2. q[i] = l[sent + i]
          BY <3>4, <4>2
        <5> DEFINE j == sent + i
        <5> HIDE DEF j
        <5>3. Append(l, e)[j] = l[j]
          BY <3>2, <5>1 DEF j
        <5>4. Append(q, e)[i] = q[i]
          BY <3>2, <4>2
        <5> QED BY <5>2, <5>3, <5>4 DEF j
      <4>3. CASE i = Len(q) + 1
        <5>1. sent + i = Len(l) + 1
          BY <3>2, <3>4, <4>3
        <5>2. Append(q, e)[Len(q) + 1] = e /\ Append(l, e)[Len(l) + 1] = e
          BY <3>2
        <5> QED BY <4>3, <5>1, <5>2
      <4> QED BY <4>1, <4>2, <4>3
    <3> QED BY <1>3, <2>3, <3>3, <3>5, <3>6 DEF Rest, sent
  <2> QED BY <2>2, <2>3
<1>7. QueueIsRest'
  BY <1>6 DEF QueueIsRest
<1>8. Channel!Publish(s, e)
  <2>1. \A x \in Streams : ChannelState(x)' = ChannelState(x)
    BY DEF ChannelState
  <2>2. \A x \in Streams : JoinedSession(x)' = JoinedSession(x)
    BY <2>1 DEF JoinedSession
  <2>3. /\ [x \in Streams |-> ChannelState(x)]' = [x \in Streams |-> ChannelState(x)]
        /\ [x \in Streams |-> JoinedSession(x)]' = [x \in Streams |-> JoinedSession(x)]
    BY <2>1, <2>2
  <2> QED BY <1>3, <2>3 DEF Channel!Publish
<1> QED BY <1>4, <1>5, <1>7, <1>8 DEF Shared

(* A handler that starts within a request, or ends, moves no stream.        *)
LEMMA HandlerChanges ==
  ASSUME Shared, NEW h \in Handlers, NEW s \in Sessions \cup {NoSession},
         NEW v \in {"running", "done", "raised"},
         handler' = [handler EXCEPT ![h] = v],
         at' = at \/ (h \in Posts /\ s \in Sessions /\ at' = [at EXCEPT ![h] = s]),
         v = "running" => at'[h] \in Sessions /\ h \in Posts,
         UNCHANGED <<table, queue, pc, log, from, got>>
  PROVE  Shared' /\ UNCHANGED Channel!vars
<1>1. SharedType /\ (h \in Posts => h \notin Streams)
  BY StreamsAssumption DEF Shared
<1>2. \A x \in Streams : at'[x] = at[x]
  BY <1>1 DEF SharedType, Clients
<1>3. \A g \in Handlers \ {h} : handler'[g] = handler[g] /\ at'[g] = at[g]
  BY <1>1 DEF SharedType, Clients, Handlers, Streams
<1>4. handler'[h] = v
  BY <1>1 DEF SharedType
<1>5. TableOK' /\ \A t \in Sessions : Subscribers(t)' = Subscribers(t)
  BY <1>1, SameTable DEF SharedType
<1>6. SharedType'
  <2>1. h \in Clients
    BY DEF Handlers, Clients, Streams
  <2> QED BY <1>1, <1>5, <2>1 DEF SharedType
<1>7. QueueGoesWithStream'
  BY <1>2, <1>5 DEF Shared, QueueGoesWithStream
<1>8. HandlerEndsWithStream'
  <2>1. Relays \subseteq Handlers /\ Relays \subseteq Streams
    BY DEF Handlers, Streams
  <2> QED BY <1>1, <1>3, <1>4, <2>1 DEF Shared, HandlerEndsWithStream
<1>9. Placed'
  <2>1. ASSUME NEW g \in Handlers, handler'[g] = "running"
        PROVE  at'[g] \in Sessions
    BY <1>3, <1>4, <2>1 DEF Shared, Placed
  <2> QED BY <1>2, <2>1 DEF Shared, Placed
<1>10. QueueIsRest'
  BY <1>2, RestKept DEF Shared, QueueIsRest
<1>11. UNCHANGED Channel!vars
  <2>1. \A x \in Streams : ChannelState(x)' = ChannelState(x)
    BY DEF ChannelState
  <2>2. \A x \in Streams : JoinedSession(x)' = JoinedSession(x)
    BY <1>2, <2>1 DEF JoinedSession
  <2> QED BY <2>1, <2>2, NothingMoves
<1> QED BY <1>6, <1>7, <1>8, <1>9, <1>10, <1>11 DEF Shared

-----------------------------------------------------------------------------
(* Listeners that are not, or no longer, subscribed.                        *)

(* A stream that is out, or was cut, moves between places where it has no   *)
(* queue; it joins no log, and drops out of it at most.                     *)
LEMMA MovesOutside ==
  ASSUME Shared, NEW l \in Listeners, NEW s \in Sessions \cup {NoSession},
         \/ pc[l] = "new" /\ pc' = [pc EXCEPT ![l] = "greeted"]
              /\ s \in Sessions /\ at' = [at EXCEPT ![l] = s]
         \/ pc[l] = "cut" /\ pc' = [pc EXCEPT ![l] = "dropped"] /\ at' = at
         \/ pc[l] = "greeted" /\ pc' = [pc EXCEPT ![l] = "dropped"]
              /\ at' = [at EXCEPT ![l] = NoSession],
         UNCHANGED <<table, queue, handler, log, from, got>>
  PROVE  Shared' /\ [Channel!Next]_(Channel!vars)
<1>1. SharedType /\ l \in Streams /\ l \in Clients /\ l \notin Handlers /\ l \notin Relays
  BY StreamsAssumption DEF Shared, Streams, Clients, Handlers
<1>2. \A x \in Streams \ {l} : pc'[x] = pc[x] /\ at'[x] = at[x]
  BY <1>1 DEF SharedType, Clients
<1>3. TableOK' /\ \A t \in Sessions : Subscribers(t)' = Subscribers(t)
  BY <1>1, SameTable DEF SharedType
<1>4. pc[l] \notin Open /\ pc'[l] \notin Open
  BY <1>1 DEF SharedType, Open
<1>5. SharedType'
  BY <1>1, <1>3 DEF SharedType, Places, Ended
<1>6. QueueGoesWithStream'
  BY <1>2, <1>3, <1>4 DEF Shared, QueueGoesWithStream
<1>7. HandlerEndsWithStream'
  BY <1>1, <1>2 DEF Shared, HandlerEndsWithStream, Streams
<1>8. Placed'
  <2>1. \A h \in Handlers : at'[h] = at[h]
    BY <1>1 DEF SharedType, Handlers, Clients, Streams
  <2>2. pc'[l] = "greeted" => at'[l] \in Sessions
    BY <1>1 DEF SharedType
  <2>3. pc'[l] \in {"new", "greeted"} => got[l] = <<>>
    BY <1>1 DEF SharedType, Shared, Placed
  <2> QED BY <1>1, <1>2, <1>4, <2>1, <2>2, <2>3 DEF Shared, Placed, Streams
<1>9. QueueIsRest'
  BY <1>2, <1>4, RestKept DEF Shared, QueueIsRest
<1>10. ASSUME pc[l] # "greeted"
       PROVE  UNCHANGED Channel!vars
  <2>1. ChannelState(l)' = ChannelState(l)
    BY <1>1, <1>10 DEF SharedType, ChannelState, Open
  <2>2. JoinedSession(l)' = JoinedSession(l)
    BY <1>1, <1>10, <2>1 DEF SharedType, ChannelState, JoinedSession, Open
  <2>3. /\ [x \in Streams |-> ChannelState(x)]' = [x \in Streams |-> ChannelState(x)]
        /\ [x \in Streams |-> JoinedSession(x)]' = [x \in Streams |-> JoinedSession(x)]
    BY <1>1, <1>2, <2>1, <2>2, OneMoves
  <2> QED BY <2>3 DEF Channel!vars
<1>11. ASSUME pc[l] = "greeted"
       PROVE  Channel!Drop(l)
  <2>1. pc'[l] = "dropped" /\ at'[l] = NoSession
    BY <1>1, <1>11 DEF SharedType
  <2>2. ChannelState(l) = "out" /\ ChannelState(l)' = "dropped"
    BY <1>11, <2>1 DEF ChannelState, Open
  <2>3. JoinedSession(l) = NoSession /\ JoinedSession(l)' = NoSession
    BY <2>1, <2>2 DEF JoinedSession
  <2>4. [x \in Streams |-> JoinedSession(x)]' = [x \in Streams |-> JoinedSession(x)]
    BY <1>1, <1>2, <2>3, OneMoves
  <2>5. [x \in Streams |-> ChannelState(x)]'
          = [[x \in Streams |-> ChannelState(x)] EXCEPT ![l] = "dropped"]
    BY <1>1, <1>2, <2>2, OneMoves
  <2> QED BY <1>1, <2>2, <2>4, <2>5 DEF Channel!Drop
<1>12. [Channel!Next]_(Channel!vars)
  BY <1>1, <1>10, <1>11 DEF Channel!Next
<1> QED BY <1>5, <1>6, <1>7, <1>8, <1>9, <1>12 DEF Shared

-----------------------------------------------------------------------------
(* Each action preserves the invariant, and is a step of the channel or     *)
(* none.                                                                    *)

Good == Inv' /\ [Channel!Next]_(Channel!vars)

(* So are the arrivals, events and ends of handlers.                        *)
LEMMA HandlerActions ==
  ASSUME Inv,
         \/ \E p \in Posts, s \in Sessions : PostArrives(p, s)
         \/ \E h \in Handlers : HandlerPublishes(h) \/ HandlerEnds(h)
  PROVE  Good
<1>1. Shared /\ SharedType /\ OwnType
  BY DEF Inv, Shared
<1>2. ASSUME NEW p \in Posts, NEW s \in Sessions, PostArrives(p, s)
      PROVE  Good
  <2>1. p \in Handlers /\ p \in Clients
    BY DEF Handlers, Clients
  <2>2. /\ at' = [at EXCEPT ![p] = s] /\ at'[p] \in Sessions
        /\ handler' = [handler EXCEPT ![p] = "running"]
        /\ UNCHANGED <<table, queue, pc, events, clocks, connected, log, from, got>>
    BY <1>1, <1>2, <2>1 DEF PostArrives, SharedType
  <2>3. Shared' /\ UNCHANGED Channel!vars
    BY <1>1, <2>1, <2>2, HandlerChanges
  <2>4. OwnType'
    BY <1>1, <2>2 DEF OwnType, clocks
  <2> QED BY <2>3, <2>4 DEF Good, Inv
<1>3. ASSUME NEW h \in Handlers, HandlerPublishes(h)
      PROVE  Good
  <2> DEFINE s == at[h]
             n == events[h] + 1
             e == <<h, n>>
  <2>1. s \in Sessions
    BY <1>1, <1>3 DEF HandlerPublishes, Shared, Placed
  <2>2. n \in 1..MaxEvents
    BY <1>1, <1>3, BoundsAssumption DEF HandlerPublishes, OwnType
  <2>3. e \in Events
    BY <2>2 DEF Events
  <2>4. Publish(s, e) /\ events' = [events EXCEPT ![h] = n]
          /\ UNCHANGED <<at, pc, handler, clocks, connected>>
    BY <1>3 DEF HandlerPublishes
  <2> HIDE DEF e, n, s
  <2>5. Shared' /\ Channel!Publish(s, e)
    BY <1>1, <2>1, <2>3, <2>4, Publishes
  <2>6. OwnType'
    <3>1. n \in 0..MaxEvents
      BY <2>2
    <3> QED BY <1>1, <2>4, <3>1 DEF OwnType, clocks
  <2> QED BY <2>1, <2>3, <2>5, <2>6 DEF Good, Inv, Channel!Next
<1>4. ASSUME NEW h \in Handlers, HandlerEnds(h)
      PROVE  Good
  <2>1. PICK v \in {"done", "raised"} : handler' = [handler EXCEPT ![h] = v]
    BY <1>4 DEF HandlerEnds
  <2>2. UNCHANGED <<table, queue, at, pc, events, clocks, connected, log, from, got>>
    BY <1>4 DEF HandlerEnds
  <2>3. Shared' /\ UNCHANGED Channel!vars
    BY <1>1, <2>1, <2>2, HandlerChanges
  <2>4. OwnType'
    BY <1>1, <2>2 DEF OwnType, clocks
  <2> QED BY <2>3, <2>4 DEF Good, Inv
<1> QED BY <1>2, <1>3, <1>4

(* The steps of a relay.                                                    *)
LEMMA RelayActions ==
  ASSUME Inv, NEW r \in Relays,
         RelayStep(r) \/ \E s \in Sessions : OpenRelay(r, s)
  PROVE  Good
<1>1. Shared /\ SharedType /\ OwnType /\ r \in Streams
  BY DEF Inv, Shared, Streams
<1>2. ASSUME NEW s \in Sessions, OpenRelay(r, s)
      PROVE  Good
  <2>1. "check" \in Open
    BY DEF Open
  <2>2. Shared' /\ Channel!Join(r, s)
    BY <1>1, <1>2, <2>1, Joins DEF OpenRelay
  <2>3. OwnType'
    BY <1>1, <1>2 DEF OwnType, clocks, OpenRelay
  <2> QED BY <1>1, <2>2, <2>3 DEF Good, Inv, Channel!Next
<1>3. ASSUME RelayChecks(r), Finished(r)
      PROVE  Good
  <2>1. pc[r] \in Open /\ handler[r] # "running" /\ queue[r] = <<>>
    BY <1>3 DEF RelayChecks, Open, Finished
  <2>2. Unregister(r) /\ pc' = [pc EXCEPT ![r] = "complete"]
          /\ UNCHANGED <<at, handler, events, clocks, connected, log, from, got>>
    BY <1>3 DEF RelayChecks
  <2>3. Shared' /\ Channel!Complete(r)
    BY <1>1, <2>1, <2>2, Leaves
  <2>4. OwnType'
    BY <1>1, <2>2 DEF OwnType, clocks
  <2> QED BY <1>1, <2>3, <2>4 DEF Good, Inv, Channel!Next
<1>4. ASSUME RelayTakes(r)
      PROVE  Good
  <2>1. pc[r] \in Open /\ "check" \in Open
    BY <1>4 DEF RelayTakes, Open
  <2>2. Shared' /\ Channel!Carry(r)
    BY <1>1, <1>4, <2>1, Carries DEF RelayTakes
  <2>3. OwnType'
    BY <1>1, <1>4 DEF OwnType, clocks, RelayTakes
  <2> QED BY <1>1, <2>2, <2>3 DEF Good, Inv, Channel!Next
<1>5. ASSUME RelayTimesOut(r) \/ (RelayChecks(r) /\ ~Finished(r))
      PROVE  Good
  <2>1. PICK p \in Open : pc' = [pc EXCEPT ![r] = p]
    BY <1>5 DEF RelayTimesOut, RelayChecks, Open
  <2>2. pc[r] \in Open
          /\ UNCHANGED <<table, queue, at, handler, events, clocks, connected, log, from, got>>
    BY <1>5 DEF RelayTimesOut, RelayChecks, Open
  <2>3. Shared' /\ UNCHANGED Channel!vars
    BY <1>1, <2>1, <2>2, Waits
  <2>4. OwnType'
    BY <1>1, <2>2 DEF OwnType, clocks
  <2> QED BY <2>3, <2>4 DEF Good, Inv
<1> QED BY <1>2, <1>3, <1>4, <1>5 DEF RelayStep

(* The steps of a listener.                                                 *)
LEMMA ListenerActions ==
  ASSUME Inv, NEW l \in Listeners,
         \/ \E s \in Sessions : OpenListener(l, s)
         \/ ListenerStep(l) \/ ListenerBeats(l) \/ ListenerIsCut(l) \/ Tick(l)
  PROVE  Good
<1>1. Shared /\ SharedType /\ OwnType /\ l \in Streams /\ l \notin Relays
  BY StreamsAssumption DEF Inv, Shared, Streams
<1>2. ASSUME NEW s \in Sessions, OpenListener(l, s)
      PROVE  Good
  <2>1. Shared' /\ [Channel!Next]_(Channel!vars)
    BY <1>1, <1>2, MovesOutside DEF OpenListener
  <2>2. OwnType'
    BY <1>1, <1>2 DEF OwnType, clocks, OpenListener
  <2> QED BY <2>1, <2>2 DEF Good, Inv
<1>3. ASSUME ListenerReads(l), pc[l] = "greeted"
      PROVE  Good
  <2> DEFINE s == at[l]
  <2>1. s \in Sessions /\ "get" \in Open
    BY <1>1, <1>3 DEF Shared, Placed, Open
  <2>2. at' = [at EXCEPT ![l] = s]
    BY <1>1, <1>3 DEF ListenerReads, SharedType
  <2>3. Register(l, s) /\ pc' = [pc EXCEPT ![l] = "get"]
          /\ UNCHANGED <<handler, events, clocks, connected>>
    BY <1>3 DEF ListenerReads
  <2> HIDE DEF s
  <2>4. Shared' /\ Channel!Join(l, s)
    BY <1>1, <1>3, <2>1, <2>2, <2>3, Joins
  <2>5. OwnType'
    BY <1>1, <2>3 DEF OwnType, clocks
  <2> QED BY <1>1, <2>1, <2>4, <2>5 DEF Good, Inv, Channel!Next
<1>4. ASSUME ListenerTakes(l)
      PROVE  Good
  <2>1. pc[l] \in Open /\ "check" \in Open
    BY <1>4 DEF ListenerTakes, Open
  <2>2. Shared' /\ Channel!Carry(l)
    BY <1>1, <1>4, <2>1, Carries DEF ListenerTakes
  <2>3. OwnType'
    BY <1>1, <1>4 DEF OwnType, ListenerTakes
  <2> QED BY <1>1, <2>2, <2>3 DEF Good, Inv, Channel!Next
<1>5. ASSUME ListenerStops(l)
      PROVE  Good
  <2>1. Shared' /\ [Channel!Next]_(Channel!vars)
    BY <1>1, <1>5, MovesOutside DEF ListenerStops
  <2>2. OwnType'
    BY <1>1, <1>5 DEF OwnType, clocks, ListenerStops
  <2> QED BY <2>1, <2>2 DEF Good, Inv
<1>6. ASSUME \/ ListenerReads(l) /\ pc[l] = "check"
             \/ ListenerBeats(l) /\ idle[l] < MaxIdle /\ hearts[l] < MaxHearts
                  /\ hearts' = [hearts EXCEPT ![l] = @ + 1]
                  /\ pc' = [pc EXCEPT ![l] = "check"] /\ UNCHANGED <<table, queue>>
             \/ Tick(l)
      PROVE  Good
  <2>1. PICK p \in Open : pc' = [pc EXCEPT ![l] = p]
    <3>1. Tick(l) => pc[l] \in Open /\ pc' = [pc EXCEPT ![l] = pc[l]]
      BY <1>1 DEF Tick, Open, SharedType
    <3> QED BY <1>6, <3>1 DEF ListenerReads, Open
  <2>2. pc[l] \in Open
    BY <1>6 DEF ListenerReads, ListenerBeats, Tick, Open
  <2>3. UNCHANGED <<table, queue, at, handler, log, from, got, events, connected>>
    BY <1>6 DEF ListenerReads, ListenerBeats, Tick
  <2>4. Shared' /\ UNCHANGED Channel!vars
    BY <1>1, <2>1, <2>2, <2>3, Waits
  <2>5. OwnType'
    <3>1. CASE ListenerReads(l)
      BY <1>1, <3>1 DEF OwnType, clocks, ListenerReads
    <3>2. CASE Tick(l)
      BY <1>1, <3>2 DEF OwnType, Tick
    <3>3. CASE ListenerBeats(l) /\ hearts[l] < MaxHearts /\ hearts' = [hearts EXCEPT ![l] = @ + 1]
      <4>1. hearts' \in [Listeners -> 0..MaxHearts]
        <5>1. hearts[l] + 1 \in 0..MaxHearts
          BY <1>1, <3>3, BoundsAssumption DEF OwnType
        <5> QED BY <1>1, <3>3, <5>1 DEF OwnType
      <4> QED BY <1>1, <3>3, <4>1 DEF OwnType, ListenerBeats
    <3> QED BY <1>6, <3>1, <3>2, <3>3
  <2> QED BY <2>4, <2>5 DEF Good, Inv
<1>7. ASSUME \/ ListenerBeats(l) /\ Unregister(l) /\ pc' = [pc EXCEPT ![l] = "dropped"]
                  /\ UNCHANGED hearts
             \/ ListenerIsCut(l)
      PROVE  Good
  <2>1. PICK p \in {"dropped", "cut"} : pc' = [pc EXCEPT ![l] = p]
    BY <1>7 DEF ListenerIsCut
  <2>2. pc[l] \in Open /\ Unregister(l)
          /\ UNCHANGED <<at, handler, events, idle, hearts, connected, log, from, got>>
    BY <1>7 DEF ListenerBeats, ListenerIsCut, Open
  <2>3. Shared' /\ Channel!Drop(l)
    BY <1>1, <2>1, <2>2, Leaves
  <2>4. OwnType'
    <3>1. waited' = [waited EXCEPT ![l] = 0]
      BY <1>7 DEF ListenerBeats, ListenerIsCut
    <3> QED BY <1>1, <2>2, <3>1 DEF OwnType
  <2> QED BY <1>1, <2>3, <2>4 DEF Good, Inv, Channel!Next
<1>8. ListenerReads(l) => pc[l] \in {"greeted", "check"}
  BY DEF ListenerReads
<1>9. ASSUME ListenerBeats(l)
      PROVE  Good
  BY <1>6, <1>7, <1>9 DEF ListenerBeats
<1> QED BY <1>2, <1>3, <1>4, <1>5, <1>6, <1>7, <1>8, <1>9 DEF ListenerStep

(* And those of a client that goes away.                                    *)
LEMMA ClientActions ==
  ASSUME Inv, NEW x \in Streams, Disconnect(x) \/ StreamDropped(x)
  PROVE  Good
<1>1. Shared /\ SharedType /\ OwnType
  BY DEF Inv, Shared
<1>2. ASSUME Disconnect(x)
      PROVE  Good
  <2>1. UNCHANGED <<table, queue, at, pc, handler, events, clocks, log, from, got>>
          /\ connected' = [connected EXCEPT ![x] = FALSE]
    BY <1>2 DEF Disconnect
  <2>2. Shared'
    BY <1>1, <2>1 DEF Shared, SharedType, TableOK, QueueGoesWithStream, Subscribers,
                      HandlerEndsWithStream, Placed, QueueIsRest, Rest
  <2>3. UNCHANGED Channel!vars
    <3>1. \A y \in Streams : ChannelState(y)' = ChannelState(y)
      BY <2>1 DEF ChannelState
    <3>2. \A y \in Streams : JoinedSession(y)' = JoinedSession(y)
      BY <2>1, <3>1 DEF JoinedSession
    <3> QED BY <2>1, <3>1, <3>2, NothingMoves
  <2>4. OwnType'
    BY <1>1, <2>1 DEF OwnType, clocks
  <2> QED BY <2>2, <2>3, <2>4 DEF Good, Inv
<1>3. ASSUME StreamDropped(x), pc[x] \in Open
      PROVE  Good
  <2>1. Unregister(x) /\ pc' = [pc EXCEPT ![x] = "dropped"] /\ handler' = HandlerCancelled(x)
          /\ UNCHANGED <<at, events, clocks, connected, log, from, got>>
    BY <1>3 DEF StreamDropped
  <2>2. x \in Relays => handler'[x] # "running"
    BY <1>1, <2>1 DEF HandlerCancelled, SharedType, Handlers
  <2>3. Shared' /\ Channel!Drop(x)
    BY <1>1, <1>3, <2>1, <2>2, Leaves
  <2>4. OwnType'
    BY <1>1, <2>1 DEF OwnType, clocks
  <2> QED BY <2>3, <2>4 DEF Good, Inv, Channel!Next
<1>4. ASSUME StreamDropped(x), pc[x] \notin Open
      PROVE  Good
  <2>1. pc[x] = "greeted" /\ at' = [at EXCEPT ![x] = NoSession]
          /\ pc' = [pc EXCEPT ![x] = "dropped"] /\ handler' = HandlerCancelled(x)
          /\ UNCHANGED <<table, queue, events, clocks, connected, log, from, got>>
    BY <1>4 DEF StreamDropped
  <2>2. x \in Listeners /\ handler' = handler
    BY <1>1, <2>1 DEF Shared, Placed, Streams, HandlerCancelled
  <2>3. Shared' /\ [Channel!Next]_(Channel!vars)
    BY <1>1, <2>1, <2>2, MovesOutside
  <2>4. OwnType'
    BY <1>1, <2>1 DEF OwnType, clocks
  <2> QED BY <2>3, <2>4 DEF Good, Inv
<1> QED BY <1>2, <1>3, <1>4

(* At first no stream is open, and the channel is empty.                    *)
LEMMA InitGood == Init => Inv /\ Channel!Init
<1> SUFFICES ASSUME Init PROVE Inv /\ Channel!Init
  OBVIOUS
<1>1. SharedType
  BY DEF Init, SharedType, TableOK, Places
<1>2. OwnType
  BY BoundsAssumption DEF Init, OwnType
<1>3. \A x \in Streams : pc[x] = "new" /\ got[x] = <<>>
  BY DEF Init
<1>4. QueueGoesWithStream /\ HandlerEndsWithStream /\ Placed /\ QueueIsRest
  <2>1. \A h \in Handlers : handler[h] = "none"
    BY DEF Init
  <2>2. \A s \in Sessions : Subscribers(s) = {}
    BY DEF Init, Subscribers
  <2> QED BY <1>3, <2>1, <2>2
        DEF QueueGoesWithStream, HandlerEndsWithStream, Placed, QueueIsRest, Open, Ended, Streams
<1>5. Channel!Init
  <2>1. \A x \in Streams : ChannelState(x) = "out" /\ JoinedSession(x) = NoSession
    BY <1>3 DEF ChannelState, JoinedSession, Open
  <2> QED BY <2>1 DEF Init, Channel!Init
<1> QED BY <1>1, <1>2, <1>4, <1>5 DEF Inv, Shared

(* Every step preserves the invariant, and is one of the channel or none.   *)
LEMMA NextGood == Inv /\ [Next]_vars => Inv' /\ [Channel!Next]_(Channel!vars)
<1> SUFFICES ASSUME Inv, [Next]_vars PROVE Good
  BY DEF Good
<1>1. CASE UNCHANGED vars
  <2>1. Inv'
    BY <1>1 DEF vars, Inv, OwnType, Shared, SharedType, TableOK, QueueGoesWithStream,
                Subscribers, HandlerEndsWithStream, Placed, QueueIsRest, Rest
  <2>2. UNCHANGED Channel!vars
    <3>1. \A y \in Streams : ChannelState(y)' = ChannelState(y)
      BY <1>1 DEF ChannelState, vars
    <3>2. \A y \in Streams : JoinedSession(y)' = JoinedSession(y)
      BY <1>1, <3>1 DEF JoinedSession, vars
    <3> QED BY <1>1, <3>1, <3>2, NothingMoves DEF vars
  <2> QED BY <2>1, <2>2 DEF Good
<1>2. CASE Next
  BY <1>2, HandlerActions, RelayActions, ListenerActions, ClientActions DEF Next
<1> QED BY <1>1, <1>2

-----------------------------------------------------------------------------
(* The theorems.                                                            *)

(* The invariant holds in every state of every behaviour.                   *)
THEOREM Invariance == Spec => []Inv
  BY InitGood, NextGood, PTL DEF Spec

(* The broker's table and the state of streams and handlers keep to the     *)
(* values the code can give them.                                           *)
THEOREM TypeCorrect == Spec => []TypeOK
<1>1. Inv => TypeOK
  BY DEF Inv, Shared, SharedType, TableOK, OwnType, TypeOK
<1> QED BY <1>1, Invariance, PTL

(* The broker has a queue of a stream exactly as long as the stream reads   *)
(* it, however streams, handlers, timers and clients interleave.            *)
THEOREM QueuesGoWithStreams == Spec => []QueueGoesWithStream
<1>1. Inv => QueueGoesWithStream
  BY DEF Inv, Shared
<1> QED BY <1>1, Invariance, PTL

(* No handler that was started for a stream runs on when the stream is over *)
(* or was dropped.                                                          *)
THEOREM HandlersEndWithStreams == Spec => []HandlerEndsWithStream
<1>1. Inv => HandlerEndsWithStream
  BY DEF Inv, Shared
<1> QED BY <1>1, Invariance, PTL

(* The streams implement the channel, but for its fairness: what they carry *)
(* is, in order and without a gap, what was published since they joined,    *)
(* and all of it when they complete.                                        *)
THEOREM StreamsAreChannels == Spec => Channel!Init /\ [][Channel!Next]_(Channel!vars)
  BY InitGood, NextGood, Invariance, PTL DEF Spec
=============================================================================
