----------------------------- MODULE EventChannel -----------------------------
(***************************************************************************)
(* What the event broker and the streaming endpoints promise together: a   *)
(* session is a log of events, and a stream of the session carries, in     *)
(* order and without a gap, the events from where it joined the log. A     *)
(* stream that completes has carried all of them.                          *)
(***************************************************************************)
EXTENDS Naturals, Sequences

CONSTANTS
  Sessions,  \* session ids
  Streams,   \* the streams clients open
  Events,    \* events of tasks
  NoSession  \* the session of a stream that has not joined

VARIABLES
  log,    \* the events published in each session
  state,  \* of each stream: "out", "in", "complete" or "dropped"
  joined, \* the session each stream joined
  from,   \* the length of that session's log when it did
  got     \* the events each stream has carried

vars == <<log, state, joined, from, got>>

Init ==
  /\ log = [s \in Sessions |-> <<>>]
  /\ state = [x \in Streams |-> "out"]
  /\ joined = [x \in Streams |-> NoSession]
  /\ from = [x \in Streams |-> 0]
  /\ got = [x \in Streams |-> <<>>]

\* The number of events a stream that is in has yet to carry.
Behind(x) == Len(log[joined[x]]) - (from[x] + Len(got[x]))

Publish(s, e) ==
  /\ log' = [log EXCEPT ![s] = Append(@, e)]
  /\ UNCHANGED <<state, joined, from, got>>

Join(x, s) ==
  /\ state[x] = "out"
  /\ state' = [state EXCEPT ![x] = "in"]
  /\ joined' = [joined EXCEPT ![x] = s]
  /\ from' = [from EXCEPT ![x] = Len(log[s])]
  /\ UNCHANGED <<log, got>>

Carry(x) ==
  /\ state[x] = "in"
  /\ Behind(x) > 0
  /\ got' = [got EXCEPT ![x] = Append(@, log[joined[x]][from[x] + Len(@) + 1])]
  /\ UNCHANGED <<log, state, joined, from>>

Complete(x) ==
  /\ state[x] = "in"
  /\ Behind(x) = 0
  /\ state' = [state EXCEPT ![x] = "complete"]
  /\ UNCHANGED <<log, joined, from, got>>

\* The client goes away, before or after it joined.
Drop(x) ==
  /\ state[x] \in {"out", "in"}
  /\ state' = [state EXCEPT ![x] = "dropped"]
  /\ UNCHANGED <<log, joined, from, got>>

Next ==
  \/ \E s \in Sessions, e \in Events : Publish(s, e)
  \/ \E x \in Streams, s \in Sessions : Join(x, s)
  \/ \E x \in Streams : Carry(x) \/ Complete(x) \/ Drop(x)

\* A stream that stays in goes on carrying what it is behind with.
Fairness == \A x \in Streams : WF_vars(Carry(x))

Spec == Init /\ [][Next]_vars /\ Fairness
=============================================================================
