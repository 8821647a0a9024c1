------------------------------ MODULE Mailbox -------------------------------
(***************************************************************************)
(* What a parker pair promises: a one-place mailbox.  Notifications that   *)
(* arrive before the consumer takes one coalesce, but taking it delivers   *)
(* what every producer had published before its own unpark.                *)
(***************************************************************************)
EXTENDS Naturals

CONSTANTS Producers, MaxWrites

VARIABLES
  pending,                    \* a notification has not been taken yet
  offered,                    \* per producer: writes before its last unpark
  delivered,                  \* per producer: writes the consumer may rely on
  client                      \* the consumer's current or last park call

vars == <<pending, offered, delivered, client>>

Ops == {"park", "park_until_notified", "park_timeout", "park_until_notified_timeout"}

TimedOps == {"park_timeout", "park_until_notified_timeout"}

\* What an operation may return when it has taken no notification.
GiveUps(op) ==
  CASE op = "park" -> {"Unclassified"}
    [] op = "park_until_notified" -> {}
    [] op = "park_timeout" -> {"Unclassified", "TimedOut"}
    [] op = "park_until_notified_timeout" -> {"TimedOut"}

Init ==
  /\ pending = FALSE
  /\ offered = [p \in Producers |-> 0]
  /\ delivered = [p \in Producers |-> 0]
  /\ client = [state |-> "idle", op |-> "park", result |-> "none"]

\* A call is "parked" until it returns, and "expired" once its deadline is reached.
Parked == client.state \in {"parked", "expired"}

Returned(result) == [state |-> "idle", op |-> client.op, result |-> result]

Park(op) ==
  /\ ~Parked
  /\ client' = [state |-> "parked", op |-> op, result |-> "none"]
  /\ UNCHANGED <<pending, offered, delivered>>

Unpark(p, n) ==
  /\ n >= offered[p]
  /\ pending' = TRUE
  /\ offered' = [offered EXCEPT ![p] = n]
  /\ UNCHANGED <<delivered, client>>

Expire ==
  /\ client.state = "parked"
  /\ client.op \in TimedOps
  /\ client' = [state |-> "expired", op |-> client.op, result |-> client.result]
  /\ UNCHANGED <<pending, offered, delivered>>

\* The waiting consumer sees the notification before it takes it.
Observe ==
  /\ Parked
  /\ pending
  /\ delivered' = offered
  /\ UNCHANGED <<pending, offered, client>>

Notified ==
  /\ Parked
  /\ pending
  /\ pending' = FALSE
  /\ delivered' = offered
  /\ client' = Returned("Notified")
  /\ UNCHANGED offered

\* A call never gives up while a notification is pending.
GiveUp(result) ==
  /\ Parked
  /\ ~pending
  /\ result \in GiveUps(client.op)
  /\ result = "TimedOut" => client.state = "expired"
  /\ client' = Returned(result)
  /\ UNCHANGED <<pending, offered, delivered>>

TimeOut == client.state = "expired" /\ \E r \in {"Unclassified", "TimedOut"} : GiveUp(r)

Next ==
  \/ \E op \in Ops : Park(op)
  \/ \E p \in Producers, n \in 0..MaxWrites : Unpark(p, n)
  \/ Expire
  \/ Observe
  \/ Notified
  \/ \E r \in {"Unclassified", "TimedOut"} : GiveUp(r)

\* A pending notification ends the call, and so does an expired deadline.
Fairness ==
  /\ WF_vars(Notified)
  /\ WF_vars(Expire)
  /\ WF_vars(TimeOut \/ Notified)

Spec == Init /\ [][Next]_vars
=============================================================================
