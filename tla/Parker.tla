------------------------------- MODULE Parker -------------------------------
(***************************************************************************)
(* The parker pairs of src/parker.rs: one consumer, one producer (Single)  *)
(* or several (Multi), and the coalescing token between them.              *)
(*                                                                         *)
(* Memory model.  All accesses to the token are to one atomic, so they are *)
(* ordered and a load returns the latest value (the instant of a store is  *)
(* when it becomes globally visible).  What Release and Acquire add is     *)
(* which plain writes a reader may rely on: token.released is, for each    *)
(* producer, how many of its writes an Acquire read of the current token   *)
(* value synchronises with.  A plain Release store starts a new release    *)
(* sequence; a read-modify-write continues the current one.                *)
(***************************************************************************)
EXTENDS Naturals

CONSTANTS
  Producers,
  Kind,                       \* "single" or "multi"
  MaxWrites                   \* bound on the payload writes of a producer

ASSUME KindAssumption ==
  /\ Kind \in {"single", "multi"}
  /\ Kind = "single" => \E p \in Producers : Producers = {p}
  /\ MaxWrites \in Nat

EMPTY_TOKEN == 0

NOTIFIED_TOKEN == 1

VARIABLES
  token,                      \* Shared.token and what reading it acquires
  park,                       \* the consumer's current or last park call
  call,                       \* its wait on the strategy
  seen,                       \* the writes the consumer has synchronised with
  written,                    \* payload writes of each producer
  unparked                    \* payload writes before its last unpark

vars == <<token, park, call, seen, written, unparked>>

Wait == INSTANCE WaitContract WITH Values <- {EMPTY_TOKEN, NOTIFIED_TOKEN}, word <- token.value

\* The state of the call, as the mailbox sees it.
Progress ==
  CASE park.pc = "idle" -> "idle"
    [] park.pc \in {"try", "try_cas"} -> "parked"
    [] OTHER -> IF call.deadline = "expired" THEN "expired" ELSE "parked"

Box == INSTANCE Mailbox WITH
  pending <- token.value = NOTIFIED_TOKEN,
  offered <- unparked,
  delivered <- seen,
  client <- [state |-> Progress, op |-> park.op, result |-> park.result]

Views == [Producers -> 0..MaxWrites]

Join(v, w) == [p \in Producers |-> IF v[p] >= w[p] THEN v[p] ELSE w[p]]

ParkOps == {"park", "park_until_notified", "park_timeout", "park_until_notified_timeout"}

\* consumed: the last take_notification of the call succeeded.
Parks ==
  [op : ParkOps, pc : {"idle", "try", "try_cas", "wait", "retry", "retry_cas"},
   result : {"none", "Notified", "Unclassified", "TimedOut"}, consumed : BOOLEAN]

TypeOK ==
  /\ token \in [value : {EMPTY_TOKEN, NOTIFIED_TOKEN}, released : Views]
  /\ park \in Parks
  /\ call \in Wait!Calls
  /\ seen \in Views
  /\ written \in Views
  /\ unparked \in Views

Init ==
  /\ token = [value |-> EMPTY_TOKEN, released |-> [p \in Producers |-> 0]]
  /\ park = [op |-> "park", pc |-> "idle", result |-> "none", consumed |-> FALSE]
  /\ call = Wait!NoCall(EMPTY_TOKEN)
  /\ seen = [p \in Producers |-> 0]
  /\ written = [p \in Producers |-> 0]
  /\ unparked = [p \in Producers |-> 0]

-----------------------------------------------------------------------------
(* Producers.                                                              *)

\* The producer's own plain write of the state it is about to announce.
Write(p) ==
  /\ written[p] < MaxWrites
  /\ written' = [written EXCEPT ![p] = @ + 1]
  /\ UNCHANGED <<token, park, call, seen, unparked>>

\* SingleUnparker: a Release store heads a new release sequence.
ReleaseStore(p) ==
  token' = [value |-> NOTIFIED_TOKEN,
            released |-> [q \in Producers |-> IF q = p THEN written[p] ELSE 0]]

\* MultiUnparker: a Release fetch_or continues the one it finds.
ReleaseFetchOr(p) ==
  token' = [value |-> NOTIFIED_TOKEN, released |-> [token.released EXCEPT ![p] = written[p]]]

\* Mutant of PublishToken: several producers share the plain store.
PublishTokenAsStore(p) == ReleaseStore(p)

\* Mutant of PublishToken: the token toggles.
PublishTokenFetchXor(p) ==
  token' = [value |-> 1 - token.value, released |-> [token.released EXCEPT ![p] = written[p]]]

PublishToken(p) == IF Kind = "single" THEN ReleaseStore(p) ELSE ReleaseFetchOr(p)

Unpark(p) ==
  /\ PublishToken(p)
  /\ unparked' = [unparked EXCEPT ![p] = written[p]]
  /\ UNCHANGED <<park, call, seen, written>>

-----------------------------------------------------------------------------
(* take_notification.                                                      *)

TakeSucceeds ==
  /\ token' = [token EXCEPT !.value = EMPTY_TOKEN]
  /\ seen' = Join(seen, token.released)
  /\ park' = [park EXCEPT !.pc = "idle", !.result = "Notified", !.consumed = TRUE]
  /\ UNCHANGED <<call, written, unparked>>

\* The Relaxed load sees the token; the Acquire compare_exchange takes it.
TakeLoadsNotified(from, cas) ==
  /\ park.pc = from
  /\ token.value = NOTIFIED_TOKEN
  /\ park' = [park EXCEPT !.pc = cas]
  /\ UNCHANGED <<token, call, seen, written, unparked>>

Take(from) ==
  /\ park.pc = from
  /\ token.value = NOTIFIED_TOKEN
  /\ TakeSucceeds

\* take_notification returns false: at the load, or because the exchange fails.
TakeFails(load, cas) ==
  /\ park.pc \in {load, cas}
  /\ token.value # NOTIFIED_TOKEN

-----------------------------------------------------------------------------
(* The consumer.                                                           *)

Park(op) ==
  /\ park.pc = "idle"
  /\ park' = [op |-> op, pc |-> "try", result |-> "none", consumed |-> FALSE]
  /\ UNCHANGED <<token, call, seen, written, unparked>>

TryLoad == TakeLoadsNotified("try", "try_cas")

TryTake == Take("try_cas")

WaitOp(op) ==
  CASE op = "park" -> "wait_if_equal"
    [] op = "park_until_notified" -> "wait_until_different"
    [] op = "park_timeout" -> "wait_if_equal_timeout"
    [] op = "park_until_notified_timeout" -> "wait_until_different_timeout"

StartWait ==
  /\ TakeFails("try", "try_cas")
  /\ UNCHANGED <<token, seen, written, unparked>>
  /\ park' = [park EXCEPT !.pc = "wait"]
  /\ \E d \in Wait!DeadlinesOf(WaitOp(park.op)) :
       Wait!Begin(WaitOp(park.op), EMPTY_TOKEN, d)

\* An Acquire load inside the strategy finds the token empty.
WaitObservesEmpty ==
  /\ park.pc = "wait"
  /\ UNCHANGED <<token, park, seen, written, unparked>>
  /\ Wait!ObserveEqual

WaitExpires ==
  /\ park.pc = "wait"
  /\ UNCHANGED <<token, park, seen, written, unparked>>
  /\ Wait!Expire

\* An Acquire load inside the strategy finds the token set.
WaitReturnsChanged ==
  /\ park.pc = "wait"
  /\ UNCHANGED <<token, written, unparked>>
  /\ Wait!ReturnChanged
  /\ seen' = Join(seen, token.released)
  /\ park' = [park EXCEPT !.pc = "retry"]

\* Mutant of WaitReturnsTimedOut: the wait is taken up again with the same deadline.
WaitReturnsTimedOutRetries ==
  /\ park.pc = "wait"
  /\ call.equal /\ call.deadline = "expired"
  /\ call' = [call EXCEPT !.equal = FALSE]
  /\ UNCHANGED <<token, park, seen, written, unparked>>

WaitReturnsTimedOut ==
  /\ park.pc = "wait"
  /\ UNCHANGED <<token, seen, written, unparked>>
  /\ Wait!ReturnTimedOut
  /\ park' = [park EXCEPT !.pc = "retry"]

WaitReturnsUnclassified ==
  /\ park.pc = "wait"
  /\ UNCHANGED <<token, seen, written, unparked>>
  /\ Wait!ReturnUnclassified
  /\ park' = [park EXCEPT !.pc = "retry"]

RetryLoad == TakeLoadsNotified("retry", "retry_cas")

RetryTake == Take("retry_cas")

\* What the call returns when the take after the wait fails; park_until_notified
\* and the Changed arm of its timed form ignore that outside debug builds.
ResultWithoutToken ==
  CASE park.op = "park" -> "Unclassified"
    [] park.op = "park_until_notified" -> "Notified"
    [] park.op = "park_timeout" ->
         IF call.result = "TimedOut" THEN "TimedOut" ELSE "Unclassified"
    [] park.op = "park_until_notified_timeout" ->
         IF call.result = "TimedOut" THEN "TimedOut" ELSE "Notified"

\* Mutant of GiveUp: the timeout is reported without the final token check.
GiveUpWithoutFinalCheck ==
  /\ park.pc = "retry"
  /\ call.result = "TimedOut" \/ token.value # NOTIFIED_TOKEN
  /\ park' = [park EXCEPT !.pc = "idle", !.result = ResultWithoutToken]
  /\ UNCHANGED <<token, call, seen, written, unparked>>

GiveUp ==
  /\ TakeFails("retry", "retry_cas")
  /\ park' = [park EXCEPT !.pc = "idle", !.result = ResultWithoutToken]
  /\ UNCHANGED <<token, call, seen, written, unparked>>

-----------------------------------------------------------------------------
\* The consumer's own instructions, its deadline aside.
Consume ==
  \/ TryLoad \/ TryTake \/ StartWait
  \/ WaitReturnsChanged
  \/ RetryLoad \/ RetryTake \/ GiveUp

Next ==
  \/ \E p \in Producers : Write(p) \/ Unpark(p)
  \/ \E op \in ParkOps : Park(op)
  \/ Consume
  \/ WaitObservesEmpty
  \/ WaitExpires
  \/ WaitReturnsTimedOut
  \/ WaitReturnsUnclassified

Spec == Init /\ [][Next]_vars

\* What WaitContract!Fairness gives the wait, and a scheduled consumer.
FairSpec ==
  /\ Spec
  /\ WF_vars(Consume)
  /\ WF_vars(WaitObservesEmpty \/ WaitReturnsChanged)
  /\ WF_vars(WaitExpires)
  /\ WF_vars(WaitReturnsTimedOut)

-----------------------------------------------------------------------------
(* Properties.                                                             *)

(***************************************************************************)
(* Once the consumer has emptied the token it has synchronised with every  *)
(* completed unpark, the coalesced ones of other producers included: no    *)
(* notification, and nothing published before it, is lost (the comment in  *)
(* MultiUnparker::unpark).                                                 *)
(***************************************************************************)
EmptyMeansSynchronised ==
  token.value = EMPTY_TOKEN => \A p \in Producers : seen[p] >= unparked[p]

(***************************************************************************)
(* debug_assert!(consumed): a wait that has observed the token finds it    *)
(* still there, so Notified is returned only by a call that consumed it.   *)
(***************************************************************************)
NotifiedMeansConsumed ==
  park.result = "Notified" => park.consumed

(***************************************************************************)
(* "If a producer publishes at the timeout boundary, one final token check *)
(* decides the result without losing that notification": a call that       *)
(* returned TimedOut had no token pending when its deadline was reached,   *)
(* although the strategy it waits on gives no such guarantee.              *)
(***************************************************************************)
BoundaryNotificationWins ==
  park.result = "TimedOut" => ~call.changedAtExpiry

(***************************************************************************)
(* A parker pair is a one-place mailbox: every call returns what Mailbox   *)
(* allows, and gives up only while nothing is pending.                     *)
(***************************************************************************)
ImplementsMailbox == Box!Spec

(***************************************************************************)
(* A parked call ends once a notification is pending, with no help from a  *)
(* deadline, and a timed call ends once its deadline has passed, whatever  *)
(* the wait, the two takes and the producers do in the meantime.           *)
(***************************************************************************)
KeepsMailboxPromises == Box!Fairness
=============================================================================
