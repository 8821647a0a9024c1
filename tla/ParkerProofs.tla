---------------------------- MODULE ParkerProofs ----------------------------
(***************************************************************************)
(* Proofs about Parker for any set of producers, either kind of pair and   *)
(* any number of payload writes.                                           *)
(***************************************************************************)
EXTENDS Parker, TLAPS

USE DEF EMPTY_TOKEN, NOTIFIED_TOKEN

\* An Acquire read of the token synchronises with every completed unpark.
ReleasedInv == token.released = unparked

\* The consumer is never ahead of the producers, and level with them on EMPTY.
SeenInv ==
  \A p \in Producers :
    /\ unparked[p] <= written[p]
    /\ seen[p] <= unparked[p]
    /\ token.value = EMPTY_TOKEN => seen[p] = unparked[p]

\* What the consumer knows about the token at each point of a park call.
ParkInv ==
  /\ park.pc = "wait" => /\ call.status = "waiting"
                         /\ call.result = "none"
                         /\ call.expected = EMPTY_TOKEN
                         /\ call.op = WaitOp(park.op)
  /\ park.pc # "wait" => call.status = "returned"
  /\ park.pc \in {"retry", "retry_cas"} =>
       /\ call.op = WaitOp(park.op)
       /\ call.result # "none"
       /\ call.op \in Wait!FilteredOps => call.result # "Unclassified"
       /\ call.result = "Changed" => token.value = NOTIFIED_TOKEN
       /\ call.result = "TimedOut" => call.deadline = "expired"
  /\ park.pc \in {"wait", "retry", "retry_cas"} =>
       /\ call.changedAtExpiry => token.value = NOTIFIED_TOKEN
       /\ call.deadline = "none" \/ park.op \in Box!TimedOps
  /\ park.pc \in {"try_cas", "retry_cas"} => token.value = NOTIFIED_TOKEN
  /\ park.pc # "idle" => park.result = "none"

IInv ==
  /\ TypeOK
  /\ ReleasedInv
  /\ SeenInv
  /\ ParkInv
  /\ NotifiedMeansConsumed
  /\ BoundaryNotificationWins

-----------------------------------------------------------------------------
\* The bound on payload writes, without the rest of KindAssumption.
LEMMA MaxWritesNat == MaxWrites \in Nat
  BY KindAssumption

\* Joining two views of the producers' writes gives a view.
LEMMA JoinViews == ASSUME NEW v \in Views, NEW w \in Views PROVE Join(v, w) \in Views
  BY DEF Views, Join

\* take_notification keeps the types when it succeeds.
LEMMA TakeTyping == TypeOK /\ TakeSucceeds => TypeOK'
<1> SUFFICES ASSUME TypeOK, TakeSucceeds PROVE TypeOK'
  OBVIOUS
<1> USE DEF TypeOK, TakeSucceeds
<1>1. seen' \in Views
  BY JoinViews
<1>2. token' \in [value : {EMPTY_TOKEN, NOTIFIED_TOKEN}, released : Views]
  OBVIOUS
<1>3. park' \in Parks
  BY DEF Parks
<1>4. QED
  BY <1>1, <1>2, <1>3

\* A call that took no token still returns one of the public results.
LEMMA ResultTyping ==
  TypeOK => ResultWithoutToken \in {"Notified", "Unclassified", "TimedOut"}
  BY DEF TypeOK, Parks, ParkOps, ResultWithoutToken

(***************************************************************************)
(* Type correctness: every step keeps the token, the call records and the  *)
(* views in their sets.                                                    *)
(***************************************************************************)
LEMMA Typing == TypeOK /\ ParkInv /\ [Next]_vars => TypeOK'
<1> SUFFICES ASSUME TypeOK, ParkInv, [Next]_vars PROVE TypeOK'
  OBVIOUS
<1> USE KindAssumption DEF TypeOK, Views, Parks, ParkOps, Wait!Calls, Wait!Deadlines
<1>1. ASSUME NEW p \in Producers, Write(p) PROVE TypeOK'
  BY <1>1 DEF Write
<1>2. ASSUME NEW p \in Producers, Unpark(p) PROVE TypeOK'
  BY <1>2 DEF Unpark, PublishToken, ReleaseStore, ReleaseFetchOr
<1>3. ASSUME NEW op \in ParkOps, Park(op) PROVE TypeOK'
  BY <1>3 DEF Park
<1>4. CASE TryLoad
  BY <1>4 DEF TryLoad, TakeLoadsNotified
<1>5. CASE TryTake
  BY <1>5, TakeTyping DEF TryTake, Take
<1>6. CASE StartWait
  BY <1>6 DEF StartWait, TakeFails, WaitOp, Wait!Begin, Wait!DeadlinesOf,
            Wait!TimedOps, Wait!Ops
<1>7. CASE WaitReturnsChanged
  BY <1>7 DEF WaitReturnsChanged, Wait!ReturnChanged, Wait!Returned, Wait!Waiting, Join
<1>8. CASE RetryLoad
  BY <1>8 DEF RetryLoad, TakeLoadsNotified
<1>9. CASE RetryTake
  BY <1>9, TakeTyping DEF RetryTake, Take
<1>10. CASE GiveUp
  <2>1. ResultWithoutToken \in {"Notified", "Unclassified", "TimedOut"}
    BY ResultTyping
  <2>2. park' \in Parks
    BY <1>10, <2>1 DEF GiveUp
  <2>3. QED
    BY <1>10, <2>2 DEF GiveUp
<1>11. CASE WaitObservesEmpty
  BY <1>11 DEF WaitObservesEmpty, Wait!ObserveEqual, Wait!Waiting
<1>12. CASE WaitExpires
  BY <1>12 DEF WaitExpires, Wait!Expire, Wait!Waiting
<1>13. CASE WaitReturnsTimedOut
  BY <1>13 DEF WaitReturnsTimedOut, Wait!ReturnTimedOut, Wait!Returned, Wait!Waiting
<1>14. CASE WaitReturnsUnclassified
  BY <1>14 DEF WaitReturnsUnclassified, Wait!ReturnUnclassified, Wait!Returned, Wait!Waiting
<1>15. CASE UNCHANGED vars
  BY <1>15 DEF vars
<1>16. QED
  BY <1>1, <1>2, <1>3, <1>4, <1>5, <1>6, <1>7, <1>8, <1>9, <1>10, <1>11, <1>12, <1>13, <1>14, <1>15 DEF Next, Consume

(***************************************************************************)
(* The release sequence: whoever unparked last, an Acquire read of the     *)
(* token synchronises with the last unpark of every producer.  A plain     *)
(* store keeps this only because a single pair has one producer.           *)
(***************************************************************************)
LEMMA ReleaseSequence == TypeOK /\ ReleasedInv /\ [Next]_vars => ReleasedInv'
<1> SUFFICES ASSUME TypeOK, ReleasedInv, [Next]_vars PROVE ReleasedInv'
  OBVIOUS
<1> USE DEF TypeOK, ReleasedInv
<1>1. ASSUME NEW p \in Producers, Write(p) PROVE ReleasedInv'
  BY <1>1 DEF Write
<1>2. ASSUME NEW p \in Producers, Unpark(p) PROVE ReleasedInv'
  <2>1. CASE Kind = "single"
    <3>1. Producers = {p}
      BY <2>1, KindAssumption
    <3>2. unparked' = [q \in Producers |-> written[p]]
      BY <1>2, <3>1 DEF Unpark, Views
    <3>3. token'.released = [q \in Producers |-> written[p]]
      BY <1>2, <2>1, <3>1 DEF Unpark, PublishToken, ReleaseStore
    <3>4. QED
      BY <3>2, <3>3
  <2>2. CASE Kind # "single"
    BY <1>2, <2>2 DEF Unpark, PublishToken, ReleaseFetchOr
  <2>3. QED
    BY <2>1, <2>2
<1>3. ASSUME NEW op \in ParkOps, Park(op) PROVE ReleasedInv'
  BY <1>3 DEF Park
<1>4. CASE TryLoad
  BY <1>4 DEF TryLoad, TakeLoadsNotified
<1>5. CASE TryTake
  BY <1>5 DEF TryTake, Take, TakeSucceeds
<1>6. CASE StartWait
  BY <1>6 DEF StartWait
<1>7. CASE WaitReturnsChanged
  BY <1>7 DEF WaitReturnsChanged, Wait!ReturnChanged, Wait!Returned, Wait!Waiting
<1>8. CASE RetryLoad
  BY <1>8 DEF RetryLoad, TakeLoadsNotified
<1>9. CASE RetryTake
  BY <1>9 DEF RetryTake, Take, TakeSucceeds
<1>10. CASE GiveUp
  BY <1>10 DEF GiveUp, TakeFails
<1>11. CASE WaitObservesEmpty
  BY <1>11 DEF WaitObservesEmpty, Wait!ObserveEqual, Wait!Waiting
<1>12. CASE WaitExpires
  BY <1>12 DEF WaitExpires, Wait!Expire, Wait!Waiting
<1>13. CASE WaitReturnsTimedOut
  BY <1>13 DEF WaitReturnsTimedOut, Wait!ReturnTimedOut, Wait!Returned, Wait!Waiting
<1>14. CASE WaitReturnsUnclassified
  BY <1>14 DEF WaitReturnsUnclassified, Wait!ReturnUnclassified, Wait!Returned, Wait!Waiting
<1>15. CASE UNCHANGED vars
  BY <1>15 DEF vars
<1>16. QED
  BY <1>1, <1>2, <1>3, <1>4, <1>5, <1>6, <1>7, <1>8,
     <1>9, <1>10, <1>11, <1>12, <1>13, <1>14, <1>15
  DEF Next, Consume

\* An Acquire read brings the consumer level with every completed unpark.
LEMMA AcquireLevels ==
  TypeOK /\ ReleasedInv /\ SeenInv => Join(seen, token.released) = unparked
<1> SUFFICES ASSUME TypeOK, ReleasedInv, SeenInv PROVE Join(seen, token.released) = unparked
  OBVIOUS
<1>1. ASSUME NEW p \in Producers PROVE Join(seen, token.released)[p] = unparked[p]
  <2>1. seen[p] \in 0..MaxWrites /\ unparked[p] \in 0..MaxWrites
    BY DEF TypeOK, Views
  <2>2. seen[p] <= unparked[p]
    BY DEF SeenInv
  <2>3. Join(seen, token.released)[p] = IF seen[p] >= unparked[p] THEN seen[p] ELSE unparked[p]
    BY DEF ReleasedInv, Join
  <2>4. seen[p] \in Nat /\ unparked[p] \in Nat
    BY <2>1, MaxWritesNat
  <2>5. QED
    BY <2>2, <2>3, <2>4
<1>2. QED
  BY <1>1 DEF TypeOK, Views, Join

(***************************************************************************)
(* The consumer is level with every unpark whenever it leaves EMPTY.       *)
(***************************************************************************)
LEMMA Synchronised ==
  TypeOK /\ ReleasedInv /\ SeenInv /\ [Next]_vars => SeenInv'
<1> SUFFICES ASSUME TypeOK, ReleasedInv, SeenInv, [Next]_vars PROVE SeenInv'
  OBVIOUS
<1> USE DEF TypeOK, Views, SeenInv
<1>1. ASSUME NEW p \in Producers, Write(p) PROVE SeenInv'
  BY <1>1 DEF Write
<1>2. ASSUME NEW p \in Producers, Unpark(p) PROVE SeenInv'
  BY <1>2 DEF Unpark, PublishToken, ReleaseStore, ReleaseFetchOr
<1>3. ASSUME NEW op \in ParkOps, Park(op) PROVE SeenInv'
  BY <1>3 DEF Park
<1>4. CASE TryLoad
  BY <1>4 DEF TryLoad, TakeLoadsNotified
<1>5. CASE TryTake
  BY <1>5, AcquireLevels DEF TryTake, Take, TakeSucceeds
<1>6. CASE StartWait
  BY <1>6 DEF StartWait
<1>7. CASE WaitReturnsChanged
  BY <1>7, AcquireLevels DEF WaitReturnsChanged
<1>8. CASE RetryLoad
  BY <1>8 DEF RetryLoad, TakeLoadsNotified
<1>9. CASE RetryTake
  BY <1>9, AcquireLevels DEF RetryTake, Take, TakeSucceeds
<1>10. CASE GiveUp
  BY <1>10 DEF GiveUp, TakeFails
<1>11. CASE WaitObservesEmpty
  BY <1>11 DEF WaitObservesEmpty, Wait!ObserveEqual, Wait!Waiting
<1>12. CASE WaitExpires
  BY <1>12 DEF WaitExpires, Wait!Expire, Wait!Waiting
<1>13. CASE WaitReturnsTimedOut
  BY <1>13 DEF WaitReturnsTimedOut, Wait!ReturnTimedOut, Wait!Returned, Wait!Waiting
<1>14. CASE WaitReturnsUnclassified
  BY <1>14 DEF WaitReturnsUnclassified, Wait!ReturnUnclassified, Wait!Returned, Wait!Waiting
<1>15. CASE UNCHANGED vars
  BY <1>15 DEF vars
<1>16. QED
  BY <1>1, <1>2, <1>3, <1>4, <1>5, <1>6, <1>7, <1>8,
     <1>9, <1>10, <1>11, <1>12, <1>13, <1>14, <1>15
  DEF Next, Consume

(***************************************************************************)
(* The control invariant of a park call.  No producer empties the token,   *)
(* so what a load or a wait has observed of it stays true until this       *)
(* consumer's own exchange.                                                *)
(***************************************************************************)
LEMMA Control == TypeOK /\ ParkInv /\ [Next]_vars => ParkInv'
<1> SUFFICES ASSUME TypeOK, ParkInv, [Next]_vars PROVE ParkInv'
  OBVIOUS
<1> USE DEF TypeOK, Parks, ParkOps, Wait!Calls, ParkInv
<1>1. ASSUME NEW p \in Producers, Write(p) PROVE ParkInv'
  BY <1>1 DEF Write
<1>2. ASSUME NEW p \in Producers, Unpark(p) PROVE ParkInv'
  BY <1>2 DEF Unpark, PublishToken, ReleaseStore, ReleaseFetchOr
<1>3. ASSUME NEW op \in ParkOps, Park(op) PROVE ParkInv'
  BY <1>3 DEF Park
<1>4. CASE TryLoad
  BY <1>4 DEF TryLoad, TakeLoadsNotified
<1>5. CASE TryTake
  BY <1>5 DEF TryTake, Take, TakeSucceeds
<1>6. CASE StartWait
  BY <1>6 DEF StartWait, TakeFails, Wait!Begin, Wait!DeadlinesOf, Wait!TimedOps, Box!TimedOps, WaitOp
<1>7. CASE WaitReturnsChanged
  BY <1>7 DEF WaitReturnsChanged, Wait!ReturnChanged, Wait!Returned, Wait!Waiting
<1>8. CASE RetryLoad
  BY <1>8 DEF RetryLoad, TakeLoadsNotified
<1>9. CASE RetryTake
  BY <1>9 DEF RetryTake, Take, TakeSucceeds
<1>10. CASE GiveUp
  BY <1>10 DEF GiveUp, TakeFails
<1>11. CASE WaitObservesEmpty
  BY <1>11 DEF WaitObservesEmpty, Wait!ObserveEqual, Wait!Waiting
<1>12. CASE WaitExpires
  BY <1>12 DEF WaitExpires, Wait!Expire, Wait!Waiting
<1>13. CASE WaitReturnsTimedOut
  BY <1>13 DEF WaitReturnsTimedOut, Wait!ReturnTimedOut, Wait!Returned, Wait!Waiting
<1>14. CASE WaitReturnsUnclassified
  BY <1>14 DEF WaitReturnsUnclassified, Wait!ReturnUnclassified, Wait!Returned, Wait!Waiting
<1>15. CASE UNCHANGED vars
  BY <1>15 DEF vars
<1>16. QED
  BY <1>1, <1>2, <1>3, <1>4, <1>5, <1>6, <1>7, <1>8,
     <1>9, <1>10, <1>11, <1>12, <1>13, <1>14, <1>15
  DEF Next, Consume

(***************************************************************************)
(* Notified is only returned with the token consumed, and TimedOut only    *)
(* when no token was pending at the deadline.                              *)
(***************************************************************************)
LEMMA Results ==
  /\ TypeOK /\ ParkInv /\ NotifiedMeansConsumed /\ BoundaryNotificationWins /\ [Next]_vars
  => NotifiedMeansConsumed' /\ BoundaryNotificationWins'
<1> SUFFICES ASSUME TypeOK, ParkInv, NotifiedMeansConsumed, BoundaryNotificationWins,
                    [Next]_vars
             PROVE  NotifiedMeansConsumed' /\ BoundaryNotificationWins'
  OBVIOUS
<1> USE DEF TypeOK, Parks, ParkOps, ParkInv, NotifiedMeansConsumed, BoundaryNotificationWins
<1>1. ASSUME NEW p \in Producers, Write(p) PROVE NotifiedMeansConsumed' /\ BoundaryNotificationWins'
  BY <1>1 DEF Write
<1>2. ASSUME NEW p \in Producers, Unpark(p) PROVE NotifiedMeansConsumed' /\ BoundaryNotificationWins'
  BY <1>2 DEF Unpark, PublishToken, ReleaseStore, ReleaseFetchOr
<1>3. ASSUME NEW op \in ParkOps, Park(op) PROVE NotifiedMeansConsumed' /\ BoundaryNotificationWins'
  BY <1>3 DEF Park
<1>4. CASE TryLoad
  BY <1>4 DEF TryLoad, TakeLoadsNotified
<1>5. CASE TryTake
  BY <1>5 DEF TryTake, Take, TakeSucceeds
<1>6. CASE StartWait
  BY <1>6 DEF StartWait, Wait!Begin
<1>7. CASE WaitReturnsChanged
  BY <1>7 DEF WaitReturnsChanged, Wait!ReturnChanged, Wait!Returned, Wait!Waiting
<1>8. CASE RetryLoad
  BY <1>8 DEF RetryLoad, TakeLoadsNotified
<1>9. CASE RetryTake
  BY <1>9 DEF RetryTake, Take, TakeSucceeds
<1>10. CASE GiveUp
  <2>1. token.value # NOTIFIED_TOKEN /\ call.result # "Changed" /\ call.result # "none"
    BY <1>10 DEF GiveUp, TakeFails
  <2>2. ~call.changedAtExpiry
    BY <1>10, <2>1 DEF GiveUp, TakeFails
  <2>3. ResultWithoutToken # "Notified"
    <3>1. park.op # "park_until_notified"
      <4>1. SUFFICES ASSUME park.op = "park_until_notified" PROVE FALSE
        OBVIOUS
      <4>2. call.op = "wait_until_different"
        BY <1>10, <4>1 DEF GiveUp, TakeFails, WaitOp
      <4>3. call.result = "TimedOut" /\ call.deadline = "expired"
        BY <1>10, <2>1, <4>2 DEF GiveUp, TakeFails, Wait!FilteredOps, Wait!Calls
      <4>4. QED
        BY <1>10, <4>1, <4>3 DEF GiveUp, TakeFails, Box!TimedOps
    <3>2. park.op = "park_until_notified_timeout" => call.result = "TimedOut"
      <4>1. SUFFICES ASSUME park.op = "park_until_notified_timeout"
                     PROVE  call.result = "TimedOut"
        OBVIOUS
      <4>2. call.op = "wait_until_different_timeout"
        BY <1>10, <4>1 DEF GiveUp, TakeFails, WaitOp
      <4>3. QED
        BY <1>10, <2>1, <4>2 DEF GiveUp, TakeFails, Wait!FilteredOps, Wait!Calls
    <3>3. QED
      BY <3>1, <3>2 DEF ResultWithoutToken
  <2>4. QED
    BY <1>10, <2>2, <2>3 DEF GiveUp
<1>11. CASE WaitObservesEmpty
  BY <1>11 DEF WaitObservesEmpty, Wait!ObserveEqual, Wait!Waiting
<1>12. CASE WaitExpires
  BY <1>12 DEF WaitExpires, Wait!Expire, Wait!Waiting
<1>13. CASE WaitReturnsTimedOut
  BY <1>13 DEF WaitReturnsTimedOut, Wait!ReturnTimedOut, Wait!Returned, Wait!Waiting
<1>14. CASE WaitReturnsUnclassified
  BY <1>14 DEF WaitReturnsUnclassified, Wait!ReturnUnclassified, Wait!Returned, Wait!Waiting
<1>15. CASE UNCHANGED vars
  BY <1>15 DEF vars
<1>16. QED
  BY <1>1, <1>2, <1>3, <1>4, <1>5, <1>6, <1>7, <1>8,
     <1>9, <1>10, <1>11, <1>12, <1>13, <1>14, <1>15
  DEF Next, Consume

-----------------------------------------------------------------------------
(***************************************************************************)
(* The inductive invariant holds in every reachable state of Parker.       *)
(***************************************************************************)
THEOREM Invariance == Spec => []IInv
<1>1. Init => IInv
  <2> SUFFICES ASSUME Init PROVE IInv
    OBVIOUS
  <2> USE DEF Init, Wait!NoCall
  <2>1. TypeOK
    <3>1. [p \in Producers |-> 0] \in Views
      BY MaxWritesNat DEF Views
    <3>2. call \in Wait!Calls
      BY DEF Wait!Calls, Wait!Ops, Wait!Deadlines
    <3>3. QED
      BY <3>1, <3>2 DEF TypeOK, Parks, ParkOps
  <2>2. ReleasedInv /\ SeenInv
    BY DEF ReleasedInv, SeenInv
  <2>3. ParkInv /\ NotifiedMeansConsumed /\ BoundaryNotificationWins
    BY DEF ParkInv, NotifiedMeansConsumed, BoundaryNotificationWins
  <2>4. QED
    BY <2>1, <2>2, <2>3 DEF IInv
<1>2. IInv /\ [Next]_vars => IInv'
  BY Typing, ReleaseSequence, Synchronised, Control, Results DEF IInv
<1>3. QED
  BY <1>1, <1>2, PTL DEF Spec

(***************************************************************************)
(* Type correctness of the parker pairs.                                   *)
(***************************************************************************)
THEOREM TypeCorrect == Spec => []TypeOK
<1>1. IInv => TypeOK
  BY DEF IInv
<1>2. QED
  BY <1>1, Invariance, PTL

(***************************************************************************)
(* No unpark is lost, whichever producers coalesced: an emptied token      *)
(* means the consumer has synchronised with all of them.                   *)
(***************************************************************************)
THEOREM NoUnparkLost == Spec => []EmptyMeansSynchronised
<1>1. IInv => EmptyMeansSynchronised
  BY KindAssumption DEF IInv, TypeOK, Views, SeenInv, EmptyMeansSynchronised
<1>2. QED
  BY <1>1, Invariance, PTL

(***************************************************************************)
(* debug_assert!(consumed) in park_until_notified and its timed form never *)
(* fails.                                                                  *)
(***************************************************************************)
THEOREM ConsumedAssertionHolds == Spec => []NotifiedMeansConsumed
<1>1. IInv => NotifiedMeansConsumed
  BY DEF IInv
<1>2. QED
  BY <1>1, Invariance, PTL

(***************************************************************************)
(* A notification at the timeout boundary is never reported as a timeout.  *)
(***************************************************************************)
THEOREM BoundaryHolds == Spec => []BoundaryNotificationWins
<1>1. IInv => BoundaryNotificationWins
  BY DEF IInv
<1>2. QED
  BY <1>1, Invariance, PTL

-----------------------------------------------------------------------------
(***************************************************************************)
(* A parker pair is a one-place mailbox: every step of Parker is a step of *)
(* Mailbox or leaves its variables alone.                                  *)
(***************************************************************************)
THEOREM Refinement == Spec => ImplementsMailbox
<1>1. Init => Box!Init
  BY DEF Init, Progress, Box!Init
<1>2. IInv /\ [Next]_vars => [Box!Next]_Box!vars
  <2> SUFFICES ASSUME IInv, [Next]_vars PROVE [Box!Next]_Box!vars
    OBVIOUS
  <2> USE DEF IInv, TypeOK, Parks, ParkOps, ParkInv
  <2>1. ASSUME NEW p \in Producers, Write(p) PROVE UNCHANGED Box!vars
    BY <2>1 DEF Write, Progress, Box!vars
  <2>2. ASSUME NEW p \in Producers, Unpark(p) PROVE Box!Next
    <3>1. written[p] \in 0..MaxWrites /\ written[p] >= unparked[p]
      BY MaxWritesNat DEF SeenInv, Views
    <3>2. token'.value = NOTIFIED_TOKEN
      BY <2>2 DEF Unpark, PublishToken, ReleaseStore, ReleaseFetchOr
    <3>3. Box!Unpark(p, written[p])
      BY <2>2, <3>1, <3>2 DEF Unpark, Progress, Box!Unpark
    <3>4. QED
      BY <3>1, <3>3 DEF Box!Next
  <2>3. ASSUME NEW op \in ParkOps, Park(op) PROVE Box!Next
    <3>1. Box!Park(op)
      BY <2>3 DEF Park, Progress, Box!Park, Box!Parked
    <3>2. QED
      BY <3>1 DEF Box!Next, Box!Ops
  <2>4. CASE TryLoad
    BY <2>4 DEF TryLoad, TakeLoadsNotified, Progress, Box!vars
  <2>5. CASE TryTake
    <3>1. seen' = unparked
      BY <2>5, AcquireLevels DEF TryTake, Take, TakeSucceeds
    <3>2. Progress \in {"parked", "expired"} /\ Progress' = "idle"
      BY <2>5 DEF TryTake, Take, TakeSucceeds, Progress
    <3>3. Box!Notified
      BY <2>5, <3>1, <3>2
      DEF TryTake, Take, TakeSucceeds, Box!Notified, Box!Parked, Box!Returned
    <3>4. QED
      BY <3>3 DEF Box!Next
  <2>6. CASE StartWait
    <3>1. CASE call'.deadline = "expired"
      <4>1. Progress = "parked" /\ Progress' = "expired"
        BY <2>6, <3>1 DEF StartWait, TakeFails, Progress
      <4>2. park.op \in Box!TimedOps
        BY <2>6, <3>1
        DEF StartWait, Wait!Begin, Wait!DeadlinesOf, Wait!TimedOps, Box!TimedOps, WaitOp
      <4>3. Box!Expire
        BY <2>6, <4>1, <4>2 DEF StartWait, Box!Expire
      <4>4. QED
        BY <4>3 DEF Box!Next
    <3>2. CASE call'.deadline # "expired"
      BY <2>6, <3>2 DEF StartWait, TakeFails, Progress, Box!vars
    <3>3. QED
      BY <3>1, <3>2
  <2>7. CASE WaitReturnsChanged
    <3>1. seen' = unparked
      BY <2>7, AcquireLevels DEF WaitReturnsChanged
    <3>2. Progress \in {"parked", "expired"} /\ Progress' = Progress
      BY <2>7 DEF WaitReturnsChanged, Wait!ReturnChanged, Wait!Returned, Wait!Calls, Progress
    <3>3. token.value = NOTIFIED_TOKEN
      BY <2>7 DEF WaitReturnsChanged, Wait!ReturnChanged
    <3>4. Box!Observe
      BY <2>7, <3>1, <3>2, <3>3 DEF WaitReturnsChanged, Box!Observe, Box!Parked
    <3>5. QED
      BY <3>4 DEF Box!Next
  <2>8. CASE RetryLoad
    BY <2>8 DEF RetryLoad, TakeLoadsNotified, Progress, Box!vars
  <2>9. CASE RetryTake
    <3>1. seen' = unparked
      BY <2>9, AcquireLevels DEF RetryTake, Take, TakeSucceeds
    <3>2. Progress \in {"parked", "expired"} /\ Progress' = "idle"
      BY <2>9 DEF RetryTake, Take, TakeSucceeds, Progress
    <3>3. Box!Notified
      BY <2>9, <3>1, <3>2
      DEF RetryTake, Take, TakeSucceeds, Box!Notified, Box!Parked, Box!Returned
    <3>4. QED
      BY <3>3 DEF Box!Next
  <2>10. CASE GiveUp
    <3>1. Progress \in {"parked", "expired"} /\ Progress' = "idle"
      BY <2>10 DEF GiveUp, TakeFails, Progress
    <3>2. token.value # NOTIFIED_TOKEN /\ call.result \notin {"none", "Changed"}
      BY <2>10 DEF GiveUp, TakeFails
    <3>3. call.result = "TimedOut" => Progress = "expired" /\ park.op \in Box!TimedOps
      BY <2>10 DEF GiveUp, TakeFails, Progress
    <3>4. call.result # "TimedOut" => park.op \in {"park", "park_timeout"}
      BY <2>10, <3>2 DEF GiveUp, TakeFails, WaitOp, Wait!FilteredOps, Wait!Calls
    <3>5. ResultWithoutToken = call.result /\ call.result \in Box!GiveUps(park.op)
      BY <3>2, <3>3, <3>4 DEF ResultWithoutToken, Box!GiveUps, Box!TimedOps, Wait!Calls
    <3>6. Box!GiveUp(call.result)
      BY <2>10, <3>1, <3>2, <3>3, <3>5 DEF GiveUp, Box!GiveUp, Box!Parked, Box!Returned
    <3>7. call.result \in {"Unclassified", "TimedOut"}
      BY <3>2 DEF Wait!Calls
    <3>8. QED
      BY <3>6, <3>7 DEF Box!Next
  <2>11. CASE WaitObservesEmpty
    BY <2>11 DEF WaitObservesEmpty, Wait!ObserveEqual, Wait!Calls, Progress, Box!vars
  <2>12. CASE WaitExpires
    <3>1. Progress = "parked" /\ Progress' = "expired"
      BY <2>12 DEF WaitExpires, Wait!Expire, Wait!Calls, Progress
    <3>2. park.op \in Box!TimedOps
      BY <2>12 DEF WaitExpires, Wait!Expire
    <3>3. Box!Expire
      BY <2>12, <3>1, <3>2 DEF WaitExpires, Box!Expire
    <3>4. QED
      BY <3>3 DEF Box!Next
  <2>13. CASE WaitReturnsTimedOut
    BY <2>13
    DEF WaitReturnsTimedOut, Wait!ReturnTimedOut, Wait!Returned, Wait!Calls, Progress, Box!vars
  <2>14. CASE WaitReturnsUnclassified
    BY <2>14
    DEF WaitReturnsUnclassified, Wait!ReturnUnclassified, Wait!Returned, Wait!Calls,
        Progress, Box!vars
  <2>15. CASE UNCHANGED vars
    BY <2>15 DEF vars, Progress, Box!vars
  <2>16. QED
    BY <2>1, <2>2, <2>3, <2>4, <2>5, <2>6, <2>7, <2>8,
       <2>9, <2>10, <2>11, <2>12, <2>13, <2>14, <2>15
    DEF Next, Consume
<1>3. QED
  BY <1>1, <1>2, Invariance, PTL DEF Spec, ImplementsMailbox, Box!Spec
=============================================================================
