------------------------- MODULE WaitStrategyProofs -------------------------
(***************************************************************************)
(* Proofs about WaitStrategy for any set of values, any spin prefix and    *)
(* every built-in strategy.                                                *)
(***************************************************************************)
EXTENDS WaitStrategy, TLAPS

\* The waiter is inside wait_raw exactly while a public call is waiting.
CallInv == thread.pc = "idle" <=> call.status = "returned"

\* Past its first load of this attempt, the call has seen the expected value.
EqualInv == thread.pc \notin {"idle", "spin_load", "load"} => call.equal

\* The monitor protocol: armed before the second load, hit by any later store.
MonitorInv ==
  /\ thread.pc \in {"recheck", "remaining", "sleep", "asleep"} => monitor # "off"
  /\ thread.pc \in {"remaining", "sleep", "asleep"} /\ word # call.expected
       => monitor = "triggered"

\* Only the blocking step itself separates the two halves of an attempt.
BlockInv ==
  /\ thread.blocks <= 1
  /\ thread.pc \notin {"idle", "asleep", "classify_load", "classify_check"}
       => thread.blocks = 0

IInv == TypeOK /\ CallInv /\ EqualInv /\ MonitorInv /\ BlockInv

-----------------------------------------------------------------------------
\* wait_raw starts with a load, in the spin prefix or in the monitor protocol.
LEMMA EntryPC == RawEntry \in {"load", "spin_load"}
  BY DEF RawEntry

\* A public call that returns keeps its type.
LEMMA ReturnTyping ==
  ASSUME call \in Contract!Calls, NEW result \in {"Changed", "Unclassified", "TimedOut"},
         NEW v \in Values, Return(result, v)
  PROVE  call' \in Contract!Calls
BY DEF Return, Contract!Calls

\* A load leaves the state in its type, whether it ends the call or goes on.
LEMMA LoadTyping ==
  ASSUME NEW from, NEW next \in PCs, TypeOK, Load(from, next)
  PROVE  TypeOK'
<1> USE DEF TypeOK, Threads, Contract!Calls, Load
<1>1. thread' \in Threads
  BY DEF Return, Goto, PCs
<1>2. CASE word # call.expected
  <2>1. call' \in Contract!Calls
    BY <1>2, ReturnTyping
  <2>2. QED
    BY <1>1, <2>1
<1>3. CASE word = call.expected
  <2>1. call' \in Contract!Calls
    BY <1>3
  <2>2. QED
    BY <1>1, <2>1
<1>4. QED
  BY <1>2, <1>3

(***************************************************************************)
(* Type correctness: the spin counter never passes spin_iterations.        *)
(***************************************************************************)
LEMMA Typing == TypeOK /\ [Next]_vars => TypeOK'
<1> SUFFICES ASSUME TypeOK, [Next]_vars PROVE TypeOK'
  OBVIOUS
<1> USE SpinIterationsAssumption
    DEF TypeOK, Threads, Strategies, PCs, MonitorStates, Contract!Calls, Contract!Deadlines
<1>1. ASSUME NEW op \in Contract!Ops, NEW e \in Values, NEW d \in Contract!DeadlinesOf(op),
            Begin(op, e, d)
     PROVE  TypeOK'
  <2>1. d \in Contract!Deadlines
    BY DEF Contract!DeadlinesOf
  <2>2. call' \in Contract!Calls
    BY <1>1, <2>1 DEF Begin
  <2>3. thread' \in Threads
    BY <1>1, EntryPC DEF Begin, EnterRaw
  <2>4. QED
    BY <1>1, <2>2, <2>3 DEF Begin
<1>2. ASSUME NEW v \in Values, Store(v) PROVE TypeOK'
  BY <1>2 DEF Store, HitMonitor
<1>3. CASE SpinLoad
  BY <1>3, LoadTyping DEF SpinLoad
<1>4. CASE SpinExpired
  BY <1>4 DEF SpinExpired, DeadlineExpired, Return, Goto
<1>5. CASE SpinAgain
  <2>1. CASE thread.strategy = "BusySpin"
    BY <1>5, <2>1 DEF SpinAgain
  <2>2. CASE thread.strategy # "BusySpin" /\ thread.spins < SpinIterations
    <3>1. thread.spins + 1 \in 0..SpinIterations
      BY <2>2
    <3>2. thread' = [thread EXCEPT !.pc = "spin_load", !.spins = thread.spins + 1]
      BY <1>5, <2>2 DEF SpinAgain
    <3>3. thread' \in Threads
      BY <3>1, <3>2
    <3>4. QED
      BY <1>5, <3>3 DEF SpinAgain
  <2>3. CASE thread.strategy # "BusySpin" /\ ~(thread.spins < SpinIterations)
    <3>1. thread' = [thread EXCEPT !.pc = AfterSpin]
      BY <1>5, <2>3 DEF SpinAgain
    <3>2. thread' \in Threads
      BY <3>1 DEF AfterSpin
    <3>3. QED
      BY <1>5, <3>2 DEF SpinAgain
  <2>4. QED
    BY <2>1, <2>2, <2>3
<1>6. CASE YieldNow
  <2>1. thread.blocks + 1 \in Nat
    OBVIOUS
  <2>2. thread' \in Threads
    BY <1>6, <2>1 DEF YieldNow
  <2>3. QED
    BY <1>6, <2>2 DEF YieldNow
<1>7. CASE FirstLoad
  BY <1>7, LoadTyping DEF FirstLoad
<1>8. CASE FirstCheckExpired
  BY <1>8 DEF FirstCheckExpired, DeadlineExpired, Return, Goto
<1>9. CASE FirstCheck
  BY <1>9 DEF FirstCheck, DeadlineLeft, Goto
<1>10. CASE Arm
  BY <1>10 DEF Arm, Goto
<1>11. CASE Recheck
  BY <1>11, LoadTyping DEF Recheck
<1>12. CASE RemainingExpired
  BY <1>12 DEF RemainingExpired, DeadlineExpired, Return, Goto
<1>13. CASE Remaining
  BY <1>13 DEF Remaining, DeadlineLeft, Goto
<1>14. CASE HardwareSleep
  <2>1. thread.blocks + 1 \in Nat
    OBVIOUS
  <2>2. thread' \in Threads
    BY <1>14, <2>1 DEF HardwareSleep
  <2>3. QED
    BY <1>14, <2>2 DEF HardwareSleep
<1>15. CASE ClassifyLoad
  BY <1>15, LoadTyping DEF ClassifyLoad
<1>16. CASE ClassifyTimedOut
  BY <1>16 DEF ClassifyTimedOut, DeadlineExpired, Return, Goto
<1>17. CASE ClassifyUnclassified
  <2>1. CASE call.op \in Contract!FilteredOps
    <3>1. thread' \in Threads
      BY <1>17, <2>1, EntryPC DEF ClassifyUnclassified, RawUnclassified, EnterRaw
    <3>2. QED
      BY <1>17, <2>1, <3>1 DEF ClassifyUnclassified, RawUnclassified
  <2>2. CASE call.op \notin Contract!FilteredOps
    <3>1. call' \in Contract!Calls
      <4>1. call.expected \in Values
        BY DEF Contract!Calls
      <4> QED BY <1>17, <2>2, <4>1, ReturnTyping DEF ClassifyUnclassified, RawUnclassified
    <3>2. thread' \in Threads
      BY <1>17, <2>2 DEF ClassifyUnclassified, RawUnclassified, Return, Goto
    <3>3. QED
      BY <1>17, <3>1, <3>2 DEF ClassifyUnclassified
  <2>3. QED
    BY <2>1, <2>2
<1>18. CASE MonitorWake
  BY <1>18 DEF MonitorWake, Goto
<1>19. CASE TimerWake
  BY <1>19 DEF TimerWake, Goto
<1>20. CASE Disturb
  BY <1>20 DEF Disturb
<1>21. CASE Expire
  BY <1>21 DEF Expire
<1>22. CASE UNCHANGED vars
  BY <1>22 DEF vars
<1>23. QED
  BY <1>1, <1>2, <1>3, <1>4, <1>5, <1>6, <1>7, <1>8,
     <1>9, <1>10, <1>11, <1>12, <1>13, <1>14, <1>15, <1>16,
     <1>17, <1>18, <1>19, <1>20, <1>21, <1>22
  DEF Next, Run, Spinning, Monitoring, Classifying

(***************************************************************************)
(* The waiter is inside wait_raw exactly while its call is waiting, and    *)
(* reports nothing but a change before a load has returned the expected    *)
(* value.                                                                  *)
(***************************************************************************)
LEMMA Control == TypeOK /\ CallInv /\ EqualInv /\ [Next]_vars => CallInv' /\ EqualInv'
<1> SUFFICES ASSUME TypeOK, CallInv, EqualInv, [Next]_vars PROVE CallInv' /\ EqualInv'
  OBVIOUS
<1> USE DEF TypeOK, Threads, Contract!Calls, CallInv, EqualInv
<1>1. ASSUME NEW op \in Contract!Ops, NEW e \in Values, NEW d \in Contract!DeadlinesOf(op),
            Begin(op, e, d)
     PROVE  CallInv' /\ EqualInv'
  BY <1>1 DEF Begin, EnterRaw, RawEntry
<1>2. ASSUME NEW v \in Values, Store(v) PROVE CallInv' /\ EqualInv'
  BY <1>2 DEF Store, HitMonitor
<1>3. CASE SpinLoad
  BY <1>3 DEF SpinLoad, Load, Return, Goto
<1>4. CASE SpinExpired
  BY <1>4 DEF SpinExpired, DeadlineExpired, Return, Goto
<1>5. CASE SpinAgain
  BY <1>5 DEF SpinAgain, AfterSpin
<1>6. CASE YieldNow
  BY <1>6 DEF YieldNow
<1>7. CASE FirstLoad
  BY <1>7 DEF FirstLoad, Load, Return, Goto
<1>8. CASE FirstCheckExpired
  BY <1>8 DEF FirstCheckExpired, DeadlineExpired, Return, Goto
<1>9. CASE FirstCheck
  BY <1>9 DEF FirstCheck, DeadlineLeft, Goto
<1>10. CASE Arm
  BY <1>10 DEF Arm, Goto
<1>11. CASE Recheck
  BY <1>11 DEF Recheck, Load, Return, Goto
<1>12. CASE RemainingExpired
  BY <1>12 DEF RemainingExpired, DeadlineExpired, Return, Goto
<1>13. CASE Remaining
  BY <1>13 DEF Remaining, DeadlineLeft, Goto
<1>14. CASE HardwareSleep
  BY <1>14 DEF HardwareSleep
<1>15. CASE ClassifyLoad
  BY <1>15 DEF ClassifyLoad, Load, Return, Goto
<1>16. CASE ClassifyTimedOut
  BY <1>16 DEF ClassifyTimedOut, DeadlineExpired, Return, Goto
<1>17. CASE ClassifyUnclassified
  <2>1. CASE call.op \in Contract!FilteredOps
    BY <1>17, <2>1, EntryPC DEF ClassifyUnclassified, RawUnclassified, EnterRaw
  <2>2. CASE call.op \notin Contract!FilteredOps
    BY <1>17, <2>2 DEF ClassifyUnclassified, RawUnclassified, Return, Goto
  <2>3. QED
    BY <2>1, <2>2
<1>18. CASE MonitorWake
  BY <1>18 DEF MonitorWake, Goto
<1>19. CASE TimerWake
  BY <1>19 DEF TimerWake, Goto
<1>20. CASE Disturb
  BY <1>20 DEF Disturb
<1>21. CASE Expire
  BY <1>21 DEF Expire
<1>22. CASE UNCHANGED vars
  BY <1>22 DEF vars
<1>23. QED
  BY <1>1, <1>2, <1>3, <1>4, <1>5, <1>6, <1>7, <1>8,
     <1>9, <1>10, <1>11, <1>12, <1>13, <1>14, <1>15, <1>16,
     <1>17, <1>18, <1>19, <1>20, <1>21, <1>22
  DEF Next, Run, Spinning, Monitoring, Classifying

(***************************************************************************)
(* The lost-wake argument.  Arming before the second load leaves no gap: a *)
(* store before that load is seen by it, and one after it hits the monitor.*)
(***************************************************************************)
LEMMA Monitor == TypeOK /\ MonitorInv /\ [Next]_vars => MonitorInv'
<1> SUFFICES ASSUME TypeOK, MonitorInv, [Next]_vars PROVE MonitorInv'
  OBVIOUS
<1> USE DEF TypeOK, Threads, Contract!Calls, MonitorStates, MonitorInv
<1>1. ASSUME NEW op \in Contract!Ops, NEW e \in Values, NEW d \in Contract!DeadlinesOf(op),
            Begin(op, e, d)
     PROVE  MonitorInv'
  BY <1>1 DEF Begin, EnterRaw, RawEntry
<1>2. ASSUME NEW v \in Values, Store(v) PROVE MonitorInv'
  BY <1>2 DEF Store, HitMonitor
<1>3. CASE SpinLoad
  BY <1>3 DEF SpinLoad, Load, Return, Goto
<1>4. CASE SpinExpired
  BY <1>4 DEF SpinExpired, DeadlineExpired, Return, Goto
<1>5. CASE SpinAgain
  BY <1>5 DEF SpinAgain, AfterSpin
<1>6. CASE YieldNow
  BY <1>6 DEF YieldNow
<1>7. CASE FirstLoad
  BY <1>7 DEF FirstLoad, Load, Return, Goto
<1>8. CASE FirstCheckExpired
  BY <1>8 DEF FirstCheckExpired, DeadlineExpired, Return, Goto
<1>9. CASE FirstCheck
  BY <1>9 DEF FirstCheck, DeadlineLeft, Goto
<1>10. CASE Arm
  BY <1>10 DEF Arm, Goto
<1>11. CASE Recheck
  BY <1>11 DEF Recheck, Load, Return, Goto
<1>12. CASE RemainingExpired
  BY <1>12 DEF RemainingExpired, DeadlineExpired, Return, Goto
<1>13. CASE Remaining
  BY <1>13 DEF Remaining, DeadlineLeft, Goto
<1>14. CASE HardwareSleep
  BY <1>14 DEF HardwareSleep
<1>15. CASE ClassifyLoad
  BY <1>15 DEF ClassifyLoad, Load, Return, Goto
<1>16. CASE ClassifyTimedOut
  BY <1>16 DEF ClassifyTimedOut, DeadlineExpired, Return, Goto
<1>17. CASE ClassifyUnclassified
  BY <1>17 DEF ClassifyUnclassified, RawUnclassified, EnterRaw, RawEntry, Return, Goto
<1>18. CASE MonitorWake
  BY <1>18 DEF MonitorWake, Goto
<1>19. CASE TimerWake
  BY <1>19 DEF TimerWake, Goto
<1>20. CASE Disturb
  BY <1>20 DEF Disturb
<1>21. CASE Expire
  BY <1>21 DEF Expire
<1>22. CASE UNCHANGED vars
  BY <1>22 DEF vars
<1>23. QED
  BY <1>1, <1>2, <1>3, <1>4, <1>5, <1>6, <1>7, <1>8,
     <1>9, <1>10, <1>11, <1>12, <1>13, <1>14, <1>15, <1>16,
     <1>17, <1>18, <1>19, <1>20, <1>21, <1>22
  DEF Next, Run, Spinning, Monitoring, Classifying

(***************************************************************************)
(* One raw attempt yields or sleeps at most once.                          *)
(***************************************************************************)
LEMMA Blocks == TypeOK /\ BlockInv /\ [Next]_vars => BlockInv'
<1> SUFFICES ASSUME TypeOK, BlockInv, [Next]_vars PROVE BlockInv'
  OBVIOUS
<1> USE DEF TypeOK, Threads, BlockInv
<1>1. ASSUME NEW op \in Contract!Ops, NEW e \in Values, NEW d \in Contract!DeadlinesOf(op),
            Begin(op, e, d)
     PROVE  BlockInv'
  BY <1>1 DEF Begin, EnterRaw, RawEntry
<1>2. ASSUME NEW v \in Values, Store(v) PROVE BlockInv'
  BY <1>2 DEF Store, HitMonitor
<1>3. CASE SpinLoad
  BY <1>3 DEF SpinLoad, Load, Return, Goto
<1>4. CASE SpinExpired
  BY <1>4 DEF SpinExpired, DeadlineExpired, Return, Goto
<1>5. CASE SpinAgain
  BY <1>5 DEF SpinAgain, AfterSpin
<1>6. CASE YieldNow
  BY <1>6 DEF YieldNow
<1>7. CASE FirstLoad
  BY <1>7 DEF FirstLoad, Load, Return, Goto
<1>8. CASE FirstCheckExpired
  BY <1>8 DEF FirstCheckExpired, DeadlineExpired, Return, Goto
<1>9. CASE FirstCheck
  BY <1>9 DEF FirstCheck, DeadlineLeft, Goto
<1>10. CASE Arm
  BY <1>10 DEF Arm, Goto
<1>11. CASE Recheck
  BY <1>11 DEF Recheck, Load, Return, Goto
<1>12. CASE RemainingExpired
  BY <1>12 DEF RemainingExpired, DeadlineExpired, Return, Goto
<1>13. CASE Remaining
  BY <1>13 DEF Remaining, DeadlineLeft, Goto
<1>14. CASE HardwareSleep
  BY <1>14 DEF HardwareSleep
<1>15. CASE ClassifyLoad
  BY <1>15 DEF ClassifyLoad, Load, Return, Goto
<1>16. CASE ClassifyTimedOut
  BY <1>16 DEF ClassifyTimedOut, DeadlineExpired, Return, Goto
<1>17. CASE ClassifyUnclassified
  <2>1. CASE call.op \in Contract!FilteredOps
    BY <1>17, <2>1, EntryPC DEF ClassifyUnclassified, RawUnclassified, EnterRaw
  <2>2. CASE call.op \notin Contract!FilteredOps
    BY <1>17, <2>2 DEF ClassifyUnclassified, RawUnclassified, Return, Goto
  <2>3. QED
    BY <2>1, <2>2
<1>18. CASE MonitorWake
  BY <1>18 DEF MonitorWake, Goto
<1>19. CASE TimerWake
  BY <1>19 DEF TimerWake, Goto
<1>20. CASE Disturb
  BY <1>20 DEF Disturb
<1>21. CASE Expire
  BY <1>21 DEF Expire
<1>22. CASE UNCHANGED vars
  BY <1>22 DEF vars
<1>23. QED
  BY <1>1, <1>2, <1>3, <1>4, <1>5, <1>6, <1>7, <1>8,
     <1>9, <1>10, <1>11, <1>12, <1>13, <1>14, <1>15, <1>16,
     <1>17, <1>18, <1>19, <1>20, <1>21, <1>22
  DEF Next, Run, Spinning, Monitoring, Classifying

-----------------------------------------------------------------------------
(***************************************************************************)
(* The inductive invariant holds in every reachable state.                 *)
(***************************************************************************)
THEOREM Invariance == Spec => []IInv
<1>1. Init => IInv
  <2> SUFFICES ASSUME Init PROVE IInv
    OBVIOUS
  <2> USE SpinIterationsAssumption DEF Init, Contract!NoCall
  <2>1. thread \in Threads /\ thread.pc = "idle" /\ thread.blocks = 0
    BY DEF Threads, PCs
  <2>2. call \in Contract!Calls
    BY DEF Contract!Calls, Contract!Ops, Contract!Deadlines
  <2>3. TypeOK
    BY <2>1, <2>2 DEF TypeOK, MonitorStates
  <2>4. QED
    BY <2>1, <2>3 DEF IInv, CallInv, EqualInv, MonitorInv, BlockInv
<1>2. IInv /\ [Next]_vars => IInv'
  BY Typing, Control, Monitor, Blocks DEF IInv
<1>3. QED
  BY <1>1, <1>2, PTL DEF Spec

(***************************************************************************)
(* Type correctness of every strategy.                                     *)
(***************************************************************************)
THEOREM TypeCorrect == Spec => []TypeOK
<1>1. IInv => TypeOK
  BY DEF IInv
<1>2. QED
  BY <1>1, Invariance, PTL

(***************************************************************************)
(* No wake is lost: a waiter never sleeps on a changed word with a monitor *)
(* that will not end the wait.                                             *)
(***************************************************************************)
THEOREM LostWakeFree == Spec => []NoLostWake
<1>1. IInv => NoLostWake
  BY DEF IInv, MonitorInv, NoLostWake
<1>2. QED
  BY <1>1, Invariance, PTL

(***************************************************************************)
(* A raw attempt performs at most one blocking or yielding operation.      *)
(***************************************************************************)
THEOREM OneBlockPerAttempt == Spec => []AtMostOneBlock
<1>1. IInv => AtMostOneBlock
  BY DEF IInv, BlockInv, AtMostOneBlock
<1>2. QED
  BY <1>1, Invariance, PTL

-----------------------------------------------------------------------------
(***************************************************************************)
(* Every strategy implements the safety part of WaitContract.              *)
(***************************************************************************)
THEOREM Refinement == Spec => ImplementsContract
<1>1. Init => Contract!Init
  BY DEF Init, Contract!Init
<1>2. IInv /\ [Next]_vars => [Contract!Next]_Contract!vars
  <2> SUFFICES ASSUME IInv, [Next]_vars PROVE [Contract!Next]_Contract!vars
    OBVIOUS
  <2> USE DEF IInv, TypeOK, Threads, Contract!Calls, CallInv, EqualInv
  <2>1. ASSUME NEW op \in Contract!Ops, NEW e \in Values, NEW d \in Contract!DeadlinesOf(op),
              Begin(op, e, d)
       PROVE  [Contract!Next]_Contract!vars
    BY <2>1 DEF Begin, Contract!Next, Contract!Begin, Contract!Waiting
  <2>2. ASSUME NEW v \in Values, Store(v) PROVE [Contract!Next]_Contract!vars
    BY <2>2 DEF Store, Contract!Next, Contract!Store
  <2>3. CASE SpinLoad
    BY <2>3 DEF SpinLoad, Load, Return, Contract!Next, Contract!ReturnChanged, Contract!ObserveEqual,
       Contract!Returned, Contract!Waiting
  <2>4. CASE SpinExpired
    BY <2>4 DEF SpinExpired, DeadlineExpired, Return, Contract!Next, Contract!ReturnTimedOut, Contract!Returned, Contract!Waiting
  <2>5. CASE SpinAgain
    BY <2>5 DEF SpinAgain, Contract!vars
  <2>6. CASE YieldNow
    BY <2>6 DEF YieldNow, Contract!vars
  <2>7. CASE FirstLoad
    BY <2>7 DEF FirstLoad, Load, Return, Contract!Next, Contract!ReturnChanged, Contract!ObserveEqual,
       Contract!Returned, Contract!Waiting
  <2>8. CASE FirstCheckExpired
    BY <2>8 DEF FirstCheckExpired, DeadlineExpired, Return, Contract!Next, Contract!ReturnTimedOut, Contract!Returned, Contract!Waiting
  <2>9. CASE FirstCheck
    BY <2>9 DEF FirstCheck, DeadlineLeft, Contract!vars
  <2>10. CASE Arm
    BY <2>10 DEF Arm, Contract!vars
  <2>11. CASE Recheck
    BY <2>11 DEF Recheck, Load, Return, Contract!Next, Contract!ReturnChanged, Contract!ObserveEqual,
       Contract!Returned, Contract!Waiting
  <2>12. CASE RemainingExpired
    BY <2>12 DEF RemainingExpired, DeadlineExpired, Return, Contract!Next, Contract!ReturnTimedOut, Contract!Returned, Contract!Waiting
  <2>13. CASE Remaining
    BY <2>13 DEF Remaining, DeadlineLeft, Contract!vars
  <2>14. CASE HardwareSleep
    BY <2>14 DEF HardwareSleep, Contract!vars
  <2>15. CASE ClassifyLoad
    BY <2>15 DEF ClassifyLoad, Load, Return, Contract!Next, Contract!ReturnChanged, Contract!ObserveEqual,
       Contract!Returned, Contract!Waiting
  <2>16. CASE ClassifyTimedOut
    BY <2>16 DEF ClassifyTimedOut, DeadlineExpired, Return, Contract!Next, Contract!ReturnTimedOut, Contract!Returned, Contract!Waiting
  <2>17. CASE ClassifyUnclassified
    BY <2>17 DEF ClassifyUnclassified, RawUnclassified, Return, Contract!Next,
       Contract!ReturnUnclassified, Contract!Returned, Contract!Waiting, Contract!vars
  <2>18. CASE MonitorWake
    BY <2>18 DEF MonitorWake, Contract!vars
  <2>19. CASE TimerWake
    BY <2>19 DEF TimerWake, Contract!vars
  <2>20. CASE Disturb
    BY <2>20 DEF Disturb, Contract!vars
  <2>21. CASE Expire
    BY <2>21 DEF Expire, Contract!Next, Contract!Expire, Contract!Waiting
  <2>22. CASE UNCHANGED vars
    BY <2>22 DEF vars, Contract!vars
  <2>23. QED
    BY <2>1, <2>2, <2>3, <2>4, <2>5, <2>6, <2>7, <2>8,
       <2>9, <2>10, <2>11, <2>12, <2>13, <2>14, <2>15, <2>16,
       <2>17, <2>18, <2>19, <2>20, <2>21, <2>22
    DEF Next, Run, Spinning, Monitoring, Classifying
<1>3. QED
  BY <1>1, <1>2, Invariance, PTL DEF Spec, ImplementsContract, Contract!Spec
=============================================================================
