---------------------------- MODULE WaitContract ----------------------------
(***************************************************************************)
(* What the public WaitStrategy operations promise about one call, however *)
(* a strategy spins, yields or sleeps in between.  The watched atomic is   *)
(* `word`; anything may store to it at any time.  WaitStrategy is shown to *)
(* implement this module, and Parker is built on it.                       *)
(***************************************************************************)
CONSTANT Values               \* the values of the watched atomic

VARIABLES
  word,                       \* the watched atomic
  call                        \* the waiter's current or last call

vars == <<word, call>>

Ops == {"wait_if_equal", "wait_until_different",
        "wait_if_equal_timeout", "wait_until_different_timeout"}

TimedOps == {"wait_if_equal_timeout", "wait_until_different_timeout"}

FilteredOps == {"wait_until_different", "wait_until_different_timeout"}

\* A public deadline: absent, not yet reached, or reached (remaining() = None).
Deadlines == {"none", "running", "expired"}

DeadlinesOf(op) == IF op \in TimedOps THEN {"running", "expired"} ELSE {"none"}

(***************************************************************************)
(* equal: an Acquire load of this call has returned the expected value.    *)
(* changedAtExpiry: the word differed from it when a running deadline was  *)
(* reached (a record of the past that no step reads).                      *)
(***************************************************************************)
Calls ==
  [status : {"waiting", "returned"}, op : Ops, expected : Values,
   deadline : Deadlines, equal : BOOLEAN, changedAtExpiry : BOOLEAN,
   result : {"none", "Changed", "Unclassified", "TimedOut"}, value : Values]

NoCall(v) ==
  [status |-> "returned", op |-> "wait_if_equal", expected |-> v,
   deadline |-> "none", equal |-> FALSE, changedAtExpiry |-> FALSE,
   result |-> "none", value |-> v]

TypeOK ==
  /\ word \in Values
  /\ call \in Calls

Init ==
  /\ word \in Values
  /\ call = NoCall(word)

Waiting == call.status = "waiting"

Returned(result, v) ==
  [call EXCEPT !.status = "returned", !.result = result, !.value = v]

Begin(op, expected, deadline) ==
  /\ ~Waiting
  /\ call' = [status |-> "waiting", op |-> op, expected |-> expected,
              deadline |-> deadline, equal |-> FALSE,
              changedAtExpiry |-> FALSE, result |-> "none", value |-> expected]
  /\ UNCHANGED word

\* Time reaches the deadline.
Expire ==
  /\ Waiting
  /\ call.deadline = "running"
  /\ call' = [call EXCEPT !.deadline = "expired",
                          !.changedAtExpiry = word # call.expected]
  /\ UNCHANGED word

ObserveEqual ==
  /\ Waiting
  /\ word = call.expected
  /\ call' = [call EXCEPT !.equal = TRUE]
  /\ UNCHANGED word

ReturnChanged ==
  /\ Waiting
  /\ word # call.expected
  /\ call' = Returned("Changed", word)
  /\ UNCHANGED word

\* The last load was equal and the deadline has passed since the call began.
ReturnTimedOut ==
  /\ Waiting
  /\ call.equal
  /\ call.deadline = "expired"
  /\ call' = Returned("TimedOut", call.expected)
  /\ UNCHANGED word

ReturnUnclassified ==
  /\ Waiting
  /\ call.equal
  /\ call.op \notin FilteredOps
  /\ call' = Returned("Unclassified", call.expected)
  /\ UNCHANGED word

Store(v) ==
  /\ word' = v
  /\ UNCHANGED call

Next ==
  \/ \E op \in Ops, e \in Values : \E d \in DeadlinesOf(op) : Begin(op, e, d)
  \/ Expire
  \/ ObserveEqual
  \/ ReturnChanged
  \/ ReturnTimedOut
  \/ ReturnUnclassified
  \/ \E v \in Values : Store(v)

(***************************************************************************)
(* A call keeps loading until it has seen the expected value, returns once *)
(* the word stays different, and returns once its deadline has passed.  An *)
(* untimed call on an unchanged word may wait for ever.                    *)
(***************************************************************************)
Fairness ==
  /\ WF_vars(ReturnChanged)
  /\ WF_vars(ObserveEqual \/ ReturnChanged)
  /\ WF_vars(ReturnTimedOut)

Spec == Init /\ [][Next]_vars
=============================================================================
