---------------------------- MODULE ThreadMoves ----------------------------
(***************************************************************************)
(* What the migration library promises: a call either leaves the thread    *)
(* where it is and runs nothing, or takes it to the node it asked for and  *)
(* there runs the callback exactly once before the call returns.           *)
(***************************************************************************)
EXTENDS Integers

CONSTANT Threads

VARIABLES
  at,      \* the node each thread is on
  goal,    \* the node it asked for, while it is in a call
  phase,   \* "running", "asked", "arrived"
  ran      \* callbacks it has run

vars == <<at, goal, phase, ran>>

Init ==
  /\ at \in [Threads -> Int]
  /\ goal = at
  /\ phase = [t \in Threads |-> "running"]
  /\ ran = [t \in Threads |-> 0]

Ask(t) ==
  /\ phase[t] = "running"
  /\ phase' = [phase EXCEPT ![t] = "asked"]
  /\ \E n \in {goal'[t]} : n # at[t] /\ goal' = [goal EXCEPT ![t] = n]
  /\ UNCHANGED <<at, ran>>

Stay(t) ==
  /\ phase[t] = "asked"
  /\ phase' = [phase EXCEPT ![t] = "running"]
  /\ goal' = [goal EXCEPT ![t] = at[t]]
  /\ UNCHANGED <<at, ran>>

Move(t) ==
  /\ phase[t] = "asked"
  /\ at' = [at EXCEPT ![t] = goal[t]]
  /\ phase' = [phase EXCEPT ![t] = "arrived"]
  /\ UNCHANGED <<goal, ran>>

Callback(t) ==
  /\ phase[t] = "arrived"
  /\ ran' = [ran EXCEPT ![t] = @ + 1]
  /\ phase' = [phase EXCEPT ![t] = "running"]
  /\ UNCHANGED <<at, goal>>

Next == \E t \in Threads : Ask(t) \/ Stay(t) \/ Move(t) \/ Callback(t)

Spec == Init /\ [][Next]_vars
=============================================================================
