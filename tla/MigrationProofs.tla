-------------------------- MODULE MigrationProofs --------------------------
(***************************************************************************)
(* Proofs about Migration for any threads, nodes, instruction sets,        *)
(* schedule and bounds: the inductive invariant IInv, ReadyToRun and the   *)
(* refinement of ThreadMoves.                                              *)
(*                                                                         *)
(* They rest on two facts about what is outside of the library, which      *)
(* README section 6 shows to be necessary: RefusesWithinArch and           *)
(* ReentryAvailable.                                                       *)
(***************************************************************************)
EXTENDS Migration, TLAPS

USE MigrationAssumption

\* The kernel refuses to move a thread only to a node of the same instruction
\* set, where thread pointer and stack need not be taken back.
RefusesWithinArch == \A p \in MayRefuse : ArchOf[p[1]] = ArchOf[p[2]]

\* What the fix-up code leaves in the register of the shim's first argument
\* is a node the shim accepts.
ReentryAvailable ==
  \A n \in Nodes : ReentryNid[ArchOf[n]] \subseteq Online

-----------------------------------------------------------------------------
(* The inductive invariant                                                 *)

PCs == {"user", "entered", "rewritten", "cleared", "syscall", "fixup", "arrived", "called"}

TypeOK ==
  /\ node \in [Threads -> Nodes]
  /\ DOMAIN tls = Threads /\ DOMAIN stack = Threads
  /\ args \in [Threads -> {NoArgs, "syscall", "start"}]
  /\ pc \in [Threads -> PCs]
  /\ DOMAIN nid = Threads
  /\ ran \in [Threads -> Nat]

\* Thread pointer and frames are laid out for the node the thread runs on,
\* except between __set_thread_area and the arrival.
Layout(t) ==
  LET a == IF pc[t] = "syscall" THEN ArchOf[nid[t]] ELSE current_arch(t)
  IN  /\ stack[t] = a /\ tls[t] = a

\* The arguments say how far a thread is on its way: none outside of a move,
\* those for a re-entry only when the instruction set changes.
Arguments(t) ==
  /\ pc[t] = "user" => args[t] = NoArgs
  /\ pc[t] = "entered" => args[t] \in {NoArgs, "start"}
  /\ pc[t] \in {"rewritten", "cleared", "syscall", "fixup", "arrived", "called"} =>
       args[t] # NoArgs

\* What a thread moves to is a node the shim has accepted.
Destination(t) ==
  pc[t] \in {"rewritten", "cleared", "syscall"} \/ (pc[t] = "entered" /\ args[t] # NoArgs) =>
    node_available(nid[t])

IInv == TypeOK /\ \A t \in Threads : Layout(t) /\ Arguments(t) /\ Destination(t)

LEMMA InitIInv == Init => IInv
BY DEF Init, IInv, TypeOK, PCs, Layout, Arguments, Destination, current_arch, NoArgs

-----------------------------------------------------------------------------
(* One lemma per group of actions that disturb the same conjuncts          *)

\* What an action of thread t leaves alone of the other threads.
OthersKeep(t) ==
  \A u \in Threads \ {t} :
    /\ node'[u] = node[u] /\ tls'[u] = tls[u] /\ stack'[u] = stack[u]
    /\ args'[u] = args[u] /\ pc'[u] = pc[u] /\ nid'[u] = nid[u]

\* A step that keeps the types and the others' state need only be looked at
\* for the thread that takes it.
LEMMA OwnStep ==
  ASSUME IInv, TypeOK', NEW t \in Threads, OthersKeep(t),
         Layout(t)', Arguments(t)', Destination(t)'
  PROVE  IInv'
<1>1. ASSUME NEW u \in Threads \ {t}
      PROVE  (Layout(u) /\ Arguments(u) /\ Destination(u))'
  BY <1>1 DEF IInv, OthersKeep, Layout, Arguments, Destination, current_arch
<1>2. QED
  BY <1>1 DEF IInv

\* Calls, on their way to the shim, begin without arguments.
LEMMA EnterStep ==
  ASSUME IInv, NEW t \in Threads, NEW n, EnterShim(t, n)
  PROVE  IInv'
<1> USE DEF EnterShim, IInv, TypeOK, kernel
<1>1. TypeOK'
  BY DEF PCs
<1>2. OthersKeep(t)
  BY DEF OthersKeep
<1>3. (Layout(t) /\ Arguments(t) /\ Destination(t))'
  BY DEF Layout, Arguments, Destination, current_arch
<1>4. QED
  BY <1>1, <1>2, <1>3, OwnStep

\* Proposals and signals are seen by the next call only.
LEMMA RequestStep ==
  ASSUME IInv, NEW t \in Threads, Propose(t) \/ migrate_sighandler(t)
  PROVE  IInv'
<1>1. UNCHANGED <<node, tls, stack, args, shim, ran>>
  BY DEF Propose, migrate_sighandler
<1>2. QED
  BY <1>1 DEF IInv, TypeOK, shim, Layout, Arguments, Destination, current_arch

\* Early returns, and the second entry: where the thread goes nothing but its
\* arguments tells how it came.
LEMMA DecideStep ==
  ASSUME IInv, NEW t \in Threads, NotAvailable(t) \/ Reentered(t) \/ CannotRewrite(t)
  PROVE  IInv'
<1> USE DEF NotAvailable, Reentered, CannotRewrite, IInv, TypeOK, kernel
<1>1. TypeOK'
  BY DEF PCs
<1>2. OthersKeep(t)
  BY DEF OthersKeep
<1>3. (Layout(t) /\ Arguments(t) /\ Destination(t))'
  BY DEF Layout, Arguments, Destination, current_arch
<1>4. QED
  BY <1>1, <1>2, <1>3, OwnStep

\* The arguments are saved while the thread pointer is still right.
LEMMA RewriteStep ==
  ASSUME IInv, NEW t \in Threads, Rewrite(t)
  PROVE  IInv'
<1> USE DEF Rewrite, IInv, TypeOK, kernel, SetArgs
<1>1. TypeOK'
  BY DEF PCs
<1>2. OthersKeep(t)
  BY DEF OthersKeep
<1>3. (Layout(t) /\ Arguments(t) /\ Destination(t))'
  BY DEF Layout, Arguments, Destination, current_arch, NoArgs
<1>4. QED
  BY <1>1, <1>2, <1>3, OwnStep

\* Up to the system call, and the move itself.
LEMMA MoveStep ==
  ASSUME IInv, NEW t \in Threads, clear_migrate_flag(t) \/ SetThreadArea(t) \/ Moved(t)
  PROVE  IInv'
<1> USE DEF clear_migrate_flag, SetThreadArea, Moved, IInv, TypeOK, kernel
<1>0. pc[t] \in {"rewritten", "cleared", "syscall"} /\ nid[t] \in Nodes
  BY DEF Destination, node_available
<1>1. TypeOK'
  BY <1>0 DEF PCs
<1>2. OthersKeep(t)
  BY DEF OthersKeep
<1>3. (Layout(t) /\ Arguments(t) /\ Destination(t))'
  BY <1>0 DEF Layout, Arguments, Destination, current_arch
<1>4. QED
  BY <1>1, <1>2, <1>3, OwnStep

\* A refusal finds the thread pointer right, and so the arguments.
LEMMA RefusedStep ==
  ASSUME RefusesWithinArch, IInv, NEW t \in Threads, Refused(t)
  PROVE  IInv'
<1> USE DEF Refused, IInv, TypeOK, kernel, SetArgs
<1>0. ArchOf[nid[t]] = current_arch(t)
  BY DEF RefusesWithinArch, current_arch
<1>1. TypeOK'
  BY DEF PCs, NoArgs
<1>2. OthersKeep(t)
  BY DEF OthersKeep
<1>3. (Layout(t) /\ Arguments(t) /\ Destination(t))'
  BY <1>0 DEF Layout, Arguments, Destination, current_arch, TlsValid
<1>4. QED
  BY <1>1, <1>2, <1>3, OwnStep

\* The thread pointer is right again on arrival.
LEMMA FixupStep ==
  ASSUME ReentryAvailable, IInv, NEW t \in Threads, Fixup(t)
  PROVE  IInv'
<1> USE DEF Fixup, IInv, TypeOK, kernel
<1>1. TypeOK'
  BY DEF PCs
<1>2. OthersKeep(t)
  BY DEF OthersKeep
<1>3. (Layout(t) /\ Arguments(t))'
  BY DEF Layout, Arguments, current_arch, NoArgs
<1>4. Destination(t)'
  BY ZenonT(60) DEF ReentryAvailable, Destination, current_arch, node_available
<1>5. QED
  BY <1>1, <1>2, <1>3, <1>4, OwnStep

\* The callback and the return, which takes the arguments back.
LEMMA LeaveStep ==
  ASSUME IInv, NEW t \in Threads, Callback(t) \/ Return(t)
  PROVE  IInv'
<1> USE DEF Callback, Return, IInv, TypeOK, kernel, SetArgs
<1>1. TypeOK'
  BY DEF PCs, NoArgs
<1>2. OthersKeep(t)
  BY DEF OthersKeep
<1>3. (Layout(t) /\ Arguments(t) /\ Destination(t))'
  BY DEF Layout, Arguments, Destination, current_arch, TlsValid
<1>4. QED
  BY <1>1, <1>2, <1>3, OwnStep

\* No step breaks the invariant.
LEMMA StepIInv ==
  ASSUME RefusesWithinArch, ReentryAvailable, IInv, [Next]_vars
  PROVE  IInv'
<1>1. CASE UNCHANGED vars
  BY <1>1 DEF vars, kernel, shim, IInv, TypeOK, Layout, Arguments, Destination, current_arch
<1>2. ASSUME NEW t \in Threads, Shim(t)
      PROVE  IInv'
  BY <1>2, DecideStep, RewriteStep, MoveStep, RefusedStep, FixupStep, LeaveStep DEF Shim
<1>3. ASSUME NEW t \in Threads, check_migrate(t) \/ migrate(t) \/ migrate_schedule(t)
      PROVE  IInv'
  BY <1>3, EnterStep DEF check_migrate, migrate, migrate_schedule
<1>4. QED
  BY <1>1, <1>2, <1>3, RequestStep DEF Next

\* The inductive invariant holds in every reachable state.
THEOREM InvariantHolds ==
  ASSUME RefusesWithinArch, ReentryAvailable
  PROVE  Spec => []IInv
BY InitIInv, StepIInv, PTL DEF Spec

\* Thread pointer, stack and saved arguments are in order whenever the
\* program's own code runs (migrate.c:199, __migrate_shim_internal).
THEOREM Ready ==
  ASSUME RefusesWithinArch, ReentryAvailable
  PROVE  Spec => []ReadyToRun
<1>1. IInv => ReadyToRun
  BY DEF IInv, Layout, Arguments, ReadyToRun, TlsValid
<1>2. QED
  BY <1>1, InvariantHolds, PTL

-----------------------------------------------------------------------------
(* Refinement of ThreadMoves                                               *)

\* What ThreadMoves sees of the threads that do not step stays.
LEMMA OthersSeen ==
  ASSUME NEW t \in Threads, OthersKeep(t)
  PROVE  \A u \in Threads \ {t} : Phase(u)' = Phase(u) /\ Goal(u)' = Goal(u)
BY DEF OthersKeep, Phase, Goal, Asking

\* A step that changes nothing ThreadMoves sees of the thread that takes it is
\* a stutter.
LEMMA Stutter ==
  ASSUME NEW t \in Threads, OthersKeep(t), UNCHANGED <<node, ran>>,
         Phase(t)' = Phase(t), Goal(t)' = Goal(t)
  PROVE  UNCHANGED Moves!vars
BY OthersSeen DEF Moves!vars

\* A call that passes the shim's first test asks to move.
LEMMA AskStep ==
  ASSUME IInv, NEW t \in Threads, NEW n, EnterShim(t, n)
  PROVE  Moves!Ask(t)
<1>1. OthersKeep(t) /\ UNCHANGED <<node, ran>>
  BY DEF EnterShim, kernel, IInv, TypeOK, OthersKeep
<1>2. Phase(t) = "running" /\ Phase(t)' = "asked" /\ Goal(t)' = n /\ n # node[t]
  BY DEF EnterShim, IInv, TypeOK, Arguments, Phase, Goal, Asking
<1>3. QED
  BY <1>1, <1>2, OthersSeen DEF Moves!Ask

\* The early returns of the first entry and a refusal leave the thread where
\* it is.
LEMMA StayStep ==
  ASSUME IInv, NEW t \in Threads,
         NotAvailable(t) \/ CannotRewrite(t) \/ Refused(t)
  PROVE  Moves!Stay(t)
<1> USE DEF NotAvailable, CannotRewrite, Refused, IInv, TypeOK, kernel
<1>1. OthersKeep(t) /\ UNCHANGED <<node, ran>>
  BY DEF OthersKeep, SetArgs
<1>2. Phase(t) = "asked" /\ Phase(t)' = "running" /\ Goal(t)' = node[t]
  BY DEF Arguments, Destination, Phase, Goal, Asking
<1>3. QED
  BY <1>1, <1>2, OthersSeen DEF Moves!Stay

\* The kernel's move takes the thread to the node it asked for.
LEMMA MovedStep ==
  ASSUME IInv, NEW t \in Threads, Moved(t)
  PROVE  Moves!Move(t)
<1> USE DEF Moved, IInv, TypeOK, kernel
<1>1. OthersKeep(t) /\ UNCHANGED ran
  BY DEF OthersKeep
<1>2. /\ Phase(t) = "asked" /\ Phase(t)' = "arrived"
      /\ Goal(t) = nid[t] /\ Goal(t)' = nid[t] /\ node' = [node EXCEPT ![t] = nid[t]]
  BY DEF Phase, Goal, Asking
<1>3. [u \in Threads |-> Phase(u)]' = [[u \in Threads |-> Phase(u)] EXCEPT ![t] = "arrived"]
  BY <1>1, <1>2, OthersSeen
<1>4. [u \in Threads |-> Goal(u)]' = [u \in Threads |-> Goal(u)]
  BY <1>1, <1>2, OthersSeen
<1>5. QED
  BY <1>1, <1>2, <1>3, <1>4 DEF Moves!Move

\* The callback is run once, on the node the thread has come to.
LEMMA CallbackStep ==
  ASSUME IInv, NEW t \in Threads, Callback(t)
  PROVE  Moves!Callback(t)
<1> USE DEF Callback, IInv, TypeOK, kernel
<1>1. OthersKeep(t) /\ UNCHANGED node
  BY DEF OthersKeep
<1>2. Phase(t) = "arrived" /\ Phase(t)' = "running" /\ Goal(t)' = Goal(t)
  BY DEF Phase, Goal, Asking
<1>3. QED
  BY <1>1, <1>2, OthersSeen DEF Moves!Callback

\* All other steps of the shim are invisible: whether a thread is asking or
\* has arrived is the same before and after them.
LEMMA HiddenStep ==
  ASSUME IInv, NEW t \in Threads,
         \/ Reentered(t) \/ Rewrite(t) \/ clear_migrate_flag(t) \/ SetThreadArea(t)
         \/ Fixup(t) \/ Return(t)
  PROVE  UNCHANGED Moves!vars
<1> USE DEF Reentered, Rewrite, clear_migrate_flag, SetThreadArea, Fixup, Return,
            SetArgs, IInv, TypeOK, kernel
<1>1. OthersKeep(t) /\ UNCHANGED <<node, ran>>
  BY DEF OthersKeep
<1>2. Phase(t)' = Phase(t) /\ Goal(t)' = Goal(t)
  BY DEF Arguments, Phase, Goal, Asking, NoArgs
<1>3. QED
  BY <1>1, <1>2, Stutter

\* A call of the library takes the thread to the node it asked for and runs
\* the callback there once, or leaves it where it is and runs none.
THEOREM Refinement ==
  ASSUME RefusesWithinArch, ReentryAvailable
  PROVE  Spec => ImplementsMoves
<1>1. Init => Moves!Init
  BY DEF Init, Moves!Init, Phase, Goal, Asking
<1>2. IInv /\ [Next]_vars => [Moves!Next]_(Moves!vars)
  <2> SUFFICES ASSUME IInv, [Next]_vars
               PROVE  [Moves!Next]_(Moves!vars)
    OBVIOUS
  <2>1. ASSUME NEW t \in Threads, Shim(t)
        PROVE  Moves!Next \/ UNCHANGED Moves!vars
    BY <2>1, StayStep, MovedStep, CallbackStep, HiddenStep DEF Shim, Moves!Next
  <2>2. ASSUME NEW t \in Threads, check_migrate(t) \/ migrate(t) \/ migrate_schedule(t)
        PROVE  Moves!Next
    BY <2>2, AskStep DEF check_migrate, migrate, migrate_schedule, Moves!Next
  <2>3. ASSUME NEW t \in Threads, Propose(t) \/ migrate_sighandler(t)
        PROVE  UNCHANGED Moves!vars
    BY <2>3 DEF Propose, migrate_sighandler, shim, Moves!vars, Phase, Goal
  <2>4. CASE UNCHANGED vars
    BY <2>4 DEF vars, kernel, shim, Moves!vars, Phase, Goal
  <2>5. QED
    BY <2>1, <2>2, <2>3, <2>4 DEF Next
<1>3. QED
  BY <1>1, <1>2, InvariantHolds, PTL DEF Spec, ImplementsMoves, Moves!Spec
=============================================================================
