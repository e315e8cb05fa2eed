----------------------------- MODULE Migration -----------------------------
(***************************************************************************)
(* The migration library (lib/migration: migrate.c, trigger.c, mapping.c,  *)
(* the MIGRATE macros and the fix-up code of the instruction sets), and    *)
(* the thread pointer and descriptor of musl.                              *)
(*                                                                         *)
(* __migrate_shim_internal is entered twice on the way to a node of        *)
(* another instruction set: the arguments saved in the thread's descriptor *)
(* tell the second time from the first.  On the way to a node of the same  *)
(* instruction set it goes on behind the system call.  Between             *)
(* __set_thread_area and the arrival the thread pointer has the layout of  *)
(* the destination.  StackRewrite models what the rewriting does.          *)
(* The kernel is external: it moves the thread or refuses to.              *)
(***************************************************************************)
EXTENDS Integers, Sequences

CONSTANTS
  Threads,
  Nodes,      \* node IDs below MAX_POPCORN_NODES
  ArchOf,     \* ni[].arch
  Online,     \* nodes whose ni[].status was 1 when the program began
  Origin,     \* origin_nid
  Handles,    \* instruction sets there is rewriting metadata for
  MayRefuse,  \* pairs of nodes between which the kernel may refuse to move
  ReentryNid, \* ReentryNid[arch]: what nid can hold on re-entry; the fix-up
              \* code of AArch64 leaves 0 in its register, that of x86-64
              \* whatever was in its
  Ptid,       \* popcorn_tid of each thread
  Mappings,   \* the thread schedule: region to nodes by popcorn_tid
  Proposals,  \* nodes the operating system proposes
  Nids,       \* nodes given to migrate
  MaxCalls,   \* bound on the calls of a thread that reach the shim
  MaxSignals  \* bound on the signals handled

ASSUME MigrationAssumption ==
  /\ Nodes \subseteq Nat
  /\ DOMAIN ArchOf = Nodes /\ Online \subseteq Nodes /\ Origin \in Online
  /\ \A t \in Threads : Ptid[t] \in Int
  /\ \A p \in MayRefuse : {p[1], p[2]} \subseteq Nodes

VARIABLES
  node,      \* the kernel's: where a thread runs
  proposed,  \* the kernel's: proposed_nid
  tls,       \* the instruction set the thread pointer is laid out for
  stack,     \* the instruction set the frames in use are laid out for
  args,      \* popcorn_migrate_args: the post_syscall of struct shim_data
  flag,      \* __migrate_flag
  pc, nid,   \* where a thread is in __migrate_shim_internal, and its nid
  ran,       \* callbacks run
  calls, signals

kernel == <<node, proposed>>
shim == <<pc, nid>>
counts == <<calls, signals>>
vars == <<kernel, tls, stack, args, flag, shim, ran, counts>>

NoArgs == "none"

Init ==
  /\ node = [t \in Threads |-> Origin]
  /\ proposed = [t \in Threads |-> -1]
  /\ tls = [t \in Threads |-> ArchOf[Origin]]
  /\ stack = [t \in Threads |-> ArchOf[Origin]]
  /\ args = [t \in Threads |-> NoArgs]
  /\ flag = -1
  /\ pc = [t \in Threads |-> "user"]
  /\ nid = [t \in Threads |-> -1]
  /\ ran = [t \in Threads |-> 0]
  /\ calls = [t \in Threads |-> 0] /\ signals = 0

-----------------------------------------------------------------------------
(* Helpers                                                                 *)

node_available(n) == n \in Nodes /\ n \in Online

current_arch(t) == ArchOf[node[t]]

\* Whether the thread's descriptor is where the code that runs looks for it.
TlsValid(t) == tls[t] = current_arch(t)

\* pthread_set_migrate_args: through the wrong thread pointer the descriptor
\* is missed.
SetArgs(t, x) == args' = IF TlsValid(t) THEN [args EXCEPT ![t] = x] ELSE args

get_node_mapping(region, ptid) ==
  IF ptid >= 0 /\ region \in DOMAIN Mappings /\ ptid < Len(Mappings[region])
  THEN Mappings[region][ptid + 1]
  ELSE Origin

-----------------------------------------------------------------------------
(* Calls                                                                   *)

\* A call that passes the comparison with the node it is on.
EnterShim(t, n) ==
  /\ pc[t] = "user" /\ calls[t] < MaxCalls
  /\ n # node[t]
  /\ pc' = [pc EXCEPT ![t] = "entered"]
  /\ nid' = [nid EXCEPT ![t] = n]
  /\ calls' = [calls EXCEPT ![t] = @ + 1]
  /\ UNCHANGED <<kernel, tls, stack, args, flag, ran, signals>>

check_migrate(t) == proposed[t] >= 0 /\ EnterShim(t, proposed[t])
migrate(t) == \E n \in Nids : EnterShim(t, n)
migrate_schedule(t) ==
  \E region \in DOMAIN Mappings \cup {0} : EnterShim(t, get_node_mapping(region, Ptid[t]))

\* The operating system asks a thread to move, by itself or because the signal
\* handler told it to; the handler also runs inside the library.
Propose(t) ==
  /\ pc[t] = "user" /\ proposed[t] = -1 /\ calls[t] < MaxCalls
  /\ \E n \in Proposals : proposed' = [proposed EXCEPT ![t] = n]
  /\ UNCHANGED <<node, tls, stack, args, flag, shim, ran, counts>>

migrate_sighandler(t) ==
  /\ signals < MaxSignals
  /\ signals' = signals + 1
  /\ IF flag >= 0 THEN UNCHANGED <<flag, proposed>>
     ELSE flag' = 1 /\ proposed' = [proposed EXCEPT ![t] = 1]
  /\ UNCHANGED <<node, tls, stack, args, shim, ran, calls>>

-----------------------------------------------------------------------------
(* __migrate_shim_internal                                                 *)

\* Of a call, or on re-entry.
NotAvailable(t) ==
  /\ pc[t] = "entered"
  /\ ~node_available(nid[t])
  /\ pc' = [pc EXCEPT ![t] = "user"]
  /\ UNCHANGED <<kernel, tls, stack, args, flag, nid, ran, counts>>

\* The second time, with the arguments the first left.
Reentered(t) ==
  /\ pc[t] = "entered"
  /\ node_available(nid[t])
  /\ TlsValid(t) /\ args[t] # NoArgs
  /\ pc' = [pc EXCEPT ![t] = "arrived"]
  /\ UNCHANGED <<kernel, tls, stack, args, flag, nid, ran, counts>>

\* REWRITE_STACK: another instruction set needs the metadata of both.
CanRewrite(t, n) ==
  ArchOf[n] = current_arch(t) \/ {current_arch(t), ArchOf[n]} \subseteq Handles

CannotRewrite(t) ==
  /\ pc[t] = "entered"
  /\ node_available(nid[t])
  /\ TlsValid(t) /\ args[t] = NoArgs
  /\ ~CanRewrite(t, nid[t])
  /\ pc' = [pc EXCEPT ![t] = "user"]
  /\ UNCHANGED <<kernel, tls, stack, args, flag, nid, ran, counts>>

\* Mutant of Rewrite: the arguments are saved after __set_thread_area.
Rewrite_TlsFirst(t) ==
  /\ pc[t] = "entered"
  /\ node_available(nid[t])
  /\ TlsValid(t) /\ args[t] = NoArgs
  /\ CanRewrite(t, nid[t])
  /\ tls' = [tls EXCEPT ![t] = ArchOf[nid[t]]]
  /\ args' = IF ArchOf[nid[t]] = current_arch(t) THEN [args EXCEPT ![t] = "syscall"] ELSE args
  /\ pc' = [pc EXCEPT ![t] = "rewritten"]
  /\ UNCHANGED <<kernel, stack, flag, nid, ran, counts>>

\* The rewritten frames are in the other half of the stack; the thread keeps
\* its own until MIGRATE.
Rewrite(t) ==
  /\ pc[t] = "entered"
  /\ node_available(nid[t])
  /\ TlsValid(t) /\ args[t] = NoArgs
  /\ CanRewrite(t, nid[t])
  /\ SetArgs(t, IF ArchOf[nid[t]] = current_arch(t) THEN "syscall" ELSE "start")
  /\ pc' = [pc EXCEPT ![t] = "rewritten"]
  /\ UNCHANGED <<kernel, tls, stack, flag, nid, ran, counts>>

clear_migrate_flag(t) ==
  /\ pc[t] = "rewritten"
  /\ flag' = -1
  /\ pc' = [pc EXCEPT ![t] = "cleared"]
  /\ UNCHANGED <<kernel, tls, stack, args, nid, ran, counts>>

\* __set_thread_area, and MIGRATE up to the system call: the stack pointer is
\* the destination's already.
SetThreadArea(t) ==
  /\ pc[t] = "cleared"
  /\ tls' = [tls EXCEPT ![t] = ArchOf[nid[t]]]
  /\ stack' = [stack EXCEPT ![t] = ArchOf[nid[t]]]
  /\ pc' = [pc EXCEPT ![t] = "syscall"]
  /\ UNCHANGED <<kernel, args, flag, nid, ran, counts>>

\* sched_migrate; the thread begins in the fix-up code of the destination, and
\* a proposal it was moved by is gone.
Moved(t) ==
  /\ pc[t] = "syscall"
  /\ node' = [node EXCEPT ![t] = nid[t]]
  /\ proposed' = [proposed EXCEPT ![t] = IF @ = nid[t] THEN -1 ELSE @]
  /\ pc' = [pc EXCEPT ![t] = "fixup"]
  /\ UNCHANGED <<tls, stack, args, flag, nid, ran, counts>>

\* Mutant of Refused: the early return forgets the arguments.
Refused_KeepsArgs(t) ==
  /\ pc[t] = "syscall"
  /\ <<node[t], nid[t]>> \in MayRefuse
  /\ pc' = [pc EXCEPT ![t] = "user"]
  /\ UNCHANGED <<kernel, tls, stack, args, flag, nid, ran, counts>>

\* Mutant of Refused: the error is not looked at.
Refused_GoesOn(t) ==
  /\ pc[t] = "syscall"
  /\ <<node[t], nid[t]>> \in MayRefuse
  /\ pc' = [pc EXCEPT ![t] = "arrived"]
  /\ UNCHANGED <<kernel, tls, stack, args, flag, nid, ran, counts>>

\* The kernel refuses: err is set, the arguments are taken back.
Refused(t) ==
  /\ pc[t] = "syscall"
  /\ <<node[t], nid[t]>> \in MayRefuse
  /\ SetArgs(t, NoArgs)
  /\ pc' = [pc EXCEPT ![t] = "user"]
  /\ UNCHANGED <<kernel, tls, stack, flag, nid, ran, counts>>

\* Without arguments this code calls crash_<arch>.
Fixup(t) ==
  /\ pc[t] = "fixup"
  /\ TlsValid(t) /\ args[t] # NoArgs
  /\ \/ /\ args[t] = "syscall"
        /\ pc' = [pc EXCEPT ![t] = "arrived"] /\ UNCHANGED nid
     \/ /\ args[t] = "start"
        /\ pc' = [pc EXCEPT ![t] = "entered"]
        /\ \E n \in ReentryNid[current_arch(t)] : nid' = [nid EXCEPT ![t] = n]
  /\ UNCHANGED <<kernel, tls, stack, args, flag, ran, counts>>

Callback(t) ==
  /\ pc[t] = "arrived"
  /\ ran' = [ran EXCEPT ![t] = @ + 1]
  /\ pc' = [pc EXCEPT ![t] = "called"]
  /\ UNCHANGED <<kernel, tls, stack, args, flag, nid, counts>>

Return(t) ==
  /\ pc[t] = "called"
  /\ SetArgs(t, NoArgs)
  /\ pc' = [pc EXCEPT ![t] = "user"]
  /\ UNCHANGED <<kernel, tls, stack, flag, nid, ran, counts>>

Shim(t) ==
  \/ NotAvailable(t) \/ Reentered(t) \/ CannotRewrite(t) \/ Rewrite(t)
  \/ clear_migrate_flag(t) \/ SetThreadArea(t) \/ Moved(t) \/ Refused(t)
  \/ Fixup(t) \/ Callback(t) \/ Return(t)

Next ==
  \E t \in Threads :
    \/ check_migrate(t) \/ migrate(t) \/ migrate_schedule(t)
    \/ Propose(t) \/ migrate_sighandler(t)
    \/ Shim(t)

Spec == Init /\ [][Next]_vars

\* A thread that is scheduled goes on, and the system call ends.
FairSpec == Spec /\ \A t \in Threads : WF_vars(Shim(t))

-----------------------------------------------------------------------------
(* Properties                                                              *)

\* Whenever the program's own code runs, thread pointer and stack are laid out
\* for the node it runs on and no arguments of an earlier migration are left
\* for the next call to mistake for its own.
ReadyToRun ==
  \A t \in Threads :
    /\ pc[t] \in {"user", "arrived", "called"} =>
         TlsValid(t) /\ stack[t] = current_arch(t)
    /\ pc[t] = "user" => args[t] = NoArgs

\* Every call moves the thread and runs its callback there once, or does
\* neither.
Asking == {"rewritten", "cleared", "syscall"}
Phase(t) ==
  IF pc[t] \in Asking \/ (pc[t] = "entered" /\ args[t] = NoArgs) THEN "asked"
  ELSE IF pc[t] \in {"entered", "fixup", "arrived"} THEN "arrived" ELSE "running"
Goal(t) ==
  IF pc[t] \in {"user", "called"} \/ Phase(t) = "arrived" THEN node[t] ELSE nid[t]

Moves ==
  INSTANCE ThreadMoves WITH
    at <- node, phase <- [t \in Threads |-> Phase(t)],
    goal <- [t \in Threads |-> Goal(t)]

ImplementsMoves == Moves!Spec

\* Every call returns: no thread is left on the way, or crashes on arrival.
CallsReturn == \A t \in Threads : pc[t] # "user" ~> pc[t] = "user"

\* A thread the signal handler has told to move does so.
ProposalsServed == \A t \in Threads : proposed[t] = 1 ~> node[t] = 1
=============================================================================
