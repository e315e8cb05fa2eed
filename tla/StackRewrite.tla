---------------------------- MODULE StackRewrite ----------------------------
(***************************************************************************)
(* The stack transformation runtime (lib/stack_transformation: rewrite.c,  *)
(* unwind.c, data.c): st_rewrite_stack turns the frames in one half of a   *)
(* thread's stack into the frames another instruction set expects, in the  *)
(* other half.  It unwinds the source to size the destination, then walks  *)
(* both stacks from the function called last outwards, copies live values, *)
(* and remembers pointers to the stack until it meets the data they point  *)
(* to.                                                                     *)
(*                                                                         *)
(* Addresses count words; every value but an alloca takes one.  What the   *)
(* compiler records of a call site (Live, Layout) is a constant, and the   *)
(* source stack is built from it the way compiled code does.  Left out:    *)
(* values generated for the destination (put_val_arch), the two sizes of   *)
(* va_list, constants the metadata cannot hold, and the sizes of pools.    *)
(***************************************************************************)
EXTENDS Integers, Sequences, FiniteSets, SequencesExt

CONSTANTS
  Functions,   \* functions with a call site, "shim" and "start" among them
  Live,        \* Live[f]: the live values of f's call site, in order
  Layout,      \* Layout[arch][f]: return address, size of the frame, where
               \* values are, and which registers are saved where
  CalleeSaved, \* CalleeSaved[arch]: registers a function must preserve
  Programs,    \* bound: moves and chains of calls considered
  HalfSize     \* B_STACK_OFFSET, in words

Archs == {"aarch64", "powerpc64", "x86_64"}
Frame == {"fp", "sp", "pc", "ra"}
RegsOf(arch) == Frame \cup CalleeSaved[arch]

ASSUME LayoutAssumption ==
  /\ {"shim", "start"} \subseteq Functions
  /\ \A f \in Functions : \A arch \in DOMAIN Layout :
       LET site == Layout[arch][f] IN
         /\ Len(site.at) = Len(Live[f])
         /\ DOMAIN site.saved \subseteq RegsOf(arch) \ {"sp"}
         \* a function preserves the registers it keeps live values in
         /\ \A k \in DOMAIN site.at : \A d \in DOMAIN site.at[k] :
              site.at[k][d].kind = "register" /\ f # "start"
                => site.at[k][d].reg \in DOMAIN site.saved
  /\ \A p \in Programs : {p.from, p.to} \subseteq DOMAIN Layout

VARIABLES
  prog,        \* whose stack is rewritten: from, to, upper half, chain of calls
  target,      \* what its live pointers point to
  mem,         \* both halves of the stack
  src, dest,   \* the contexts: activations, the current one, bounds
  fixups,      \* dest->stack_pointers
  pc,          \* what is done next
  k, d,        \* live value and location record of it
  needsLocal,  \* needs_local_fixup
  i, found     \* fixup_local_pointers: fixup_node as an index, found_fixup

scan == <<k, d, needsLocal, i, found>>
vars == <<prog, target, mem, src, dest, fixups, pc, scan>>

Junk == -1            \* memory and registers nothing was written to
Heap == -2            \* any pointer that is not to the stack
FunctionEntry == -3   \* where __migrate_shim_internal begins

-----------------------------------------------------------------------------
(* Properties of the instruction sets                                      *)

HasRaReg(arch) == arch # "x86_64"
RaReg(arch) == IF HasRaReg(arch) THEN "ra" ELSE "pc"
RaOffset(arch) == IF arch = "powerpc64" THEN 2 ELSE -1
CfaOffsetFuncEntry(arch) == IF arch = "x86_64" THEN 1 ELSE 0

SetupFbp(arch, sp, cfa) == IF arch = "powerpc64" THEN sp ELSE cfa - 2

AlignSp(arch, sp) ==
  CASE arch = "aarch64"   -> sp - (2 - (sp % 2))
    [] arch = "x86_64"    -> sp - 1 - (2 - (sp % 2))
    [] arch = "powerpc64" -> IF sp % 2 = 0 THEN sp - 1 ELSE sp

-----------------------------------------------------------------------------
(* The source stack                                                        *)

\* Activations are numbered from the function called last, the shim, to the
\* start function.
StartAct == Len(prog.chain) + 1
FunctionAt(a) ==
  IF a = 0 THEN "shim" ELSE IF a = StartAct THEN "start" ELSE prog.chain[a]
Site(arch, a) == Layout[arch][FunctionAt(a)]
LiveAt(a) == Live[FunctionAt(a)]

SrcBase == IF prog.upper THEN 2 * HalfSize ELSE HalfSize
DestBase == 3 * HalfSize - SrcBase

\* Live pointers point to allocas of the same or of calling functions.
Pointers == {p \in (1 .. StartAct) \X (1 .. 4) :
               p[2] \in DOMAIN LiveAt(p[1]) /\ LiveAt(p[1])[p[2]].ptr}
NoTarget == [act |-> -1, val |-> 0, word |-> 0]
TargetsFrom(a) ==
  {NoTarget} \cup
  {t \in [act : a .. StartAct, val : 1 .. 4, word : 0 .. 1] :
     /\ t.val \in DOMAIN LiveAt(t.act) /\ LiveAt(t.act)[t.val].alloca
     /\ t.word < LiveAt(t.act)[t.val].size}

Datum(a, v, w) == 1000 * a + 100 * v + w

Stored(loc) == loc.kind \in {"direct", "indirect"}
Place(loc, fp, sp) == (IF loc.reg = "fp" THEN fp ELSE sp) + loc.off

\* The stack compiled code has built when get_call_site returns to the shim:
\* where its frames are, what live pointers hold, and what a register a
\* function must preserve holds when activation a runs, which is up to the
\* first function outwards that saves it.
Sp(a) == SrcBase - MapThenSumSet(LAMBDA b : Site(prog.from, b).size, a .. StartAct)
Fp(a) == SetupFbp(prog.from, Sp(a), Sp(a) + Site(prog.from, a).size)

Address(t) ==
  IF t = NoTarget THEN Heap
  ELSE Place(Site(prog.from, t.act).at[t.val][1], Fp(t.act), Sp(t.act)) + t.word

Word(a, v, w) == IF LiveAt(a)[v].ptr THEN Address(target[<<a, v>>]) ELSE Datum(a, v, w)

Holders(a, r) ==
  {v \in DOMAIN LiveAt(a) : \E loc \in ToSet(Site(prog.from, a).at[v]) :
     loc.kind = "register" /\ loc.reg = r}
Held(a, r) ==
  LET user == Min({b \in a .. StartAct :
                     b = StartAct \/ r \in DOMAIN Site(prog.from, b).saved})
  IN  IF Holders(user, r) = {} THEN Junk
      ELSE Word(user, CHOOSE v \in Holders(user, r) : TRUE, 0)

ValueWords(a, v) ==
  UNION {{<<Place(loc, Fp(a), Sp(a)) + w, Word(a, v, w)>> : w \in 0 .. LiveAt(a)[v].size - 1} :
         loc \in {l \in ToSet(Site(prog.from, a).at[v]) : Stored(l)}}
SavedWords(a) ==
  {<<Fp(a) + Site(prog.from, a).saved[r],
     CASE r = RaReg(prog.from) -> Site(prog.from, a + 1).addr
       [] r = "fp"             -> Fp(a + 1)
       [] OTHER                -> Held(a + 1, r)>> : r \in DOMAIN Site(prog.from, a).saved}

CompiledWords ==
  {e : e \in UNION {UNION {ValueWords(a, v) : v \in DOMAIN LiveAt(a)} : a \in 0 .. StartAct}
             \cup UNION {SavedWords(a) : a \in 0 .. StartAct - 1}}
CompiledRegs ==
  [r \in RegsOf(prog.from) |->
     CASE r = "fp" -> Fp(0)
       [] r = "sp" -> Sp(0)
       [] r = "pc" -> Site(prog.from, 0).addr
       [] r = "ra" -> Junk
       [] OTHER    -> Held(0, r)]

-----------------------------------------------------------------------------
(* Contexts                                                                *)

Act(regs, cfa, fun) == [regs |-> regs, cfa |-> cfa, fun |-> fun, saved |-> {}]

\* init_src_context, init_dest_context; NoTarget and target are the program's.
Init ==
  /\ prog \in Programs
  /\ target \in {t \in [Pointers -> TargetsFrom(1)] :
                   \A p \in Pointers : t[p] \in TargetsFrom(p[1])}
  /\ \E words \in {CompiledWords} :
       mem = [x \in 0 .. 2 * HalfSize - 1 |->
                IF \E e \in words : e[1] = x
                THEN (CHOOSE e \in words : e[1] = x)[2] ELSE Junk]
  /\ src = [act |-> 0, stack |-> Sp(0), base |-> SrcBase,
            acts |-> [a \in {0} |-> Act(CompiledRegs, Sp(1), "shim")]]
  /\ dest = [act |-> 0, stack |-> Junk, base |-> DestBase, acts |-> [a \in {} |-> Junk]]
  /\ fixups = <<>>
  /\ pc = "unwind"
  /\ k = 1 /\ d = 1 /\ needsLocal = FALSE /\ i = 1 /\ found = FALSE

\* pop_frame: the registers of the caller of the current function.
PopRegs(arch, act, m) ==
  LET saved == Layout[arch][act.fun].saved
      regs == [r \in DOMAIN act.regs |->
                 IF r \in DOMAIN saved THEN m[act.regs.fp + saved[r]] ELSE act.regs[r]]
  IN  [regs EXCEPT !.pc = IF HasRaReg(arch) THEN regs.ra ELSE @, !.sp = act.cfa]

\* setup_frame_bounds, with the frame pointer.
Bounded(arch, regs, sp, fun) ==
  LET cfa == sp + Layout[arch][fun].size
  IN  Act([regs EXCEPT !.sp = sp, !.fp = SetupFbp(arch, sp, cfa)], cfa, fun)

\* One turn of the loop of unwind_and_size; the site is found by its address.
Unwind ==
  /\ pc = "unwind"
  /\ LET regs == PopRegs(prog.from, src.acts[src.act], mem)
         fun  == CHOOSE f \in Functions : Layout[prog.from][f].addr = regs.pc
         act  == Act(regs, regs.sp + Layout[prog.from][fun].size, fun)
     IN  /\ src' = [src EXCEPT !.act = @ + 1,
                               !.acts = [a \in 0 .. src.act + 1 |->
                                           IF a > src.act THEN act ELSE @[a]]]
         /\ pc' = IF fun = "start" THEN "enter" ELSE "unwind"
  /\ UNCHANGED <<prog, target, mem, dest, fixups, scan>>

\* Mutant of DestSize: the frame of the start function is not counted.
DestSize_NoStart ==
  MapThenSumSet(LAMBDA a : Layout[prog.to][src.acts[a].fun].size, 1 .. src.act - 1)
\* Room for the frames found by unwinding, in the destination's sizes.
DestSize == MapThenSumSet(LAMBDA a : Layout[prog.to][src.acts[a].fun].size, 1 .. src.act)

\* The rest of unwind_and_size and the outermost frame: the shim is about to
\* be entered again, with the return address where a call leaves it.
EnterOutermost ==
  /\ pc = "enter"
  /\ LET arch  == prog.to
         stack == AlignSp(arch, DestBase - (DestSize + 1))
         cfa   == stack + CfaOffsetFuncEntry(arch)
         ra    == Layout[arch][src.acts[1].fun].addr
         junk  == [r \in RegsOf(arch) |-> Junk]
         entry == [junk EXCEPT !.sp = stack, !.pc = FunctionEntry,
                               !.ra = IF HasRaReg(arch) THEN ra ELSE @]
         next  == Bounded(arch, [entry EXCEPT !.pc = ra], cfa, src.acts[1].fun)
     IN  /\ mem' = IF HasRaReg(arch) THEN mem
                   ELSE [mem EXCEPT ![cfa + RaOffset(arch)] = ra]
         /\ dest' = [dest EXCEPT !.act = 1, !.stack = stack,
                       !.acts = [a \in 0 .. 1 |->
                                   IF a = 1 THEN next
                                   ELSE Act([entry EXCEPT !.fp = next.regs.fp], cfa, "shim")]]
  /\ src' = [src EXCEPT !.act = 1]
  /\ pc' = "frame"
  /\ UNCHANGED <<prog, target, fixups, scan>>

-----------------------------------------------------------------------------
(* Values                                                                  *)

here == src.acts[src.act]
SrcSite == Layout[prog.from][here.fun]
DestSite == Layout[prog.to][here.fun]
values == Live[here.fun]

\* get_val_loc, for a value in memory.
Loc(acts, a, loc) == acts[a].regs[loc.reg] + loc.off

\* What writing a value changes: the registers of activations and memory.
Context == [acts |-> dest.acts, mem |-> mem]
Become(out) == mem' = out.mem /\ dest' = [dest EXCEPT !.acts = out.acts]

\* Mutant of PutSaved: the first activation that saved the register is taken.
PutSaved_Innermost(out, a, r, x) ==
  LET savers == {b \in 0 .. a - 1 : r \in out.acts[b].saved}
      b == CHOOSE s \in savers : \A o \in savers : s <= o
  IN  IF r \notin CalleeSaved[prog.to] THEN out
      ELSE IF savers = {} THEN [out EXCEPT !.acts[0].regs[r] = x]
      ELSE [out EXCEPT !.mem[out.acts[b].regs.fp
                             + Layout[prog.to][out.acts[b].fun].saved[r]] = x]

\* callee_saved_loc and the copy to it: the last activation between the
\* register's user and the shim that saved it holds the caller's value.
PutSaved(out, a, r, x) ==
  LET savers == {b \in 0 .. a - 1 : r \in out.acts[b].saved}
      b == CHOOSE s \in savers : \A o \in savers : o <= s
  IN  IF r \notin CalleeSaved[prog.to] THEN out
      ELSE IF savers = {} THEN [out EXCEPT !.acts[0].regs[r] = x]
      ELSE [out EXCEPT !.mem[out.acts[b].regs.fp
                             + Layout[prog.to][out.acts[b].fun].saved[r]] = x]

\* put_val and put_val_data: words go where loc is in activation a.
Put(out, a, loc, words) ==
  CASE loc.kind = "constant" -> out
    [] loc.kind = "register" ->
         PutSaved([out EXCEPT !.acts[a].regs[loc.reg] = words[1]], a, loc.reg, words[1])
    [] OTHER ->
         [out EXCEPT !.mem =
            FoldLeft(LAMBDA m, w : [m EXCEPT ![Loc(out.acts, a, loc) + w - 1] = words[w]],
                     @, [w \in DOMAIN words |-> w])]

\* get_src_loc and the words found there.
SrcWords(v) ==
  LET loc == SrcSite.at[v][1] IN
    CASE loc.kind = "constant" -> <<loc.off>>
      [] loc.kind = "register" -> <<here.regs[loc.reg]>>
      [] OTHER -> [w \in 1 .. values[v].size |-> mem[Loc(src.acts, src.act, loc) + w - 1]]

\* points_to_stack
PointsToStack(v) ==
  values[v].ptr /\ src.stack <= SrcWords(v)[1] /\ SrcWords(v)[1] < src.base

\* points_to_data: whether address x is in alloca v of the current frame, and
\* where that is in the destination.
PointsInto(x, v) ==
  LET at == Loc(src.acts, src.act, SrcSite.at[v][1])
  IN  values[v].alloca /\ at <= x /\ x < at + values[v].size
DestAddress(acts, x, v) ==
  Loc(acts, dest.act, DestSite.at[v][1]) + (x - Loc(src.acts, src.act, SrcSite.at[v][1]))

Resolve(out, fix, v) ==
  Put(out, fix.act, fix.loc, <<DestAddress(out.acts, fix.addr, v)>>)

\* set_return_address, but for the start function
SetReturnAddress ==
  /\ pc = "frame"
  /\ mem' = IF src.act = StartAct THEN mem
            ELSE [mem EXCEPT ![dest.acts[dest.act].cfa + RaOffset(prog.to)] =
                               Layout[prog.to][src.acts[src.act + 1].fun].addr]
  /\ k' = 1 /\ d' = 1 /\ needsLocal' = FALSE
  /\ pc' = "values"
  /\ UNCHANGED <<prog, target, src, dest, fixups, i, found>>

\* The loop of rewrite_frame: first all records of a value, then the next.
NextRecord ==
  IF d < Len(DestSite.at[k]) THEN k' = k /\ d' = d + 1 ELSE k' = k + 1 /\ d' = 1

SkipTemporary ==
  /\ pc = "values" /\ k \in DOMAIN values
  /\ values[k].temp
  /\ NextRecord
  /\ UNCHANGED <<prog, target, mem, src, dest, fixups, pc, needsLocal, i, found>>

\* rewrite_val
RewriteValue ==
  /\ pc = "values" /\ k \in DOMAIN values
  /\ ~values[k].temp
  /\ \E x \in {SrcWords(k)[1]} :
     LET loc  == DestSite.at[k][d]
         kept == PointsToStack(k) /\ x >= src.acts[src.act - 1].cfa
         all  == IF kept THEN Append(fixups, [addr |-> x, act |-> dest.act, loc |-> loc])
                 ELSE fixups
         put  == IF PointsToStack(k) THEN Context ELSE Put(Context, dest.act, loc, SrcWords(k))
         Hit(f) == PointsInto(f.addr, k)
     IN  /\ Become(FoldLeft(LAMBDA out, f : Resolve(out, f, k), put, SelectSeq(all, Hit)))
         /\ fixups' = SelectSeq(all, LAMBDA f : ~Hit(f))
         /\ needsLocal' = (needsLocal \/ (kept /\ x < here.cfa))
  /\ NextRecord
  /\ UNCHANGED <<prog, target, src, pc, i, found>>

\* found_fixup is read uninitialized when the first fixup is of another frame.
ValuesDone ==
  /\ pc = "values" /\ k \notin DOMAIN values
  /\ IF needsLocal
     THEN pc' = "local" /\ i' = 1 /\ found' \in BOOLEAN
     ELSE pc' = "pop" /\ UNCHANGED <<i, found>>
  /\ UNCHANGED <<prog, target, mem, src, dest, fixups, k, d, needsLocal>>

-----------------------------------------------------------------------------
(* fixup_local_pointers                                                    *)

InFrame(fix) == fix.addr <= here.cfa
Pointed(fix) == {v \in DOMAIN values : PointsInto(fix.addr, v)}

FixOther ==
  /\ pc = "local" /\ i \in DOMAIN fixups
  /\ ~InFrame(fixups[i])
  /\ i' = IF found THEN i ELSE i + 1
  /\ UNCHANGED <<prog, target, mem, src, dest, fixups, pc, k, d, needsLocal, found>>

FixLocal ==
  /\ pc = "local" /\ i \in DOMAIN fixups
  /\ InFrame(fixups[i]) /\ fixups[i].act = src.act
  /\ \E v \in Pointed(fixups[i]) :
       Become(Resolve(Context, fixups[i], v))
  /\ fixups' = RemoveAt(fixups, i)
  /\ found' = TRUE
  /\ UNCHANGED <<prog, target, src, pc, k, d, needsLocal, i>>

\* Mutant of FixNothing: found_fixup stays as it was.
FixNothing_Stale ==
  /\ pc = "local" /\ i \in DOMAIN fixups
  /\ InFrame(fixups[i])
  /\ \/ fixups[i].act # src.act /\ i' = i + 1
     \/ fixups[i].act = src.act /\ Pointed(fixups[i]) = {} /\ i' = IF found THEN i ELSE i + 1
  /\ UNCHANGED <<prog, target, mem, src, dest, fixups, pc, k, d, needsLocal, found>>

\* Not resolved: a pointer a called function left (a warning), or one to the
\* word at the canonical frame address, which is the caller's.
FixNothing ==
  /\ pc = "local" /\ i \in DOMAIN fixups
  /\ InFrame(fixups[i])
  /\ \/ fixups[i].act # src.act /\ UNCHANGED found
     \/ fixups[i].act = src.act /\ Pointed(fixups[i]) = {} /\ found' = FALSE
  /\ i' = i + 1
  /\ UNCHANGED <<prog, target, mem, src, dest, fixups, pc, k, d, needsLocal>>

LocalDone ==
  /\ pc = "local" /\ i \notin DOMAIN fixups
  /\ pc' = "pop"
  /\ UNCHANGED <<prog, target, mem, src, dest, fixups, scan>>

-----------------------------------------------------------------------------
(* From frame to frame                                                     *)

\* pop_frame of the destination; the caller's frame pointer is saved where the
\* function popped restores it from.
PopDest ==
  /\ pc = "pop" /\ src.act < StartAct
  /\ LET cur  == dest.acts[dest.act]
         slot == cur.regs.fp + DestSite.saved.fp
         next == Bounded(prog.to, PopRegs(prog.to, cur, mem), cur.cfa,
                         src.acts[src.act + 1].fun)
     IN  /\ mem' = [mem EXCEPT ![slot] = next.regs.fp]
         /\ dest' = [dest EXCEPT !.act = @ + 1,
                       !.acts = [a \in 0 .. dest.act + 1 |->
                                   IF a > dest.act THEN next
                                   ELSE IF a = dest.act
                                   THEN [cur EXCEPT !.saved = DOMAIN DestSite.saved]
                                   ELSE @[a]]]
  /\ src' = [src EXCEPT !.act = @ + 1]
  /\ pc' = "frame"
  /\ UNCHANGED <<prog, target, fixups, scan>>

Finish ==
  /\ pc = "pop" /\ src.act = StartAct
  /\ pc' = "done"
  /\ UNCHANGED <<prog, target, mem, src, dest, fixups, scan>>

Finished == pc = "done" /\ UNCHANGED vars

Next ==
  \/ Unwind \/ EnterOutermost \/ SetReturnAddress
  \/ SkipTemporary \/ RewriteValue \/ ValuesDone
  \/ FixOther \/ FixLocal \/ FixNothing \/ LocalDone
  \/ PopDest \/ Finish \/ Finished

Spec == Init /\ [][Next]_vars
FairSpec == Spec /\ WF_vars(Next)

-----------------------------------------------------------------------------
(* What the destination sees                                               *)

\* The registers of the destination at each activation as its own code will
\* see them: the shim returns, and every epilogue restores what was saved.
SeenRegs ==
  LET arch  == prog.to
      first == dest.acts[0].regs
      Return(callee, a) ==
        LET saved == Site(arch, a).saved IN
          [r \in RegsOf(arch) |->
             CASE r = "sp" -> callee.sp + Site(arch, a).size
               [] r = "pc" -> mem[callee.fp + saved[RaReg(arch)]]
               [] OTHER    -> IF r \in DOMAIN saved THEN mem[callee.fp + saved[r]]
                              ELSE callee[r]]
  IN  FoldLeft(LAMBDA seen, a : Append(seen, Return(seen[a], a)),
               <<[first EXCEPT !.sp = @ + CfaOffsetFuncEntry(arch),
                               !.pc = IF HasRaReg(arch) THEN first.ra ELSE mem[first.sp]]>>,
               [a \in 1 .. StartAct - 1 |-> a])

\* Every function returns to its caller, in the frame it expects.
ReturnsMatch(seen) ==
  \A a \in 1 .. StartAct :
    /\ seen[a].pc = Site(prog.to, a).addr
    /\ seen[a].fp = SetupFbp(prog.to, seen[a].sp, seen[a].sp + Site(prog.to, a).size)

\* Every live value is what it was: data is the same, a pointer points to the
\* same word of the same variable.
ValuesMatch(seen) ==
  \A a \in 1 .. StartAct : \A v \in DOMAIN LiveAt(a) :
    LET At(b, loc) == Place(loc, seen[b].fp, seen[b].sp)
        t == target[<<a, v>>]
        Expected(w) ==
          IF ~LiveAt(a)[v].ptr THEN IF Site(prog.from, a).at[v][1].kind = "constant"
                                    THEN Site(prog.from, a).at[v][1].off
                                    ELSE Datum(a, v, w)
          ELSE IF t = NoTarget THEN Heap
          ELSE At(t.act, Site(prog.to, t.act).at[t.val][1]) + t.word
    IN  ~LiveAt(a)[v].temp =>
          \A e \in DOMAIN Site(prog.to, a).at[v] :
            LET loc == Site(prog.to, a).at[v][e] IN
              /\ loc.kind = "register" => seen[a][loc.reg] = Expected(0)
              /\ Stored(loc) => \A w \in 0 .. LiveAt(a)[v].size - 1 :
                                  mem[At(a, loc) + w] = Expected(w)

\* A finished stack means to the destination's code what the source stack
\* meant: whoever saved a register, however far a pointer reaches.
SameProgram == pc = "done" => LET seen == SeenRegs IN ReturnsMatch(seen) /\ ValuesMatch(seen)

\* Nothing is written to the half the thread runs on, nor below the stack
\* pointer or beyond the half that is rewritten to: what unwind_and_size found
\* is enough for every write of every frame.
OnlyDestination ==
  [][\A x \in DOMAIN mem :
       mem'[x] # mem[x] => dest'.stack <= x /\ x < dest'.base]_vars

\* The rewriting ends, but for frames with a pointer to their own data while a
\* pointer to a caller's data waits to be fixed.
LocalAndOutward == needsLocal /\ \E f \in ToSet(fixups) : ~InFrame(f)
RewriteEnds == <>(pc = "done" \/ LocalAndOutward)

\* It always ends.
RewriteAlwaysEnds == <>(pc = "done")
=============================================================================
