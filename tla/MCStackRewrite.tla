--------------------------- MODULE MCStackRewrite ---------------------------
(***************************************************************************)
(* Call sites as a compiler lays them out for three instruction sets, and  *)
(* chains of up to three calls between them.                               *)
(***************************************************************************)
EXTENDS StackRewrite

Value(size, alloca, ptr, temp) == [size |-> size, alloca |-> alloca, ptr |-> ptr, temp |-> temp]
Data    == Value(1, FALSE, FALSE, FALSE)
Ptr     == Value(1, FALSE, TRUE, FALSE)
Temp    == Value(1, FALSE, FALSE, TRUE)
Buffer  == Value(2, TRUE, FALSE, FALSE)
PtrSlot == Value(1, TRUE, TRUE, FALSE)

Sites ==
  [shim  |-> <<>>,
   scan  |-> <<Buffer, Ptr>>,          \* a buffer and a cursor
   fill  |-> <<Ptr, PtrSlot, Data>>,   \* an argument, a variable holding a pointer
   copy  |-> <<Buffer, Ptr, Ptr>>,     \* a buffer and two cursors
   leaf  |-> <<Temp, Data, Data>>,
   start |-> <<Buffer>>]

Reg(r) == <<[kind |-> "register", reg |-> r, off |-> 0]>>
Direct(r, off) == <<[kind |-> "direct", reg |-> r, off |-> off]>>
Slot(r, off) == <<[kind |-> "indirect", reg |-> r, off |-> off]>>
Const(c) == <<[kind |-> "constant", reg |-> "fp", off |-> c]>>

S(addr, size, saved, at) == [addr |-> addr, size |-> size, saved |-> saved, at |-> at]

\* x86-64: return address at fp + 1, saved frame pointer at fp.
X86 ==
  [shim  |-> S(501, 4, [pc |-> 1, fp |-> 0, rbx |-> -1], <<>>),
   scan  |-> S(502, 6, [pc |-> 1, fp |-> 0, rbx |-> -1], <<Direct("fp", -3), Reg("rbx")>>),
   fill  |-> S(503, 6, [pc |-> 1, fp |-> 0, rbx |-> -1],
               <<Slot("sp", 0), Direct("fp", -2), Reg("rbx")>>),
   copy  |-> S(506, 8, [pc |-> 1, fp |-> 0, rbx |-> -1],
               <<Direct("sp", 1), Slot("fp", -2), Reg("rbx")>>),
   leaf  |-> S(504, 4, [pc |-> 1, fp |-> 0], <<Direct("fp", -2), Const(7), Slot("fp", -1)>>),
   start |-> S(505, 6, [pc |-> 1, fp |-> 0], <<Direct("sp", 0)>>)]

\* AArch64: a frame record at the top of the frame, more registers to save.
Arm ==
  [shim  |-> S(601, 4, [ra |-> 1, fp |-> 0, x19 |-> -1], <<>>),
   scan  |-> S(602, 8, [ra |-> 1, fp |-> 0, x20 |-> -1],
               <<Direct("sp", 1), Reg("x20") \o Slot("fp", -2)>>),
   fill  |-> S(603, 8, [ra |-> 1, fp |-> 0, x19 |-> -1, x20 |-> -2],
               <<Reg("x19"), Direct("fp", -3), Reg("x20")>>),
   copy  |-> S(606, 8, [ra |-> 1, fp |-> 0, x19 |-> -1, x20 |-> -2],
               <<Direct("sp", 0), Reg("x20"), Reg("x19")>>),
   leaf  |-> S(604, 4, [ra |-> 1, fp |-> 0, x19 |-> -1],
               <<Direct("fp", -2), Slot("fp", -2), Reg("x19")>>),
   start |-> S(605, 4, [ra |-> 1, fp |-> 0], <<Direct("fp", -2)>>)]

\* POWER: the frame base is the stack pointer, the return address is saved in
\* the header of the caller's frame.
Power ==
  [shim  |-> S(701, 6, [ra |-> 8, fp |-> 5, r14 |-> 4], <<>>),
   scan  |-> S(702, 8, [ra |-> 10, fp |-> 7, r14 |-> 6], <<Direct("sp", 4), Reg("r14")>>),
   fill  |-> S(703, 8, [ra |-> 10, fp |-> 7, r14 |-> 6],
               <<Slot("sp", 3), Direct("sp", 4), Reg("r14")>>),
   copy  |-> S(706, 10, [ra |-> 12, fp |-> 9, r14 |-> 8],
               <<Direct("sp", 4), Reg("r14"), Slot("sp", 3)>>),
   leaf  |-> S(704, 6, [ra |-> 8, fp |-> 5], <<Direct("sp", 3), Const(7), Slot("sp", 4)>>),
   start |-> S(705, 8, [ra |-> 10, fp |-> 7], <<Direct("sp", 4)>>)]

Layouts == [x86_64 |-> X86, aarch64 |-> Arm, powerpc64 |-> Power]
Preserved == [x86_64 |-> {"rbx"}, aarch64 |-> {"x19", "x20"}, powerpc64 |-> {"r14"}]

Chains == {<<"fill">>, <<"copy">>, <<"scan", "fill">>, <<"fill", "scan">>, <<"fill", "fill">>,
           <<"leaf", "scan">>, <<"leaf", "leaf", "leaf">>, <<"scan", "leaf", "scan">>,
           <<"scan", "leaf", "fill">>}
Moves == {<<"x86_64", "aarch64", TRUE>>, <<"aarch64", "x86_64", FALSE>>,
          <<"x86_64", "powerpc64", TRUE>>, <<"powerpc64", "x86_64", FALSE>>}
Program(m, c) == [from |-> m[1], to |-> m[2], upper |-> m[3], chain |-> c]
AllPrograms == {Program(m, c) : m \in Moves, c \in Chains}
OneProgram == {Program(<<"x86_64", "aarch64", TRUE>>, <<"copy">>)}
=============================================================================
