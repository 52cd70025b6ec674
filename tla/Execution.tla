----------------------------- MODULE Execution ------------------------------
(***************************************************************************)
(* What an execution engine of the VM promises: the hart runs the program  *)
(* one instruction after the other, as the interpreter does.  Two things   *)
(* are left open, as the instruction set leaves them open: a store that    *)
(* traps may or may not give up a reservation, and an encoding that means  *)
(* nothing may trap or do nothing.                                         *)
(***************************************************************************)
EXTENDS Isa

VARIABLES hart, prog

eVars == <<hart, prog>>

\* Encodings without a meaning; r is the interpreter's step.  The interpreter
\* finds out about some of them only after it has translated an address.
Meaningless(op, r) ==
  \/ r.trap # None /\ r.trap.why = IllegalInstruction
  \/ op.kind = "Store" /\ op.funct3 > 3
  \/ op.kind = "Amo" /\ op.funct5 \notin {0, 1, 2, 3, 4, 8, 12, 16, 20, 24, 28}

Outcomes(s, op, len) ==
  LET r == StepSingle(s, op, len)
  IN  {r}
        \cup (IF op.kind = "Store" /\ r.trap # None
              THEN {[r EXCEPT !.reservation = s.reservation]} ELSE {})
        \cup (IF Meaningless(op, r) THEN {Retire(s, s.pc + len)} ELSE {})

Instruction ==
  /\ hart.trap = None
  /\ LET f == Fetch(prog, hart.pc)
     IN  IF f.why # None THEN hart' = Trapped(hart, f.why)
         ELSE hart' \in Outcomes(hart, f.op, f.len)
  /\ UNCHANGED prog

\* The engine may be started on any hart and any program.
ExecutionSpec == [][Instruction]_eVars
=============================================================================
