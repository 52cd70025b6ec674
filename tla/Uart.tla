------------------------------- MODULE Uart -------------------------------
(***************************************************************************)
(* The emulated UART (riscv-vm/src/devices/uart.rs): the receive FIFO, the *)
(* registers an interrupt depends on and the interrupt line.  Every        *)
(* operation below holds the regs lock from its first access to its last,  *)
(* so each is one step.  The bytes themselves, the transmit FIFO and the   *)
(* registers that are only stored and read back decide nothing and are     *)
(* left out.                                                               *)
(***************************************************************************)
EXTENDS Integers

VARIABLES
  rx,             \* rx.fifo: the number of bytes in it
  data_ready,     \* regs.lsr, bit 0
  ier,            \* regs.ier: the interrupts that are enabled
  iir,            \* regs.iir: the interrupt that is reported
  thre_ip,        \* tx.thre_ip
  dlab,           \* regs.lcr, bit 7
  interrupting    \* regs.interrupting: the line to the PLIC

uartVars == <<rx, data_ready, ier, iir, thre_ip, dlab, interrupting>>

Reasons == {"rda", "thre"}

UartTypeOK ==
  /\ rx \in Nat
  /\ data_ready \in BOOLEAN
  /\ ier \in SUBSET Reasons
  /\ iir \in Reasons \cup {"none"}
  /\ thre_ip \in BOOLEAN
  /\ dlab \in BOOLEAN
  /\ interrupting \in BOOLEAN

(* update_interrupts_internal, on the registers as the operation leaves    *)
(* them: received data comes before an empty transmitter.                  *)
UpdateInterrupts ==
  /\ iir' = IF data_ready' /\ "rda" \in ier' THEN "rda"
            ELSE IF thre_ip' /\ "thre" \in ier' THEN "thre"
            ELSE "none"
  /\ interrupting' = (iir' # "none")

(* Mutant: a byte that arrives does not recompute the interrupt. *)
PushInputQuietly ==
  /\ rx' = rx + 1
  /\ data_ready' = TRUE
  /\ UNCHANGED <<ier, thre_ip, dlab, iir, interrupting>>

(* push_input *)
PushInput ==
  /\ rx' = rx + 1
  /\ data_ready' = TRUE
  /\ UNCHANGED <<ier, thre_ip, dlab>>
  /\ UpdateInterrupts

(* load(RBR): the divisor latch if DLAB is set, else the next byte, or 0   *)
(* if there is none.                                                       *)
LoadRbr ==
  \/ dlab /\ UNCHANGED uartVars
  \/ /\ ~dlab
     /\ rx' = IF rx = 0 THEN 0 ELSE rx - 1
     /\ data_ready' = (data_ready /\ rx' # 0)
     /\ UNCHANGED <<ier, thre_ip, dlab>>
     /\ UpdateInterrupts

(* load(IIR): reading a THRE interrupt acknowledges it. *)
LoadIir ==
  \/ /\ iir = "thre"
     /\ thre_ip' = FALSE
     /\ UNCHANGED <<rx, data_ready, ier, dlab>>
     /\ UpdateInterrupts
  \/ iir # "thre" /\ UNCHANGED uartVars

(* store(THR): the byte is sent at once. *)
StoreThr ==
  \/ dlab /\ UNCHANGED uartVars
  \/ /\ ~dlab
     /\ thre_ip' = TRUE
     /\ UNCHANGED <<rx, data_ready, ier, dlab>>
     /\ UpdateInterrupts

(* store(IER) *)
StoreIer(enabled) ==
  \/ dlab /\ UNCHANGED uartVars
  \/ /\ ~dlab
     /\ ier' = enabled
     /\ UNCHANGED <<rx, data_ready, thre_ip, dlab>>
     /\ UpdateInterrupts

(* store(FCR) with the bit that clears the receive FIFO: the interrupt is  *)
(* not recomputed.                                                         *)
StoreFcr ==
  /\ rx' = 0
  /\ data_ready' = FALSE
  /\ UNCHANGED <<ier, iir, thre_ip, dlab, interrupting>>

(* store(LCR) *)
StoreLcr(latch) ==
  /\ dlab' = latch
  /\ UNCHANGED <<rx, data_ready, ier, iir, thre_ip, interrupting>>

-----------------------------------------------------------------------------

(* Data Ready tells a driver exactly when a byte can be read, and a byte   *)
(* the driver asked to be told of holds the interrupt line up and is what  *)
(* IIR reports, whatever mix of host input, reads, FIFO clears and         *)
(* register writes came before.                                            *)
InputHoldsLine ==
  /\ data_ready <=> rx > 0
  /\ rx > 0 /\ "rda" \in ier => interrupting /\ iir = "rda"
=============================================================================
