-------------------------------- MODULE Fifo --------------------------------
(***************************************************************************)
(* What a ring buffer promises: bytes come out as they went in, one after  *)
(* the other, and at most Room of them are inside.                         *)
(***************************************************************************)
EXTENDS Integers, Sequences

CONSTANTS Bytes, Room

VARIABLES sent,  \* every byte put in, in order
          got    \* every byte taken out, in order

fifoVars == <<sent, got>>

FifoInit == sent = <<>> /\ got = <<>>

Put(b) == /\ Len(sent) - Len(got) < Room
          /\ sent' = Append(sent, b)
          /\ UNCHANGED got

Get == /\ Len(got) < Len(sent)
       /\ got' = Append(got, sent[Len(got) + 1])
       /\ UNCHANGED sent

FifoNext == (\E b \in Bytes : Put(b)) \/ Get

FifoSpec == FifoInit /\ [][FifoNext]_fifoVars
=============================================================================
