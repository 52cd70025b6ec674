-------------------------------- MODULE Ipc --------------------------------
(***************************************************************************)
(* The kernel's pipes and channels (kernel/src/ipc.rs), used by tasks on   *)
(* several harts at once.                                                  *)
(*                                                                         *)
(* No call blocks: a task that finds nothing registers itself as a waiter, *)
(* and waking one is a line in the log.  A section under one lock is one   *)
(* action (Spinlock); the flags are read and set outside the locks, in     *)
(* actions of their own.  A pipe has one task that writes, and a byte is   *)
(* its number among those accepted; so is a message.                       *)
(***************************************************************************)
EXTENDS Integers, Sequences, FiniteSets

CONSTANTS
  Users,       \* the tasks
  Writer,      \* the one that has the write end of the pipe
  Receiver,    \* the one that receives from the channel
  PipeSize,    \* PIPE_BUFFER_SIZE (4096)
  Capacity,    \* the channel's (DEFAULT_CHANNEL_CAPACITY, 64)
  MaxBytes,    \* bound on the bytes written to the pipe
  MaxMessages, \* bound on the messages sent
  MaxWaiters   \* bound on the waiters of a queue

ASSUME UsersAssumption ==
  /\ IsFiniteSet(Users) /\ Writer \in Users /\ Receiver \in Users
  /\ Users # {Receiver}
ASSUME SizesAssumption == PipeSize \in Nat \ {0} /\ Capacity \in Nat \ {0}

VARIABLES
  pipe,      \* the buffer and the flags of a Pipe
  channel,   \* the buffer, the flags and the senders of a Channel
  waiters,   \* read_waiters, write_waiters and the channel's waiters
  call,      \* the call each task is in
  written,   \* ghost: bytes the pipe accepted
  read,      \* ghost: bytes it returned
  sent       \* ghost: messages the channel accepted

pipeVars == <<pipe, written, read>>
channelVars == <<channel, sent>>
ipcVars == <<pipe, channel, waiters, call, written, read, sent>>

(* Pipe::new and Channel::with_capacity, with a sender for each task. *)
IpcInit ==
  /\ pipe = [data |-> [i \in 0 .. PipeSize - 1 |-> 0], read_pos |-> 0, write_pos |-> 0,
             count |-> 0, reader_active |-> TRUE, writer_active |-> TRUE]
  /\ channel = [buffer |-> <<>>, closed |-> FALSE, receiver_active |-> TRUE,
                sender_count |-> Cardinality(Users \ {Receiver})]
  /\ waiters = [read |-> <<>>, write |-> <<>>, recv |-> <<>>]
  /\ call = [u \in Users |-> [at |-> "none", n |-> 0, closed |-> FALSE, sender |-> TRUE]]
  /\ written = 0 /\ read = 0 /\ sent = 0

At(u, l) == call[u].at = l
GoTo(u, l) == call' = [call EXCEPT ![u].at = l]
PopFront(q) == IF q = <<>> THEN q ELSE Tail(q)
Lesser(a, b) == IF a < b THEN a ELSE b

-----------------------------------------------------------------------------
(* Pipe::write *)

(* With no reader the call fails. *)
PipeWrite(u, n) ==
  /\ At(u, "none") /\ u = Writer /\ pipe.writer_active /\ written + n <= MaxBytes
  /\ pipe.reader_active
  /\ call' = [call EXCEPT ![u].at = "write", ![u].n = n]
  /\ UNCHANGED <<pipeVars, channelVars, waiters>>

After(pos, k) == (pos + k) % PipeSize

(* PipeBuffer::write *)
PipeCopiesIn(u) ==
  /\ At(u, "write")
  /\ LET n == Lesser(call[u].n, PipeSize - pipe.count)
     IN  /\ pipe' = [pipe EXCEPT
              !.data = [i \in DOMAIN @ |->
                          LET k == (i - pipe.write_pos) % PipeSize
                          IN  IF k < n THEN written + k + 1 ELSE @[i]],
              !.write_pos = After(@, n), !.count = @ + n]
         /\ written' = written + n
         /\ GoTo(u, IF n > 0 THEN "wake_reader" ELSE "none")
  /\ UNCHANGED <<read, channelVars, waiters>>

PipeWakesReader(u) ==
  /\ At(u, "wake_reader")
  /\ waiters' = [waiters EXCEPT !.read = PopFront(@)]
  /\ GoTo(u, "none")
  /\ UNCHANGED <<pipeVars, channelVars>>

-----------------------------------------------------------------------------
(* Pipe::read *)

(* Mutant: one byte is left behind. *)
ReadableButOne(n) == IF pipe.count = 0 THEN 0 ELSE Lesser(n, pipe.count - 1)

Readable(n) == Lesser(n, pipe.count)

(* PipeBuffer::read.  The ghost call.closed is whether the write end was   *)
(* closed when the call began.                                             *)
PipeCopiesOut(u, n) ==
  /\ At(u, "none") /\ u # Writer /\ pipe.reader_active
  /\ LET k == Readable(n)
     IN  /\ pipe' = [pipe EXCEPT !.read_pos = After(@, k), !.count = @ - k]
         /\ read' = read + k
         /\ call' = [call EXCEPT ![u].at = IF k > 0 THEN "wake_writer" ELSE "eof",
                                 ![u].closed = ~pipe.writer_active]
  /\ UNCHANGED <<written, channelVars, waiters>>

PipeWakesWriter(u) ==
  /\ At(u, "wake_writer")
  /\ waiters' = [waiters EXCEPT !.write = PopFront(@)]
  /\ GoTo(u, "none")
  /\ UNCHANGED <<pipeVars, channelVars>>

(* Nothing was read: EOF when the write end is closed by now, else Ok(0). *)
PipeEof(u) ==
  /\ At(u, "eof") /\ ~pipe.writer_active
  /\ GoTo(u, "none")
  /\ UNCHANGED <<pipeVars, channelVars, waiters>>

PipeNothing(u) ==
  /\ At(u, "eof") /\ pipe.writer_active
  /\ GoTo(u, "none")
  /\ UNCHANGED <<pipeVars, channelVars, waiters>>

(* register_read_waiter, register_write_waiter and Channel's               *)
(* register_waiter.                                                        *)
Registers(u, q) ==
  /\ At(u, "none") /\ Len(waiters[q]) < MaxWaiters
  /\ u \in CASE q = "read" -> Users \ {Writer}
             [] q = "write" -> {Writer}
             [] q = "recv" -> {Receiver}
  /\ waiters' = [waiters EXCEPT ![q] = Append(@, u)]
  /\ UNCHANGED <<pipeVars, channelVars, call>>

(* close_write and close_read set the flag and then wake who waits. *)
PipeCloses(u) ==
  /\ At(u, "none")
  /\ IF u = Writer THEN pipe.writer_active /\ pipe' = [pipe EXCEPT !.writer_active = FALSE]
                   ELSE pipe.reader_active /\ pipe' = [pipe EXCEPT !.reader_active = FALSE]
  /\ GoTo(u, "wake_ends")
  /\ UNCHANGED <<written, read, channelVars, waiters>>

PipeWakesAll(u) ==
  /\ At(u, "wake_ends")
  /\ waiters' = IF u = Writer THEN [waiters EXCEPT !.read = <<>>]
                              ELSE [waiters EXCEPT !.write = <<>>]
  /\ GoTo(u, "none")
  /\ UNCHANGED <<pipeVars, channelVars>>

-----------------------------------------------------------------------------
(* Channel *)

(* Channel::send: the two flags, one after the other. *)
SendLooks(u) ==
  /\ At(u, "none") /\ u # Receiver /\ call[u].sender /\ sent < MaxMessages
  /\ ~channel.closed
  /\ GoTo(u, "has_receiver")
  /\ UNCHANGED <<pipeVars, channelVars, waiters>>

SendLooksAgain(u) ==
  /\ At(u, "has_receiver")
  /\ GoTo(u, IF channel.receiver_active THEN "push" ELSE "none")
  /\ UNCHANGED <<pipeVars, channelVars, waiters>>

(* The rest under the lock of the buffer: full, or pushed and a waiter     *)
(* woken.                                                                  *)
SendPushes(u) ==
  /\ At(u, "push")
  /\ IF Len(channel.buffer) >= Capacity
       THEN UNCHANGED <<channel, sent, waiters>>
       ELSE /\ channel' = [channel EXCEPT !.buffer = Append(@, sent + 1)]
            /\ sent' = sent + 1
            /\ waiters' = [waiters EXCEPT !.recv = PopFront(@)]
  /\ GoTo(u, "none")
  /\ UNCHANGED pipeVars

(* Channel::try_recv *)
RecvLooks(u) ==
  /\ At(u, "none") /\ u = Receiver /\ channel.receiver_active
  /\ ~channel.closed
  /\ GoTo(u, "pop")
  /\ UNCHANGED <<pipeVars, channelVars, waiters>>

RecvPops(u) ==
  /\ At(u, "pop")
  /\ channel' = [channel EXCEPT !.buffer = PopFront(@)]
  /\ GoTo(u, "none")
  /\ UNCHANGED <<pipeVars, sent, waiters>>

(* add_sender; a task gives the new handle to another. *)
AddSender(u, v) ==
  /\ At(u, "none") /\ call[u].sender /\ u # Receiver
  /\ v # Receiver /\ ~call[v].sender
  /\ channel' = [channel EXCEPT !.sender_count = @ + 1]
  /\ call' = [call EXCEPT ![v].sender = TRUE]
  /\ UNCHANGED <<pipeVars, sent, waiters>>

(* Mutant: the count is compared after the subtraction. *)
WasLastByNew(prev) == prev = 0

WasLast(prev) == prev = 1

(* remove_sender: the last one closes the channel. *)
RemoveSender(u) ==
  /\ At(u, "none") /\ call[u].sender /\ u # Receiver
  /\ channel' = [channel EXCEPT !.sender_count = @ - 1]
  /\ call' = [call EXCEPT ![u].sender = FALSE,
                          ![u].at = IF WasLast(channel.sender_count) THEN "close" ELSE "none"]
  /\ UNCHANGED <<pipeVars, sent, waiters>>

(* Channel::close, its store and its loop over the waiters. *)
CloseStores(u) ==
  /\ At(u, "close")
  /\ channel' = [channel EXCEPT !.closed = TRUE]
  /\ GoTo(u, "close_wakes")
  /\ UNCHANGED <<pipeVars, sent, waiters>>

CloseWakes(u) ==
  /\ At(u, "close_wakes")
  /\ waiters' = [waiters EXCEPT !.recv = <<>>]
  /\ GoTo(u, "none")
  /\ UNCHANGED <<pipeVars, channelVars>>

DropReceiver(u) ==
  /\ At(u, "none") /\ u = Receiver /\ channel.receiver_active
  /\ channel' = [channel EXCEPT !.receiver_active = FALSE]
  /\ UNCHANGED <<pipeVars, sent, waiters, call>>

PipeNext(u) ==
  \/ \E n \in 1 .. PipeSize : PipeWrite(u, n) \/ PipeCopiesOut(u, n)
  \/ PipeCopiesIn(u) \/ PipeWakesReader(u) \/ PipeWakesWriter(u)
  \/ PipeEof(u) \/ PipeNothing(u) \/ PipeCloses(u) \/ PipeWakesAll(u)
  \/ Registers(u, "read") \/ Registers(u, "write")
ChannelNext(u) ==
  \/ SendLooks(u) \/ SendLooksAgain(u) \/ SendPushes(u)
  \/ RecvLooks(u) \/ RecvPops(u) \/ Registers(u, "recv")
  \/ RemoveSender(u) \/ CloseStores(u) \/ CloseWakes(u) \/ DropReceiver(u)
  \/ \E v \in Users : AddSender(u, v)

(* The same tasks use the pipe and the channel. *)
IpcNext == \E u \in Users : PipeNext(u) \/ ChannelNext(u)

IpcSpec == IpcInit /\ [][IpcNext]_ipcVars

-----------------------------------------------------------------------------
(* The bytes in the buffer, oldest first. *)
PipeContents == [i \in 1 .. pipe.count |-> pipe.data[(pipe.read_pos + i - 1) % PipeSize]]

(* Whatever sizes the calls have and wherever the positions wrap, the pipe *)
(* holds exactly the bytes written and not yet read, in order              *)
(* (PipeBuffer::write and read); and a read that began when the write end  *)
(* was closed and returns EOF leaves no byte behind (Pipe::read looks at   *)
(* the flag after it let go of the buffer, so one that began earlier may). *)
PipeIsFifo ==
  /\ pipe.count \in 0 .. PipeSize
  /\ PipeContents = [i \in 1 .. written - read |-> read + i]
  /\ \A u \in Users : At(u, "eof") /\ call[u].closed => written = read

(* A channel without senders is closed, or one task is about to close it:  *)
(* of several that drop their handles at once exactly one was the last     *)
(* (Channel::remove_sender).                                               *)
OrphanIsClosed ==
  LET closing == {u \in Users : call[u].at \in {"close", "close_wakes"}}
  IN  /\ Cardinality(closing) <= 1
      /\ channel.sender_count = 0 => channel.closed \/ closing # {}
=============================================================================
