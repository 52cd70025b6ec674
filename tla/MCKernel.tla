------------------------------ MODULE MCKernel ------------------------------
(***************************************************************************)
(* Parts of the kernel for TLC, one in each behaviour: the spinlock, a     *)
(* pipe, a channel, the services, and the file system with a log file, a   *)
(* file, a name that is longer than 24 bytes and begins with that file's,  *)
(* and a directory.  The others rest in an initial state.                  *)
(***************************************************************************)
EXTENDS Spinlock, Ipc, Services, FileSystem

VARIABLE machine

kernelVars == <<machine, vars, ipcVars, serviceVars, fsVars>>

MCPeriod == [s \in ServiceNames |-> IF s = Klogd THEN 2 ELSE 1]
\* Three bytes and a newline; two bytes.
MCBanner == <<3, 1>>
MCText == <<1, 1>>

CutLong == [n \in Names |-> IF n = "long" THEN "file" ELSE n]
AllSectors == 1 .. DirCount + BlockCount

KernelInit ==
  /\ machine \in {"lock", "pipe", "channel", "services", "files"}
  /\ Init /\ IpcInit /\ ServicesInit /\ FsInit
  /\ machine = "files" \/ disk = Image("log", <<1, 1>>)

KernelNext ==
  /\ UNCHANGED machine
  /\ \/ machine = "lock" /\ Next /\ UNCHANGED <<ipcVars, serviceVars, fsVars>>
     \/ /\ machine = "pipe" /\ \E u \in Users : PipeNext(u)
        /\ UNCHANGED <<vars, serviceVars, fsVars>>
     \/ /\ machine = "channel" /\ \E u \in Users : ChannelNext(u)
        /\ UNCHANGED <<vars, serviceVars, fsVars>>
     \/ machine = "services" /\ ServicesNext /\ UNCHANGED <<vars, ipcVars, fsVars>>
     \/ machine = "files" /\ FsNext /\ UNCHANGED <<vars, ipcVars, serviceVars>>

KernelSpec == KernelInit /\ [][KernelNext]_kernelVars

ServicesSpec ==
  (KernelInit /\ machine = "services") /\ [][KernelNext]_kernelVars
=============================================================================
