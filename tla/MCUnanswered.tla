---------------------------- MODULE MCUnanswered ----------------------------
(***************************************************************************)
(* What gets on although the other side may never answer, checked side by  *)
(* side: the boot, whose application processors may never start, and a     *)
(* disk, whose device and asynchronous client owe nothing.  The initial    *)
(* state chooses the part that moves; the other stays as it started, and   *)
(* fairness is asked of the moving part alone.                             *)
(*                                                                         *)
(* At most three processors fit.  The loader's orders that matter are the  *)
(* plain one, the boot processor last behind a hole and one processor too  *)
(* many, the boot processor missing, no response at all.                   *)
(***************************************************************************)
EXTENDS SmpStart

CONSTANTS Caller, Nobody

MCResponses ==
  {[bsp |-> 0, cpus |-> <<0, 1, 2>>],
   [bsp |-> 3, cpus |-> <<1, None, 2, 0, 3>>],
   [bsp |-> 0, cpus |-> <<1, 2>>],
   [bsp |-> 1, cpus |-> <<>>]}

VARIABLES
  part,
  disk, initialized, disk_count, next_id, pc, admission, token, past,   \* BlockIo
  alive, client, service, served

diskVars == <<disk, initialized, disk_count, next_id, pc, admission, token, past,
              alive, client, service, served>>

(* One caller and the asynchronous client.  A client's request, a caller's *)
(* ticket behind it and the caller's own request take three ids.           *)
Disk == INSTANCE BlockIo WITH
  late <- past, Tasks <- {Caller}, MaxId <- 3, MaxWaiters <- 1
-----------------------------------------------------------------------------
(* The disk does not care how many processors there are. *)
PartsInit ==
  /\ part \in {"boot", "disk"}
  /\ Init /\ Disk!Init
  /\ part = "disk" => response.cpus = <<>>

PartsNext ==
  /\ UNCHANGED part
  /\ \/ part = "boot" /\ Next /\ UNCHANGED diskVars
     \/ part = "disk" /\ Disk!Next /\ UNCHANGED vars

(* The fairness of SmpStart. *)
BootFairness ==
  /\ WF_vars(part = "boot" /\ BspStep)
  /\ \A i \in Indices \ {0} : WF_vars(part = "boot" /\ ApStep(i))
  /\ \A i \in Indices : WF_vars(part = "boot" /\ Tick(i))

(* The fairness of BlockIo. *)
DiskFairness ==
  /\ WF_diskVars(part = "disk" /\ Disk!RequestAges)
  /\ WF_diskVars(part = "disk" /\ Disk!DeadlinePasses(Caller))
  /\ WF_diskVars(part = "disk" /\ Disk!CallerStep(Caller))
  /\ SF_diskVars(part = "disk" /\ \E ack \in BOOLEAN : Disk!ServiceFirst(ack))
  /\ WF_diskVars(part = "disk" /\ Disk!ServiceCheck)
  /\ SF_diskVars(part = "disk" /\ \E ack \in BOOLEAN : Disk!ServiceSecond(ack))

PartsSpec ==
  PartsInit /\ [][PartsNext]_<<part, vars, diskVars>> /\ BootFairness /\ DiskFairness
-----------------------------------------------------------------------------
(* smp.c, task.c: the boot ends however many processors never start, and   *)
(* what it placed on any CPU runs there.                                   *)
BootProgress == part = "boot" => BootCompletes

(* block.c, io_request.c: a blocking call ends although the device and the *)
(* client owe nothing, and what dead tasks leave behind goes.              *)
NobodyWaitsForever == Disk!NobodyWaitsForever
=============================================================================
