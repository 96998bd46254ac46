------------------------------ MODULE SmpStart ------------------------------
(***************************************************************************)
(* From the boot loader's list of processors to all of them scheduling:    *)
(*   cpu/smp.c        select_cpus, smp_init, smp_ap_main, smp_start_timers *)
(*   cpu/percpu.c     percpu_init_bsp, percpu_init_ap, percpu_current      *)
(*   kernel/task.c    task_init, placement_cpu, create_user_task           *)
(*   kernel/kernel.c  the order in which the boot processor calls them     *)
(*                                                                         *)
(* The boot processor walks through the phases below while every launched  *)
(* application processor walks through smp_ap_main at its own speed: it    *)
(* may start at once, after the bounded wait has given up, or never.  A    *)
(* processor is named by its LAPIC id in the loader's response and by its  *)
(* index in cpus[] and percpu[] afterwards.                                *)
(***************************************************************************)
EXTENDS Integers, Sequences, FiniteSetsExt

CONSTANTS
  Responses,    \* what the boot loader may report: [bsp, cpus], cpus a list of ids or None
  MaxCpus,      \* MAX_CPUS
  None,
  MaxPlaced     \* bound: user tasks created

(* No two processors of a machine have the same LAPIC id.                  *)
ASSUME SmpAssumption ==
  /\ MaxCpus \in Nat \ {0}
  /\ MaxPlaced \in Nat
  /\ None \notin Nat /\ \A i \in 0 .. MaxCpus - 1 : [stack |-> i] # None
  /\ \A r \in Responses :
       /\ r.bsp \in Nat /\ r.cpus \in Seq(Nat \cup {None})
       /\ \A j, k \in DOMAIN r.cpus : r.cpus[j] = r.cpus[k] /\ r.cpus[j] # None => j = k

Indices == 0 .. MaxCpus - 1
Lapics == {0} \cup UNION {{r.bsp} \cup ({r.cpus[k] : k \in DOMAIN r.cpus} \ {None}) : r \in Responses}

VARIABLES
  response,         \* limine_smp_response
  bsp,              \* the boot processor: the phase and the loop index in it
  ap,               \* per index, where its application processor is in smp_ap_main
  selected,         \* select_cpus: index -> LAPIC id, as a sequence from index 0
  cpus,             \* smp.c: cpus[], apic_id and active
  percpu,           \* percpu.c: stack top, TSS.RSP0 and IST1, idle task, scheduler_online
  aps_booted, ap_count, ap_go,
  late,             \* booted # ap_count when the wait ended
  istStacks,        \* CPUs whose IST1 stack could be allocated
  placement_cursor,
  placed, ran       \* CPUs user tasks were placed on; those that have run one

vars == <<response, bsp, ap, selected, cpus, percpu, aps_booted, ap_count, ap_go,
          late, istStacks, placement_cursor, placed, ran>>

cpu_count == Len(selected)

Init ==
  /\ response \in Responses
  /\ bsp = [at |-> "select", i |-> 0]
  /\ ap = [i \in Indices |-> "parked"]
  /\ selected = <<>>
  /\ cpus = [i \in Indices |-> [apic_id |-> 0, active |-> FALSE]]
  /\ percpu = [i \in Indices |-> [kernel_stack_top |-> None, rsp0 |-> None, ist1 |-> FALSE,
                                  msrs |-> FALSE, idle |-> None, online |-> FALSE]]
  /\ aps_booted = 0 /\ ap_count = 0 /\ ap_go = FALSE
  /\ late = FALSE /\ istStacks = {}
  /\ placement_cursor = 0 /\ placed = {} /\ ran = {}

(* The stack of CPU i is named i; the boot stack is 0. *)
Goto(phase) == bsp' = [at |-> phase, i |-> 0]
NextIndex(phase) ==
  bsp' = IF bsp.i + 1 < cpu_count THEN [bsp EXCEPT !.i = @ + 1] ELSE [at |-> phase, i |-> 0]
At(phase) == bsp.at = phase

(* smp_get_current_cpu_id on the processor with this LAPIC id. *)
smp_get_current_cpu_id(lid) ==
  LET hits == {i \in 0 .. cpu_count - 1 : cpus[i].apic_id = lid}
  IN  IF cpu_count <= 1 \/ hits = {} THEN 0
      ELSE Min(hits)

\* The percpu_data the processor at index i finds: percpu_current.
Self(i) == smp_get_current_cpu_id(selected[i + 1])

(***************************************************************************)
(* The boot processor                                                      *)
(***************************************************************************)
\* Mutant: the list is not cut at MAX_CPUS.
select_cpus_NoLimit(r) ==
  LET taken[k \in 0 .. Len(r.cpus)] ==
        IF k = 0 THEN <<r.bsp>>
        ELSE IF r.cpus[k] \in {None, r.bsp} THEN taken[k - 1]
        ELSE Append(taken[k - 1], r.cpus[k])
  IN  IF \E k \in DOMAIN r.cpus : r.cpus[k] = r.bsp THEN taken[Len(r.cpus)] ELSE <<>>

(* The boot processor comes first; entries without data and those beyond   *)
(* MAX_CPUS are passed over.                                               *)
select_cpus(r) ==
  LET taken[k \in 0 .. Len(r.cpus)] ==
        IF k = 0 THEN <<r.bsp>>
        ELSE IF r.cpus[k] \in {None, r.bsp} \/ Len(taken[k - 1]) = MaxCpus THEN taken[k - 1]
        ELSE Append(taken[k - 1], r.cpus[k])
  IN  IF \E k \in DOMAIN r.cpus : r.cpus[k] = r.bsp THEN taken[Len(r.cpus)] ELSE <<>>

(* smp_init up to the enumeration, and the single-CPU fallback. *)
Select ==
  /\ At("select")
  /\ \/ /\ select_cpus(response) = <<>>
        /\ selected' = <<response.bsp>>
        /\ cpus' = [cpus EXCEPT ![0] = [apic_id |-> response.bsp, active |-> TRUE]]
        /\ Goto("ist")
     \/ /\ select_cpus(response) # <<>>
        /\ selected' = select_cpus(response)
        /\ Goto("launch")
        /\ UNCHANGED cpus
  /\ UNCHANGED <<response, ap, percpu, aps_booted, ap_count, ap_go, late, istStacks,
                 placement_cursor, placed, ran>>

(* One round of the enumeration.  Without two pages for its stack an       *)
(* application processor stays with the boot loader.                       *)
Launch ==
  /\ At("launch")
  /\ LET i == bsp.i
         isBsp == selected[i + 1] = response.bsp
     IN  /\ cpus' = [cpus EXCEPT ![i] = [apic_id |-> selected[i + 1], active |-> isBsp]]
         /\ \/ UNCHANGED <<ap, ap_count>>
            \/ /\ ~isBsp
               /\ ap' = [ap EXCEPT ![i] = "launched"]
               /\ ap_count' = ap_count + 1
  /\ NextIndex("wait")
  /\ UNCHANGED <<response, selected, percpu, aps_booted, ap_go, late, istStacks,
                 placement_cursor, placed, ran>>

WaitEnds ==
  /\ late' = (aps_booted # ap_count)
  /\ Goto("ist")
  /\ UNCHANGED <<response, ap, selected, cpus, percpu, aps_booted, ap_count, ap_go,
                 istStacks, placement_cursor, placed, ran>>

AllBooted == At("wait") /\ aps_booted >= ap_count /\ WaitEnds

\* Mutant: the wait is not bounded.
WaitTimeout_Never == At("wait") /\ aps_booted >= ap_count /\ WaitEnds

WaitTimeout == At("wait") /\ aps_booted < ap_count /\ WaitEnds

(* kernel.c: a double-fault stack for every CPU, entered in its TSS. *)
Ist ==
  /\ At("ist")
  /\ \/ /\ istStacks' = istStacks \cup {bsp.i}
        /\ percpu' = [percpu EXCEPT ![bsp.i].ist1 = TRUE]
     \/ UNCHANGED <<istStacks, percpu>>
  /\ NextIndex("tasks")
  /\ UNCHANGED <<response, ap, selected, cpus, aps_booted, ap_count, ap_go, late,
                 placement_cursor, placed, ran>>

IdleTask(i) ==
  IF i = 0 THEN [stack |-> 0] ELSE [stack |-> percpu[i].kernel_stack_top]

(* task_init: the boot task, one idle task per CPU that is active now,     *)
(* then the reaper.  Out of memory halts the machine.                      *)
\* Mutant: every CPU of the list gets an idle task.
TaskInit_All ==
  /\ At("tasks")
  /\ \/ /\ percpu' = [percpu EXCEPT ![bsp.i].idle = IdleTask(bsp.i)]
        /\ NextIndex("reaper")
     \/ /\ bsp.i = 0 /\ Goto("halted")
        /\ UNCHANGED percpu
  /\ UNCHANGED <<response, ap, selected, cpus, aps_booted, ap_count, ap_go, late,
                 istStacks, placement_cursor, placed, ran>>

TaskInit ==
  /\ At("tasks")
  /\ LET i == bsp.i
     IN  \/ /\ i = 0 \/ cpus[i].active
            /\ percpu' = [percpu EXCEPT ![i].idle = IdleTask(i)]
            /\ NextIndex("reaper")
         \/ /\ i # 0 /\ ~cpus[i].active
            /\ NextIndex("reaper")
            /\ UNCHANGED percpu
         \/ /\ i = 0 /\ Goto("halted")
            /\ UNCHANGED percpu
  /\ UNCHANGED <<response, ap, selected, cpus, aps_booted, ap_count, ap_go, late,
                 istStacks, placement_cursor, placed, ran>>

Reaper ==
  /\ At("reaper")
  /\ Goto("shell") \/ Goto("halted")
  /\ UNCHANGED <<response, ap, selected, cpus, percpu, aps_booted, ap_count, ap_go, late,
                 istStacks, placement_cursor, placed, ran>>

(* placement_cpu: the first CPU from the cursor on that has an idle task.  *)
(* The pair is the CPU and what the cursor has moved by.                   *)
placement_cpu ==
  LET has == {n \in 0 .. cpu_count - 1 :
                percpu[(placement_cursor + n) % cpu_count].idle # None}
  IN  IF has = {} THEN <<0, cpu_count>>
      ELSE <<(placement_cursor + Min(has)) % cpu_count, Min(has) + 1>>

create_user_task ==
  /\ placed' = placed \cup {placement_cpu[1]}
  /\ placement_cursor' = placement_cursor + placement_cpu[2]

Shell ==
  /\ At("shell")
  /\ \/ create_user_task /\ Goto("timer")
     \/ Goto("halted") /\ UNCHANGED <<placed, placement_cursor>>
  /\ UNCHANGED <<response, ap, selected, cpus, percpu, aps_booted, ap_count, ap_go, late,
                 istStacks, ran>>

(* smp_start_timers, then sti. *)
StartTimer ==
  /\ At("timer")
  /\ percpu' = [percpu EXCEPT ![0].online = TRUE]
  /\ Goto("gate")
  /\ UNCHANGED <<response, ap, selected, cpus, aps_booted, ap_count, ap_go, late,
                 istStacks, placement_cursor, placed, ran>>

OpenGate ==
  /\ At("gate")
  /\ ap_go' = TRUE
  /\ Goto("running")
  /\ UNCHANGED <<response, ap, selected, cpus, percpu, aps_booted, ap_count, late,
                 istStacks, placement_cursor, placed, ran>>

(***************************************************************************)
(* An application processor                                                *)
(***************************************************************************)
Step(i, from, to) == ap[i] = from /\ ap' = [ap EXCEPT ![i] = to]

(* percpu_init_ap: the fields of percpu[i]. *)
ApEnter(i) ==
  /\ Step(i, "launched", "tss")
  /\ percpu' = [percpu EXCEPT ![i].kernel_stack_top = i]
  /\ UNCHANGED <<response, bsp, selected, cpus, aps_booted, ap_count, ap_go, late,
                 istStacks, placement_cursor, placed, ran>>

(* percpu_init_ap: the TSS is cleared as a whole, then RSP0 is set and the *)
(* descriptors are loaded.                                                 *)
ApTss(i) ==
  /\ Step(i, "tss", "msrs")
  /\ percpu' = [percpu EXCEPT ![i].ist1 = FALSE, ![i].rsp0 = i]
  /\ UNCHANGED <<response, bsp, selected, cpus, aps_booted, ap_count, ap_go, late,
                 istStacks, placement_cursor, placed, ran>>

(* idt_load_on_ap, syscall_init_cpu, lapic_init. *)
ApMsrs(i) ==
  /\ Step(i, "msrs", "alive")
  /\ percpu' = [percpu EXCEPT ![i].msrs = TRUE]
  /\ UNCHANGED <<response, bsp, selected, cpus, aps_booted, ap_count, ap_go, late,
                 istStacks, placement_cursor, placed, ran>>

\* Mutant: the processor reports itself alive before its own set-up.
ApAlive_First(i) ==
  /\ cpus' = [cpus EXCEPT ![i].active = TRUE]
  /\ \/ ap[i] = "launched" /\ ~cpus[i].active /\ UNCHANGED ap
     \/ Step(i, "alive", "count")
  /\ UNCHANGED <<response, bsp, selected, percpu, aps_booted, ap_count, ap_go, late,
                 istStacks, placement_cursor, placed, ran>>

ApAlive(i) ==
  /\ Step(i, "alive", "count")
  /\ cpus' = [cpus EXCEPT ![i].active = TRUE]
  /\ UNCHANGED <<response, bsp, selected, percpu, aps_booted, ap_count, ap_go, late,
                 istStacks, placement_cursor, placed, ran>>

\* Mutant: a processor counts itself on its way in.
ApCount_Early(i) ==
  /\ \/ Step(i, "launched", "tss")
     \/ Step(i, "count", "gate")
  /\ aps_booted' = IF ap[i] = "launched" THEN aps_booted + 1 ELSE aps_booted
  /\ percpu' = [percpu EXCEPT ![i].kernel_stack_top = i]
  /\ UNCHANGED <<response, bsp, selected, cpus, ap_count, ap_go, late, istStacks,
                 placement_cursor, placed, ran>>

ApCount(i) ==
  /\ Step(i, "count", "gate")
  /\ aps_booted' = aps_booted + 1
  /\ UNCHANGED <<response, bsp, selected, cpus, percpu, ap_count, ap_go, late, istStacks,
                 placement_cursor, placed, ran>>

(* The gate, the timer, and the idle task a late processor does not have:  *)
(* it halts with interrupts off.                                           *)
ApGate(i) ==
  /\ ap_go
  /\ \/ /\ percpu[Self(i)].idle # None
        /\ Step(i, "gate", "switch")
     \/ /\ percpu[Self(i)].idle = None
        /\ Step(i, "gate", "halted")
  /\ UNCHANGED <<response, bsp, selected, cpus, percpu, aps_booted, ap_count, ap_go, late,
                 istStacks, placement_cursor, placed, ran>>

(* vmm_switch_pml4, scheduler_online; sti is the last thing it does. *)
ApOnline(i) ==
  /\ Step(i, "switch", "running")
  /\ percpu' = [percpu EXCEPT ![Self(i)].online = TRUE]
  /\ UNCHANGED <<response, bsp, selected, cpus, aps_booted, ap_count, ap_go, late,
                 istStacks, placement_cursor, placed, ran>>

(***************************************************************************)
(* Afterwards: timer interrupts on every running CPU, and system calls     *)
(* that create user tasks.                                                 *)
(***************************************************************************)
Interruptible(i) == IF i = 0 THEN At("running") ELSE ap[i] = "running"

Tick(i) ==
  /\ Interruptible(i) /\ i \in placed \ ran
  /\ ran' = ran \cup {i}
  /\ UNCHANGED <<response, bsp, ap, selected, cpus, percpu, aps_booted, ap_count, ap_go,
                 late, istStacks, placement_cursor, placed>>

Exec ==
  /\ placement_cursor < MaxPlaced
  /\ ran # {}
  /\ create_user_task
  /\ UNCHANGED <<response, bsp, ap, selected, cpus, percpu, aps_booted, ap_count, ap_go,
                 late, istStacks, ran>>

BspStep == \/ Select \/ Launch \/ AllBooted \/ WaitTimeout \/ Ist \/ TaskInit \/ Reaper
           \/ Shell \/ StartTimer \/ OpenGate

ApStep(i) == ApTss(i) \/ ApMsrs(i) \/ ApAlive(i) \/ ApCount(i) \/ ApGate(i) \/ ApOnline(i)

Next ==
  \/ BspStep
  \/ \E i \in Indices \ {0} : ApEnter(i) \/ ApStep(i)
  \/ \E i \in Indices : Tick(i)
  \/ Exec

Spec == Init /\ [][Next]_vars

(* Every processor that has started goes on and its timer is periodic.     *)
(* Nothing makes a launched processor start.                               *)
Fairness ==
  /\ WF_vars(BspStep)
  /\ \A i \in Indices \ {0} : WF_vars(ApStep(i))
  /\ \A i \in Indices : WF_vars(Tick(i))

LiveSpec == Spec /\ Fairness

(***************************************************************************)
(* Properties                                                              *)
(***************************************************************************)
(* Type invariant: indices, LAPIC ids and phases stay in their ranges, at  *)
(* most MAX_CPUS processors are taken and no more report than were started.*)
TypeOK ==
  /\ response \in Responses
  /\ bsp \in [at : {"select", "launch", "wait", "ist", "tasks", "reaper", "shell", "timer",
                    "gate", "running", "halted"}, i : Indices]
  /\ ap \in [Indices -> {"parked", "launched", "tss", "msrs", "alive", "count", "gate",
                         "switch", "running", "halted"}]
  /\ cpu_count <= MaxCpus /\ \A i \in DOMAIN selected : selected[i] \in Lapics
  /\ cpus \in [Indices -> [apic_id : Lapics, active : BOOLEAN]]
  /\ percpu \in [Indices -> [kernel_stack_top : Indices \cup {None}, rsp0 : Indices \cup {None},
                             ist1 : BOOLEAN, msrs : BOOLEAN,
                             idle : [stack : Indices \cup {None}] \cup {None}, online : BOOLEAN]]
  /\ aps_booted \in 0 .. ap_count /\ ap_count < MaxCpus
  /\ ap_go \in BOOLEAN /\ late \in BOOLEAN
  /\ istStacks \subseteq Indices /\ placed \subseteq Indices /\ ran \subseteq Indices
  /\ placement_cursor \in 0 .. MaxPlaced + MaxCpus

(* A CPU that takes timer interrupts can run schedule() and a user task:   *)
(* it finds its own per-CPU data by its LAPIC id, has an idle task on its  *)
(* own stack, its TSS names that stack, its system-call registers are set  *)
(* and the boot processor has finished the subsystems (the reason for the  *)
(* gate in smp_ap_main).                                                   *)
TimerSafe ==
  \A i \in 0 .. cpu_count - 1 :
     Interruptible(i) =>
       /\ Self(i) = i
       /\ percpu[i].online
       /\ percpu[i].idle = [stack |-> i]
       /\ i # 0 => percpu[i].rsp0 = i /\ percpu[i].msrs
       /\ At("running")

(* When the wait ended with every started processor counted, every CPU     *)
(* whose double-fault stack could be allocated has it in its TSS once it   *)
(* takes interrupts.                                                       *)
DoubleFaultStackInTime ==
  ~late => \A i \in istStacks : Interruptible(i) => percpu[i].ist1

(* The boot processor finishes, or halts for want of memory, even if no    *)
(* application processor ever answers (the bounded wait of smp_init).      *)
BootEnds == <>(At("running") \/ At("halted"))

(* A user task placed on a CPU is run there, also when that CPU came up    *)
(* late or is still on its way to the gate.                                *)
PlacedRuns ==
  \A i \in Indices : i \in placed /\ ~At("halted") ~> i \in ran \/ At("halted")

(* The boot ends, and what it placed on any CPU runs there.                *)
BootCompletes == BootEnds /\ PlacedRuns

(* The safety invariants together: no processor takes an interrupt before  *)
(* it is prepared.                                                         *)
Safety ==
  /\ TypeOK
  /\ TimerSafe
  /\ DoubleFaultStackInTime
=============================================================================
