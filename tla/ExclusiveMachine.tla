-------------------------- MODULE ExclusiveMachine --------------------------
(***************************************************************************)
(* What fpstune promises about one machine, with no lock, counter or poll  *)
(* in sight: an operation that changes the machine and a bench that        *)
(* measures it never overlap inside one process, and no two benches ever   *)
(* measure at the same time (benchmark/operation_lock.py, module text).    *)
(***************************************************************************)
CONSTANTS
    Applies,      \* operations that change the machine
    Counted,      \* benches that look at the apply count before measuring
    Procs,        \* processes
    Home          \* Home[x] is the process operation x runs in

VARIABLES
    writing,      \* the applies whose command is running
    measuring     \* the benches whose step is running

machineVars == <<writing, measuring>>

MachineTypeOK ==
    /\ writing \subseteq Applies
    /\ measuring \subseteq Counted

MachineInit ==
    /\ writing = {}
    /\ measuring = {}

BeginWrite(a) ==
    /\ a \notin writing
    /\ \A b \in measuring : Home[b] # Home[a]
    /\ writing' = writing \cup {a}
    /\ UNCHANGED measuring

EndWrite(a) ==
    /\ a \in writing
    /\ writing' = writing \ {a}
    /\ UNCHANGED measuring

BeginMeasure(b) ==
    /\ measuring = {}
    /\ \A a \in writing : Home[a] # Home[b]
    /\ measuring' = {b}
    /\ UNCHANGED writing

EndMeasure(b) ==
    /\ b \in measuring
    /\ measuring' = measuring \ {b}
    /\ UNCHANGED writing

(* A process that dies takes its own operations with it. *)
Die(p) ==
    /\ writing' = {a \in writing : Home[a] # p}
    /\ measuring' = {b \in measuring : Home[b] # p}

MachineNext ==
    \/ \E a \in Applies : BeginWrite(a) \/ EndWrite(a)
    \/ \E b \in Counted : BeginMeasure(b) \/ EndMeasure(b)
    \/ \E p \in Procs : Die(p)

MachineSpec == MachineInit /\ [][MachineNext]_machineVars
=============================================================================
