------------------------- MODULE UpdateInstallProofs ------------------------
(* What UpdateInstall promises, for any number of processes, servers, requests *)
(* and faults. Everything rests on the running image: a process that installs  *)
(* is of the old build, its image cannot be removed, and so whoever finds it   *)
(* already moved aside gives up.                                               *)
EXTENDS UpdateInstall, TLAPS

Active(r) == pc[r] \notin {"idle", "done"}
Between(r) == pc[r] \in {"aside", "rollback"}
(* An install is through with its second rename, whether it has said so or not. *)
Through(r) == answer[r] = "installed" \/ pc[r] = "moved" \/ r \in untold
Installed == \E r \in Requests : Through(r)

(* Who installs runs the old build.                                           *)
InstallersAreOld == \A r \in Requests : Active(r) => image[Home(r)] = "current"
(* Between the renames the old build is aside and nothing is under the name.  *)
AsideIsOld == \A r \in Requests : Between(r) => target = "none" /\ previous = "current"
OneBetween == \A r, o \in Requests : Between(r) /\ Between(o) => r = o
StagedIsNew == staged \in {"none", "part", "release"}
(* A whole build is left beside or under the name.                            *)
BuildSurvives == {target, previous} \cap Builds # {}
(* What a process runs is where an install may have moved it, never gone.     *)
ImagesStay == \A p \in Processes : Live(p) => image[p] \in {target, previous}
PreviousIsOld == previous \in {"none", "current"}
InstalledStays == Installed => target \in {"release", "part"}
ReleaseWasInstalled == target = "release" => Installed
AnsweredIsDone == \A r \in Requests : answer[r] # "none" => pc[r] = "done"

(* A staged file that is not whole has a writer, or nobody relies on it.      *)
OpenerWrites == \A r \in opener : pc[r] = "writing"
PartIsWatched ==
    staged = "part" =>
        \/ spoiled \/ opener # {}
        \/ \A r \in Requests : pc[r] \notin {"writing", "written", "cleared", "aside"}

Places == InstallersAreOld /\ AsideIsOld /\ OneBetween /\ StagedIsNew /\ PreviousIsOld
             /\ ImagesStay /\ BuildSurvives /\ NameIsKept
Tells == InstalledStays /\ ReleaseWasInstalled /\ AnsweredIsDone
Wholes == OpenerWrites /\ PartIsWatched /\ OnlyWholeBuilds
IInv == TypeOK /\ Places /\ Tells /\ Wholes

----------------------------------------------------------------------------

LEMMA HomesAreProcesses == \A r \in Requests : Home(r) \in Processes
BY InstallAssumption DEF Requests, Home

LEMMA InitEstablishes == Init => IInv
<1> SUFFICES ASSUME Init PROVE IInv
  OBVIOUS
<1> USE InstallAssumption DEF Init
<1>1. TypeOK
  <2>1. pc \in [Requests -> Steps] /\ answer \in [Requests -> {"none", "installed", "refused"}]
    BY DEF Steps
  <2>2. image \in [Processes -> Images] /\ swept \in [Processes -> BOOLEAN]
    BY DEF Images, Builds
  <2>3. target \in Contents /\ staged \in Contents /\ previous \in Contents
    BY DEF Contents, Builds
  <2>4. cut \in BOOLEAN /\ spoiled \in BOOLEAN
    BY Zenon
  <2>7. untold \subseteq Requests
    OBVIOUS
  <2>6. faults \in 0..MaxFaults
    OBVIOUS
  <2>5. opener \subseteq Requests
    OBVIOUS
  <2> QED
    BY <2>1, <2>2, <2>3, <2>4, <2>5, <2>6, <2>7, Zenon DEF TypeOK
<1>2. Places
  BY DEF Places, InstallersAreOld, AsideIsOld, OneBetween, StagedIsNew, PreviousIsOld, ImagesStay,
         BuildSurvives, NameIsKept, Active, Between, Live, Builds
<1>3. Tells
  BY DEF Tells, InstalledStays, ReleaseWasInstalled, Installed, Through, AnsweredIsDone
<1>4. Wholes
  BY DEF Wholes, OpenerWrites, PartIsWatched, OnlyWholeBuilds
<1> QED
  BY <1>1, <1>2, <1>3, <1>4 DEF IInv

----------------------------------------------------------------------------
(* Types.                                                                     *)

LEMMA StepKeepsTypes == TypeOK /\ [Next]_vars => TypeOK'
<1> SUFFICES ASSUME TypeOK, [Next]_vars PROVE TypeOK'
  OBVIOUS
<1> USE InstallAssumption DEF TypeOK
<1>1. ASSUME NEW r \in Requests, RequestStep(r) PROVE TypeOK'
  <2> USE DEF RequestStep, Begin, Refuse, WriteEnds, WriteFails, Clear, ClearFails,
          MoveAside, MoveAsideFails, MoveIn, Answer, MoveInFails, RollBack, RollBackFails,
          Discard, files, histories
  <2>1. target' \in Contents /\ staged' \in Contents /\ previous' \in Contents
    BY <1>1 DEF Contents, Builds
  <2>2. pc' \in [Requests -> Steps]
    BY <1>1 DEF GoTo, Steps
  <2>3. answer' \in [Requests -> {"none", "installed", "refused"}]
    BY <1>1 DEF Tell
  <2>4. opener' \subseteq Requests
    BY <1>1
  <2>5. faults' \in 0..MaxFaults
    BY <1>1 DEF Fails, Fault
  <2>6. cut' \in BOOLEAN /\ spoiled' \in BOOLEAN
    BY <1>1, Zenon
  <2>7. image' = image /\ swept' = swept /\ untold' = untold
    BY <1>1
  <2> QED
    BY <2>1, <2>2, <2>3, <2>4, <2>5, <2>6, <2>7
<1>2. ASSUME NEW p \in Processes, StartProcess(p) \/ Sweep(p) \/ Quit(p) PROVE TypeOK'
  <2>1. image' \in [Processes -> Images]
    BY <1>2 DEF StartProcess, Sweep, Quit, Images, Builds
  <2>2. previous' \in Contents
    BY <1>2 DEF StartProcess, Sweep, Quit, files, Contents
  <2>3. faults' \in 0..MaxFaults
    BY <1>2 DEF StartProcess, Sweep, Quit, Fails, Fault
  <2>4. swept' \in [Processes -> BOOLEAN]
    BY <1>2 DEF StartProcess, Sweep, Quit
  <2>5. UNCHANGED <<target, staged, pc, answer, opener, cut, untold, spoiled>>
    BY <1>2 DEF StartProcess, Sweep, Quit, files, histories
  <2> QED
    BY <2>1, <2>2, <2>3, <2>4, <2>5
<1>3. ASSUME NEW p \in Processes, Die(p) PROVE TypeOK'
  <2>1. pc' \in [Requests -> Steps]
    BY <1>3 DEF Die, Steps
  <2>2. cut' \in BOOLEAN /\ spoiled' \in BOOLEAN
    BY <1>3, Zenon DEF Die
  <2>3. image' \in [Processes -> Images]
    BY <1>3 DEF Die, Images
  <2>4. faults' \in 0..MaxFaults
    BY <1>3 DEF Die, Fault
  <2>5. opener' \subseteq Requests /\ untold' \subseteq Requests
    BY <1>3 DEF Die, Installs
  <2>6. UNCHANGED <<target, staged, previous, swept, answer>>
    BY <1>3 DEF Die, files
  <2> QED
    BY <2>1, <2>2, <2>3, <2>4, <2>5, <2>6
<1>4. CASE UNCHANGED vars
  BY <1>4 DEF vars, files
<1> QED
  BY <1>1, <1>2, <1>3, <1>4 DEF Next

----------------------------------------------------------------------------
(* Where the builds are.                                                      *)

LEMMA RequestKeepsPlaces ==
    ASSUME TypeOK, Places, NEW r \in Requests, RequestStep(r)
    PROVE  Places'
<1> USE DEF TypeOK, Places, InstallersAreOld, AsideIsOld, OneBetween, StagedIsNew, PreviousIsOld,
        ImagesStay, BuildSurvives, NameIsKept, Active, Between, Live, Running,
        Contents, Builds, Images, Steps, GoTo, files, histories
<1>1. Home(r) \in Processes
  BY HomesAreProcesses
<1>2. CASE Begin(r) \/ Refuse(r)
  BY <1>2 DEF Begin, Refuse
<1>3. CASE WriteEnds(r) \/ WriteFails(r)
  BY <1>3 DEF WriteEnds, WriteFails
<1>4. CASE Clear(r)
  <2>1. image[Home(r)] = "current" /\ previous # "current" /\ target = "current"
    BY <1>1, <1>4 DEF Clear
  <2>2. \A p \in Processes : Live(p) => image[p] = "current"
    BY <1>4, <2>1 DEF Clear
  <2> QED
    BY <1>4, <2>1, <2>2 DEF Clear
<1>5. CASE ClearFails(r) \/ MoveAsideFails(r)
  BY <1>5 DEF ClearFails, MoveAsideFails
<1>6. CASE MoveAside(r)
  <2>1. image[Home(r)] = "current" /\ previous # "current" /\ target = "current"
    BY <1>1, <1>6 DEF MoveAside
  <2>2. \A p \in Processes : Live(p) => image[p] = "current"
    BY <1>6, <2>1 DEF MoveAside
  <2>3. \A o \in Requests : ~Between(o)
    BY <2>1
  <2> QED
    BY <1>6, <2>1, <2>2, <2>3 DEF MoveAside
<1>7. CASE MoveIn(r)
  <2>1. target = "none" /\ previous = "current"
    BY <1>7 DEF MoveIn
  <2> QED
    BY <1>7, <2>1 DEF MoveIn
<1>8. CASE MoveInFails(r) \/ Answer(r)
  BY <1>8 DEF MoveInFails, Answer
<1>9. CASE RollBack(r)
  <2>1. target = "none" /\ previous = "current"
    BY <1>9 DEF RollBack
  <2> QED
    BY <1>9, <2>1 DEF RollBack
<1>10. CASE RollBackFails(r)
  BY <1>10 DEF RollBackFails
<1>11. CASE Discard(r)
  BY <1>11 DEF Discard
<1> QED
  BY <1>2, <1>3, <1>4, <1>5, <1>6, <1>7, <1>8, <1>9, <1>10, <1>11 DEF RequestStep

LEMMA ProcessKeepsPlaces ==
    ASSUME TypeOK, Places, NEW p \in Processes,
           StartProcess(p) \/ Sweep(p) \/ Quit(p) \/ Die(p)
    PROVE  Places'
<1> USE DEF TypeOK, Places, InstallersAreOld, AsideIsOld, OneBetween, StagedIsNew,
        PreviousIsOld, ImagesStay, BuildSurvives, NameIsKept, Active, Between, Live,
        Running, Contents, Builds, Images, Steps, Installs, files, histories
<1> USE HomesAreProcesses
<1>1. CASE StartProcess(p)
  BY <1>1 DEF StartProcess
<1>2. CASE Sweep(p)
  BY <1>2 DEF Sweep
<1>3. CASE Quit(p)
  BY <1>3 DEF Quit
<1>4. CASE Die(p)
  <2>1. InstallersAreOld' /\ AsideIsOld' /\ OneBetween'
    BY <1>4 DEF Die
  <2>2. StagedIsNew' /\ PreviousIsOld' /\ ImagesStay' /\ BuildSurvives'
    BY <1>4 DEF Die
  <2>3. NameIsKept'
    BY <1>4 DEF Die
  <2> QED
    BY <2>1, <2>2, <2>3
<1> QED
  BY <1>1, <1>2, <1>3, <1>4

----------------------------------------------------------------------------
(* What is told.                                                              *)

LEMMA StepKeepsAnswered ==
    TypeOK /\ AnsweredIsDone /\ [Next]_vars => AnsweredIsDone'
<1> SUFFICES ASSUME TypeOK, AnsweredIsDone, [Next]_vars PROVE AnsweredIsDone'
  OBVIOUS
<1> USE DEF TypeOK, AnsweredIsDone
<1>1. ASSUME NEW r \in Requests, RequestStep(r) PROVE AnsweredIsDone'
  BY <1>1 DEF RequestStep, Begin, Refuse, WriteEnds, WriteFails, Clear, ClearFails,
       MoveAside, MoveAsideFails, MoveIn, Answer, MoveInFails, RollBack, RollBackFails,
       Discard, GoTo, Tell, files
<1>2. ASSUME NEW p \in Processes, StartProcess(p) \/ Sweep(p) \/ Quit(p) \/ Die(p)
      PROVE  AnsweredIsDone'
  BY <1>2 DEF StartProcess, Sweep, Quit, Die, files
<1>3. CASE UNCHANGED vars
  BY <1>3 DEF vars
<1> QED
  BY <1>1, <1>2, <1>3 DEF Next

LEMMA StepKeepsTells ==
    TypeOK /\ Places /\ Tells /\ [Next]_vars => Tells'
<1> SUFFICES ASSUME TypeOK, Places, Tells, [Next]_vars PROVE Tells'
  OBVIOUS
<1> AnsweredIsDone /\ AnsweredIsDone'
  BY StepKeepsAnswered DEF Tells
<1> USE DEF Tells, InstalledStays, ReleaseWasInstalled
<1>0. ASSUME target' = target, Installed' <=> Installed PROVE Tells'
  BY <1>0
<1>1. ASSUME NEW r \in Requests, MoveIn(r) PROVE Tells'
  <2>1. Through(r)'
    BY <1>1 DEF MoveIn, GoTo, Through, TypeOK
  <2>2. target' \in {"part", "release"}
    BY <1>1 DEF MoveIn, Places, StagedIsNew
  <2> QED
    BY <2>1, <2>2 DEF Installed
<1>2. ASSUME NEW r \in Requests, Answer(r) PROVE Tells'
  <2>1. Through(r) /\ Through(r)' /\ target' = target
    BY <1>2 DEF Answer, GoTo, Tell, Through, TypeOK, files
  <2> QED
    BY <1>0, <2>1 DEF Installed
<1>3. ASSUME NEW r \in Requests, GoTo(r, pc[r], pc'[r]), pc[r] # "moved", pc'[r] # "moved",
             UNCHANGED untold, \A o \in Requests : (answer'[o] = "installed") <=> (answer[o] = "installed")
      PROVE  Installed' <=> Installed
  <2>1. \A o \in Requests : Through(o)' <=> Through(o)
    BY <1>3 DEF GoTo, Through, TypeOK
  <2> QED
    BY <2>1 DEF Installed
<1>4. ASSUME NEW r \in Requests, MoveAside(r) PROVE Tells'
  <2>1. image[Home(r)] = "current" /\ previous # "current" /\ target = "current"
    BY <1>4, HomesAreProcesses
       DEF MoveAside, GoTo, Places, InstallersAreOld, Active, ImagesStay, Live, Running, Builds
  <2>2. Installed' <=> Installed
    BY <1>3, <1>4 DEF MoveAside, GoTo, TypeOK, histories
  <2> QED
    BY <1>4, <2>1, <2>2 DEF MoveAside
<1>5. ASSUME NEW r \in Requests, RollBack(r) PROVE Tells'
  <2>1. target = "none" /\ previous = "current"
    BY <1>5 DEF RollBack, GoTo, Places, AsideIsOld, Between
  <2>2. Installed' <=> Installed
    BY <1>3, <1>5 DEF RollBack, GoTo, TypeOK, histories
  <2> QED
    BY <1>5, <2>1, <2>2 DEF RollBack
<1>6. ASSUME NEW r \in Requests, Refuse(r) \/ Discard(r) PROVE Tells'
  <2>1. answer[r] # "installed" /\ target' = target /\ untold' = untold
    BY <1>6 DEF Refuse, Discard, files, GoTo, AnsweredIsDone, histories
  <2>2. \A o \in Requests : (answer'[o] = "installed") <=> (answer[o] = "installed")
    BY <1>6, <2>1 DEF Refuse, Discard, Tell, TypeOK
  <2>3. GoTo(r, pc[r], pc'[r]) /\ pc[r] # "moved" /\ pc'[r] # "moved"
    BY <1>6 DEF Refuse, Discard, GoTo, TypeOK
  <2> QED
    BY <1>0, <1>3, <2>1, <2>2, <2>3
<1>7. ASSUME NEW r \in Requests,
             Begin(r) \/ WriteEnds(r) \/ WriteFails(r) \/ Clear(r) \/ ClearFails(r)
                \/ MoveAsideFails(r) \/ MoveInFails(r) \/ RollBackFails(r)
      PROVE  Tells'
  <2>1. UNCHANGED <<target, answer, untold>>
    BY <1>7 DEF Begin, WriteEnds, WriteFails, Clear, ClearFails, MoveAsideFails,
         MoveInFails, RollBackFails, files, histories
  <2>2. GoTo(r, pc[r], pc'[r]) /\ pc[r] # "moved" /\ pc'[r] # "moved"
    BY <1>7 DEF Begin, WriteEnds, WriteFails, Clear, ClearFails, MoveAsideFails,
         MoveInFails, RollBackFails, GoTo, TypeOK
  <2> QED
    BY <1>0, <1>3, <2>1, <2>2
<1>8. ASSUME NEW p \in Processes, Die(p) PROVE Tells'
  <2>1. target' = target /\ answer' = answer
    BY <1>8 DEF Die, files
  <2>2. \A r \in Requests : Through(r)' <=> Through(r)
    BY <1>8, <2>1 DEF Die, Installs, Through, TypeOK
  <2> QED
    BY <1>0, <2>1, <2>2 DEF Installed
<1>9. ASSUME UNCHANGED <<target, answer, pc, untold>> PROVE Tells'
  BY <1>9 DEF Installed, Through
<1>10. ASSUME NEW p \in Processes, StartProcess(p) \/ Sweep(p) \/ Quit(p) PROVE Tells'
  BY <1>9, <1>10 DEF StartProcess, Sweep, Quit, files, histories
<1>11. CASE UNCHANGED vars
  BY <1>9, <1>11 DEF vars
<1> QED
  BY <1>1, <1>2, <1>4, <1>5, <1>6, <1>7, <1>8, <1>10, <1>11 DEF Next, RequestStep

----------------------------------------------------------------------------
(* Whole builds.                                                              *)

LEMMA RequestKeepsWholes ==
    ASSUME TypeOK, Places, Wholes, NEW r \in Requests, RequestStep(r)
    PROVE  Wholes'
<1> USE DEF Wholes, OpenerWrites, PartIsWatched, OnlyWholeBuilds, TypeOK, Steps, GoTo, files, histories
<1>1. CASE Begin(r) \/ Refuse(r)
  BY <1>1 DEF Begin, Refuse
<1>2. CASE WriteEnds(r)
  BY <1>2 DEF WriteEnds
<1>3. CASE WriteFails(r)
  BY <1>3 DEF WriteFails, Relying
<1>4. CASE Clear(r) \/ ClearFails(r) \/ MoveAside(r) \/ MoveAsideFails(r)
  BY <1>4 DEF Clear, ClearFails, MoveAside, MoveAsideFails
<1>5. CASE MoveIn(r)
  <2>1. opener = {}
    BY <1>5 DEF MoveIn, Written
  <2>2. previous = "current"
    BY <1>5 DEF MoveIn, Places, AsideIsOld, Between
  <2>3. staged = "part" => spoiled
    BY <1>5, <2>1 DEF MoveIn
  <2> QED
    BY <1>5, <2>1, <2>2, <2>3 DEF MoveIn
<1>6. CASE MoveInFails(r) \/ RollBackFails(r) \/ Discard(r) \/ Answer(r)
  BY <1>6 DEF MoveInFails, RollBackFails, Discard, Answer
<1>7. CASE RollBack(r)
  BY <1>7 DEF RollBack
<1> QED
  BY <1>1, <1>2, <1>3, <1>4, <1>5, <1>6, <1>7 DEF RequestStep

LEMMA ProcessKeepsWholes ==
    ASSUME TypeOK, Wholes, NEW p \in Processes,
           StartProcess(p) \/ Sweep(p) \/ Quit(p) \/ Die(p)
    PROVE  Wholes'
<1> USE DEF Wholes, OpenerWrites, PartIsWatched, OnlyWholeBuilds, TypeOK, files, histories
<1>1. CASE StartProcess(p) \/ Sweep(p) \/ Quit(p)
  BY <1>1 DEF StartProcess, Sweep, Quit
<1>2. CASE Die(p)
  <2>1. OpenerWrites' /\ OnlyWholeBuilds'
    BY <1>2 DEF Die, Installs
  <2>2. ASSUME staged = "part", ~spoiled', opener' = {}, NEW r \in Requests,
               pc'[r] \in {"writing", "written", "cleared", "aside"}
        PROVE  FALSE
    <3>1. r \notin Installs(p) /\ pc[r] \in {"writing", "written", "cleared", "aside"}
      BY <1>2, <2>2 DEF Die
    <3>2. PICK o \in opener : TRUE
      BY <1>2, <2>2, <3>1 DEF Die
    <3>3. o \in Installs(p) /\ pc[o] = "writing"
      BY <1>2, <2>2, <3>2 DEF Die
    <3> QED
      BY <1>2, <2>2, <3>1, <3>3 DEF Die
  <2> QED
    BY <1>2, <2>1, <2>2 DEF Die
<1> QED
  BY <1>1, <1>2

----------------------------------------------------------------------------

LEMMA StepKeepsIInv == IInv /\ [Next]_vars => IInv'
<1> SUFFICES ASSUME IInv, [Next]_vars PROVE IInv'
  OBVIOUS
<1> USE DEF IInv
<1>1. TypeOK' /\ Tells'
  BY StepKeepsTypes, StepKeepsTells
<1>2. Places' /\ Wholes'
  <2>1. CASE \E r \in Requests : RequestStep(r)
    BY <2>1, RequestKeepsPlaces, RequestKeepsWholes
  <2>2. CASE \E p \in Processes : StartProcess(p) \/ Sweep(p) \/ Quit(p) \/ Die(p)
    BY <2>2, ProcessKeepsPlaces, ProcessKeepsWholes
  <2>3. CASE UNCHANGED vars
    BY <2>3 DEF vars, files, Places, Wholes, Active, Between, InstallersAreOld, AsideIsOld,
         OneBetween, StagedIsNew, PreviousIsOld, ImagesStay, BuildSurvives, NameIsKept,
         Live, OpenerWrites, PartIsWatched, OnlyWholeBuilds
  <2> QED
    BY <2>1, <2>2, <2>3 DEF Next
<1> QED
  BY <1>1, <1>2

LEMMA AlwaysIInv == Spec => []IInv
<1>1. IInv /\ [Next]_vars => IInv'
  BY StepKeepsIInv
<1> QED
  BY <1>1, InitEstablishes, PTL DEF Spec

(* The executable goes from its name only between the two renames, or where one *)
(* of them was the last thing an install did.                                 *)
THEOREM NameStays == Spec => []NameIsKept
<1>1. IInv => NameIsKept
  BY DEF IInv, Places
<1> QED
  BY <1>1, AlwaysIInv, PTL

(* Nothing but a whole build is moved under the name, however installs overlap, *)
(* unless a write failed under another install.                               *)
THEOREM BuildsAreWhole == Spec => []OnlyWholeBuilds
<1>1. IInv => OnlyWholeBuilds
  BY DEF IInv, Wholes
<1> QED
  BY <1>1, AlwaysIInv, PTL

(* What the installs answered agrees with the executable, but for those killed  *)
(* with the release in place and the answer still to come.                     *)
THEOREM AnswersStay == Spec => []AnswersHold
<1>1. IInv => AnswersHold
  BY DEF IInv, Tells, InstalledStays, ReleaseWasInstalled, Installed, Through, AnswersHold, Builds
<1> QED
  BY <1>1, AlwaysIInv, PTL

(* Every variable stays in its type, whatever fails and whoever dies.         *)
THEOREM TypeCorrect == Spec => []TypeOK
<1>1. IInv => TypeOK
  BY DEF IInv
<1> QED
  BY <1>1, AlwaysIInv, PTL

=============================================================================
