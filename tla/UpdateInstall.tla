--------------------------- MODULE UpdateInstall ---------------------------
(* The self-update of utils/updates.py: an install writes the verified release *)
(* beside the executable, moves the running executable aside and the release   *)
(* into its place; the next start removes what was moved aside. Nothing keeps  *)
(* two installs of one server apart, a process may die between any two steps,  *)
(* and Windows lets a running image be renamed, not replaced or removed.       *)
EXTENDS Naturals, FiniteSets

CONSTANTS
    Processes,   \* everything started from the executable, the first included
    First,       \* the process that runs at the beginning
    Servers,     \* those of them that serve
    PerServer,   \* bound: requests to install one of them gets
    MaxFaults    \* bound: file operations that fail by themselves, and deaths

ASSUME InstallAssumption ==
    /\ First \in Processes /\ Servers \subseteq Processes
    /\ PerServer \in Nat /\ MaxFaults \in Nat

Requests == Servers \X (1..PerServer)   \* POST /update/install
Home(r) == r[1]                         \* the process that serves it

Builds == {"current", "release"}
Contents == Builds \cup {"none", "part"}
Images == Builds \cup {"unborn", "gone"}
Steps == {"idle", "writing", "written", "cleared", "aside", "rollback",
          "moved", "failed", "done"}

VARIABLES
    target,      \* fpstune.exe
    staged,      \* fpstune.exe.new
    previous,    \* fpstune.exe.old
    image,       \* image[p]: what process p runs
    swept,       \* swept[p]: p has tried to remove the copy moved aside
    pc,          \* pc[r]: where an install is
    answer,      \* answer[r]: what it told the user
    opener,      \* the request that truncated the staged file last, if it still writes
    faults,
    cut,         \* history: an install died between its renames or could not undo the first
    untold,      \* history: installs that died with the release moved in, unanswered
    spoiled      \* history: a write failed while another install relied on the staged file

files == <<target, staged, previous>>
histories == <<cut, untold, spoiled>>
vars == <<target, staged, previous, image, swept, pc, answer, opener, faults,
          cut, untold, spoiled>>

TypeOK ==
    /\ target \in Contents /\ staged \in Contents /\ previous \in Contents
    /\ image \in [Processes -> Images]
    /\ swept \in [Processes -> BOOLEAN]
    /\ pc \in [Requests -> Steps]
    /\ answer \in [Requests -> {"none", "installed", "refused"}]
    /\ opener \subseteq Requests
    /\ faults \in 0..MaxFaults
    /\ cut \in BOOLEAN /\ untold \subseteq Requests /\ spoiled \in BOOLEAN

Init ==
    /\ target = "current" /\ staged = "none" /\ previous = "none"
    /\ image = [p \in Processes |-> IF p = First THEN "current" ELSE "unborn"]
    /\ swept = [p \in Processes |-> p = First]
    /\ pc = [r \in Requests |-> "idle"]
    /\ answer = [r \in Requests |-> "none"]
    /\ opener = {} /\ faults = 0 /\ cut = FALSE /\ untold = {} /\ spoiled = FALSE

Live(p) == image[p] \in Builds
(* Windows refuses to replace or remove what some process runs ...            *)
Running(file) == file \in Builds /\ \E p \in Processes : image[p] = file
(* ... and to move or remove what is open for writing.                        *)
Written == \E r \in Requests : pc[r] = "writing"

Fault == faults < MaxFaults /\ faults' = faults + 1
(* A file operation fails because it must, or by itself (a scanner, a full disk). *)
Fails(refused) == \/ refused /\ UNCHANGED faults
                  \/ Fault

GoTo(r, from, to) == pc[r] = from /\ pc' = [pc EXCEPT ![r] = to]
Tell(r, what) == answer' = [answer EXCEPT ![r] = what]

----------------------------------------------------------------------------
(* The install                                                                *)

(* Only a build older than the release installs it; the download was verified. *)
Begin(r) ==
    /\ image[Home(r)] = "current" /\ swept[Home(r)]
    /\ GoTo(r, "idle", "writing")
    /\ staged' = "part" /\ opener' = {r}
    /\ UNCHANGED <<target, previous, image, swept, answer, faults, histories>>

(* No newer release, no network, no checksum that agrees: nothing is touched.  *)
Refuse(r) ==
    /\ Live(Home(r)) /\ swept[Home(r)]
    /\ GoTo(r, "idle", "done") /\ Tell(r, "refused")
    /\ UNCHANGED <<files, image, swept, opener, faults, histories>>

(* Both writers of an overlap write the same bytes: the file is whole once the *)
(* one that truncated it last is through, or already if the other wrote later. *)
WriteEnds(r) ==
    /\ GoTo(r, "writing", "written")
    /\ staged' \in IF r \in opener THEN {"release"} ELSE {staged, "release"}
    /\ opener' = opener \ {r}
    /\ UNCHANGED <<target, previous, image, swept, answer, faults, histories>>

(* The installs that believe the staged file is whole.                        *)
Relying == {r \in Requests : pc[r] \in {"written", "cleared", "aside"}}

\* Mutant: the result of the write is not looked at
WriteFailsUnseen(r) ==
    /\ Fault /\ GoTo(r, "writing", "written")
    /\ opener' = opener \ {r}
    /\ UNCHANGED <<files, image, swept, answer, histories>>

WriteFails(r) ==
    /\ Fault /\ GoTo(r, "writing", "failed")
    /\ opener' = opener \ {r}
    /\ spoiled' = (spoiled \/ Relying # {} \/ \E o \in Requests \ {r} : pc[o] = "writing")
    /\ UNCHANGED <<files, image, swept, answer, cut, untold>>

Clear(r) ==
    /\ ~Running(previous)
    /\ GoTo(r, "written", "cleared")
    /\ previous' = "none"
    /\ UNCHANGED <<target, staged, image, swept, answer, opener, faults, histories>>

ClearFails(r) ==
    /\ Fails(Running(previous)) /\ GoTo(r, "written", "failed")
    /\ UNCHANGED <<files, image, swept, answer, opener, histories>>

MoveAside(r) ==
    /\ target # "none" /\ ~Running(previous)
    /\ GoTo(r, "cleared", "aside")
    /\ previous' = target /\ target' = "none"
    /\ UNCHANGED <<staged, image, swept, answer, opener, faults, histories>>

MoveAsideFails(r) ==
    /\ Fails(target = "none" \/ Running(previous)) /\ GoTo(r, "cleared", "failed")
    /\ UNCHANGED <<files, image, swept, answer, opener, histories>>

MoveIn(r) ==
    /\ staged # "none" /\ ~Written /\ ~Running(target)
    /\ GoTo(r, "aside", "moved")
    /\ target' = staged /\ staged' = "none"
    /\ UNCHANGED <<previous, image, swept, answer, opener, faults, histories>>

(* The release is in place: only now the user hears of it.                    *)
Answer(r) ==
    /\ GoTo(r, "moved", "done") /\ Tell(r, "installed")
    /\ UNCHANGED <<files, image, swept, opener, faults, histories>>

\* Mutant: the running executable is left where it was moved to
MoveInFailsForGood(r) ==
    /\ Fails(staged = "none" \/ Written \/ Running(target))
    /\ GoTo(r, "aside", "failed")
    /\ UNCHANGED <<files, image, swept, answer, opener, histories>>

MoveInFails(r) ==
    /\ Fails(staged = "none" \/ Written \/ Running(target))
    /\ GoTo(r, "aside", "rollback")
    /\ UNCHANGED <<files, image, swept, answer, opener, histories>>

\* Mutant: the rename is undone and the error forgotten
RollBackQuietly(r) ==
    /\ previous # "none" /\ ~Running(target)
    /\ GoTo(r, "rollback", "done") /\ Tell(r, "installed")
    /\ target' = previous /\ previous' = "none"
    /\ UNCHANGED <<staged, image, swept, opener, faults, histories>>

RollBack(r) ==
    /\ previous # "none" /\ ~Running(target)
    /\ GoTo(r, "rollback", "failed")
    /\ target' = previous /\ previous' = "none"
    /\ UNCHANGED <<staged, image, swept, answer, opener, faults, histories>>

RollBackFails(r) ==
    /\ Fails(previous = "none" \/ Running(target)) /\ GoTo(r, "rollback", "failed")
    /\ cut' = TRUE
    /\ UNCHANGED <<files, image, swept, answer, opener, untold, spoiled>>

(* The staged file is removed as far as possible, whoever wrote it.           *)
Discard(r) ==
    /\ GoTo(r, "failed", "done") /\ Tell(r, "refused")
    /\ \/ ~Written /\ staged' = "none" /\ UNCHANGED faults
       \/ Fails(Written) /\ UNCHANGED staged
    /\ UNCHANGED <<target, previous, image, swept, opener, histories>>

----------------------------------------------------------------------------
(* The processes                                                              *)

StartProcess(p) ==
    /\ image[p] = "unborn" /\ target \in Builds
    /\ image' = [image EXCEPT ![p] = target]
    /\ UNCHANGED <<files, swept, pc, answer, opener, faults, histories>>

(* Every start removes the copy moved aside, if it can.                       *)
Sweep(p) ==
    /\ Live(p) /\ ~swept[p]
    /\ swept' = [swept EXCEPT ![p] = TRUE]
    /\ \/ ~Running(previous) /\ previous' = "none" /\ UNCHANGED faults
       \/ Fails(Running(previous)) /\ UNCHANGED previous
    /\ UNCHANGED <<target, staged, image, pc, answer, opener, histories>>

Installs(p) == {r \in Requests : Home(r) = p /\ pc[r] \notin {"idle", "done"}}

(* A server that ends lets the requests it serves end first ...               *)
Quit(p) ==
    /\ Live(p) /\ Installs(p) = {}
    /\ image' = [image EXCEPT ![p] = "gone"]
    /\ UNCHANGED <<files, swept, pc, answer, opener, faults, histories>>

(* ... unless it is killed.                                                   *)
Die(p) ==
    /\ Live(p) /\ Fault
    /\ image' = [image EXCEPT ![p] = "gone"]
    /\ pc' = [r \in Requests |-> IF r \in Installs(p) THEN "done" ELSE pc[r]]
    /\ opener' = opener \ Installs(p)
    /\ cut' = (cut \/ \E r \in Installs(p) : pc[r] \in {"aside", "rollback"})
    /\ untold' = untold \cup {r \in Installs(p) : pc[r] = "moved"}
    /\ spoiled' = (spoiled \/ /\ \E r \in Installs(p) : pc[r] = "writing"
                              /\ \E r \in Requests \ Installs(p) :
                                    pc[r] \in {"writing", "written", "cleared", "aside"})
    /\ UNCHANGED <<files, swept, answer>>

RequestStep(r) ==
    \/ Begin(r) \/ Refuse(r) \/ WriteEnds(r) \/ WriteFails(r)
    \/ Clear(r) \/ ClearFails(r) \/ MoveAside(r) \/ MoveAsideFails(r)
    \/ MoveIn(r) \/ Answer(r) \/ MoveInFails(r) \/ RollBack(r) \/ RollBackFails(r) \/ Discard(r)

Next ==
    \/ \E r \in Requests : RequestStep(r)
    \/ \E p \in Processes : StartProcess(p) \/ Sweep(p) \/ Quit(p) \/ Die(p)

Spec == Init /\ [][Next]_vars

----------------------------------------------------------------------------
(* Properties                                                                 *)

(* The executable is missing under its name only while an install is between  *)
(* its two renames, or for good where one was killed there or could not undo  *)
(* the first: no start, other install or failed rename takes it away.         *)
NameIsKept ==
    target = "none" => cut \/ \E r \in Requests : pc[r] \in {"aside", "rollback"}

(* What is under the name is a whole build, though installs share one staged  *)
(* file, unless the write of one failed under another that relied on it.      *)
OnlyWholeBuilds == "part" \in {target, previous} => spoiled

(* The executable and the answers agree: an install that said so is there to   *)
(* stay, through every other install and its undoing, and the release is under *)
(* the name only if somebody was told, is about to be, or was killed in the    *)
(* moment between the second rename and the answer (install_update).          *)
AnswersHold ==
    target \in Builds =>
        (target = "release" <=>
            \E r \in Requests :
                answer[r] = "installed" \/ pc[r] = "moved" \/ r \in untold)
=============================================================================
