-------------------------- MODULE VbootBoot_proofs --------------------------
(***************************************************************************)
(* Theorems about VbootBoot, for every set of boards and every bound on    *)
(* the kernel version: how the machine is left (HandoffSafe, for boards    *)
(* without KERNEL_LEGACY), that failures are stored before any exit        *)
(* (FailureRecorded), that none is followed by a handoff                   *)
(* (NoHandoffAfterFailure), and that exits nest at most twice              *)
(* (CleanupBounded).                                                       *)
(***************************************************************************)
EXTENDS VbootBoot, TLAPS

-----------------------------------------------------------------------------
(* The inductive invariant.                                                 *)

Listed(f, list) == \E i \in DOMAIN list : list[i] = f

Committing == pc \in {"commit_kernel", "commit_firmware", "commit_nvdata", "commit_done"}

\* A walk of the cleanup list is in progress, and goes on.
Walking ==
    \/ pc \in {"cleanup", "lock"}
    \/ Committing /\ commit.caller = "cleanup"

\* The context and what is stored differ only in what is marked as changed.
DataInv ==
    /\ "nv" \notin ctx.changed => store.nv = ctx.nv
    /\ "kernel" \notin ctx.changed => store.version = ctx.version
    /\ failed => "failure" \in ctx.nv

\* What the cleanup list must hold.
ListInv ==
    /\ pc = "start" => cleanup_funcs = <<>>
    /\ pc \notin {"start", "fwmp", "register"} => Listed("commit", cleanup_funcs)
    /\ powerbtn = "inhibited" => Listed("powerbtn", cleanup_funcs)

\* Why a walk is made, and how deep it is.
DepthInv ==
    /\ Walking =>
        /\ walk.then # "none"
        /\ walk.type = "Handoff" <=> walk.then = "kernel"
        /\ walk.type = "Legacy" <=> walk.then = "payload"
        /\ walk.type = "PowerOff" <=> walk.then = "off"
        /\ walk.type = "Reboot" <=> walk.then \in {"reboot", "ec_phase", "ec_exit"}
        /\ depth = 1 \/ (depth = 2 /\ walk.then = "reboot")
    /\ pc = "lock" => walk.then \in {"kernel", "payload"}
    /\ Committing => commit.caller # "none"
    /\ Committing /\ commit.caller = "lockfail" => depth = 1
    /\ Committing /\ commit.caller \in {"seed", "locale"} => depth = 0
    /\ ~Walking /\ ~Committing /\ pc \notin {"dead", "rebooted"} => depth = 0
    /\ pc = "rebooted" => depth <= 1
    /\ depth <= 2

\* How far a commit has got outside recovery mode.
CommitInv ==
    ~InRecovery =>
        /\ pc \in {"commit_firmware", "commit_nvdata", "commit_done"} /\ ~commit.error =>
               "kernel" \notin ctx.changed
        /\ pc = "commit_done" => "nv" \notin ctx.changed
        /\ pc = "lock" => "nv" \notin ctx.changed /\ "kernel" \notin ctx.changed

\* The TPM's state and the kernel it is for.
TpmInv ==
    /\ kernel = "nbr" <=> ctx.disable_tpm
    /\ "disabled" \in chip => kernel = "nbr" /\ board.google
    /\ secdata_kernel_locked => "locked" \in chip

\* The machine may be handed over.
Ready ==
    /\ ~InRecovery => "locked" \in chip /\ "kernel" \notin ctx.changed
    /\ kernel = "nbr" => "locked" \in chip /\ (board.google => "disabled" \in chip)

\* Not by way of legacy_boot, which makes no walk.
Left == pc = "kernel" => ~board.legacy

\* What a walk has done once its commit is behind it.
WalkInv ==
    /\ Walking /\ powerbtn = "inhibited" => Listed("powerbtn", walk.rest)
    /\ pc = "cleanup" /\ ~Listed("commit", walk.rest) =>
        /\ ~InRecovery => "nv" \notin ctx.changed
        /\ walk.then \in {"kernel", "payload"} => Ready
    /\ Left /\ pc \in {"kernel", "payload", "rebooted", "off"} =>
        /\ powerbtn # "inhibited"
        /\ ~InRecovery => "nv" \notin ctx.changed
    /\ Left /\ pc \in {"kernel", "payload"} => Ready

\* The kernel is chosen once, after everything that may come back to "load".
ChoiceInv ==
    /\ \/ pc \in {"start", "fwmp", "register", "phase1", "phase2", "load", "payload"}
       \/ Walking /\ walk.then \in {"ec_phase", "payload"}
       \/ Committing /\ commit.caller = "locale"
       => kernel = "none" /\ "kernel" \notin ctx.changed /\ "firmware" \notin ctx.changed
    /\ pc \in {"register", "phase1"} => res \in {"success", "error"}
    /\ pc \in {"phase2", "load", "payload"} => res = "success"
    /\ Walking /\ walk.then \in {"ec_phase", "payload"} => res = "success"
    /\ Committing /\ commit.caller = "locale" => res = "success"

\* After a failure outside recovery mode there is only the way to a reboot.
FailInv ==
    failed /\ ~InRecovery =>
        \/ pc = "decide" /\ res # "success"
        \/ Committing /\ commit.caller \in {"lockfail", "seed"}
        \/ Walking /\ pc # "lock" /\ walk.then \in {"reboot", "off", "ec_exit"}
        \/ Committing /\ commit.caller = "cleanup" /\ commit.error
             /\ walk.then \in {"kernel", "payload"}
        \/ pc \in {"rebooted", "off", "dead"}

\* The types of the records, and the type invariant by variable.
Contexts == [nv : SUBSET Facts, version : 0 .. MaxVersion,
             changed : SUBSET Spaces, disable_tpm : BOOLEAN]
Stores == [nv : SUBSET Facts, version : 0 .. MaxVersion]
Walks == [type : CleanupTypes \cup {"none"}, rest : Seq(CleanupFuncs),
          then : {"none", "reboot", "off", "kernel", "payload", "ec_phase", "ec_exit"}]
Commits == [caller : {"none", "cleanup", "lockfail", "seed", "locale"}, error : BOOLEAN]

TypeInv ==
    /\ board \in Boards
    /\ mode \in Modes
    /\ ctx \in Contexts
    /\ store \in Stores
    /\ driver \in {"unused", "open", "closed"}
    /\ chip \subseteq {"locked", "disabled"}
    /\ secdata_kernel_locked \in BOOLEAN
    /\ powerbtn \in ButtonStates
    /\ cleanup_funcs \in Seq(CleanupFuncs)
    /\ pc \in Steps \cup Ended
    /\ kernel \in {"none", "disk", "nbr"}
    /\ res \in Results
    /\ walk \in Walks
    /\ depth \in Nat
    /\ commit \in Commits
    /\ failed \in BOOLEAN

IInv ==
    /\ TypeInv /\ DataInv /\ ListInv /\ DepthInv /\ CommitInv
    /\ TpmInv /\ WalkInv /\ ChoiceInv /\ FailInv

-----------------------------------------------------------------------------
(* The cleanup list.                                                        *)

\* Putting a function in front of a list keeps the others on it.
LEMMA Prepended ==
    ASSUME NEW list \in Seq(CleanupFuncs), NEW g \in CleanupFuncs
    PROVE  /\ <<g>> \o list \in Seq(CleanupFuncs)
           /\ Listed(g, <<g>> \o list)
           /\ \A f : Listed(f, list) => Listed(f, <<g>> \o list)
<1>1. /\ <<g>> \o list \in Seq(CleanupFuncs)
      /\ Len(<<g>> \o list) = Len(list) + 1
      /\ (<<g>> \o list)[1] = g
      /\ \A i \in 1 .. Len(list) : (<<g>> \o list)[i + 1] = list[i]
  OBVIOUS
<1>2. /\ DOMAIN (<<g>> \o list) = 1 .. Len(list) + 1
      /\ DOMAIN list = 1 .. Len(list) /\ Len(list) \in Nat
  BY <1>1
<1>3. ASSUME NEW f, Listed(f, list)
      PROVE  Listed(f, <<g>> \o list)
  <2>1. PICK i \in 1 .. Len(list) : list[i] = f
    BY <1>2, <1>3 DEF Listed
  <2>2. i + 1 \in 1 .. Len(list) + 1 /\ (<<g>> \o list)[i + 1] = f
    BY <1>1, <1>2, <2>1
  <2>3. QED
    BY <1>2, <2>2 DEF Listed
<1>4. Listed(g, <<g>> \o list)
  BY <1>1, <1>2 DEF Listed
<1>5. QED
  BY <1>1, <1>3, <1>4

\* A function on a list is its head or on its tail.
LEMMA HeadOrTail ==
    ASSUME NEW list \in Seq(CleanupFuncs), list # <<>>
    PROVE  /\ Tail(list) \in Seq(CleanupFuncs)
           /\ \A f : Listed(f, list) => f = Head(list) \/ Listed(f, Tail(list))
<1>1. /\ Tail(list) \in Seq(CleanupFuncs)
      /\ DOMAIN list = 1 .. Len(list) /\ Len(list) \in Nat
      /\ Len(Tail(list)) = Len(list) - 1
      /\ Head(list) = list[1]
      /\ \A i \in 1 .. Len(list) - 1 : Tail(list)[i] = list[i + 1]
  OBVIOUS
<1>2. DOMAIN Tail(list) = 1 .. Len(list) - 1
  BY <1>1
<1>3. ASSUME NEW f, Listed(f, list), f # Head(list)
      PROVE  Listed(f, Tail(list))
  <2>1. PICK i \in 1 .. Len(list) : list[i] = f
    BY <1>1, <1>3 DEF Listed
  <2>2. i # 1
    BY <1>1, <1>3, <2>1
  <2>3. i - 1 \in 1 .. Len(list) - 1 /\ Tail(list)[i - 1] = f
    BY <1>1, <2>1, <2>2
  <2>4. QED
    BY <1>2, <2>3 DEF Listed
<1>4. QED
  BY <1>1, <1>3

\* Nothing is on the empty list.
LEMMA NothingOnEmpty == \A f : ~Listed(f, <<>>)
BY DEF Listed

\* A TPM command leaves every function on the cleanup list; at most it adds
\* the driver's own cleanup.
LEMMA TpmKeepsList ==
    ASSUME TypeInv, NEW executed \in BOOLEAN, TpmCommand(executed)
    PROVE  /\ cleanup_funcs' \in Seq(CleanupFuncs)
           /\ driver' \in {"unused", "open", "closed"}
           /\ \A f : Listed(f, cleanup_funcs) => Listed(f, cleanup_funcs')
<1>1. "tpm" \in CleanupFuncs /\ cleanup_funcs \in Seq(CleanupFuncs)
  BY DEF TypeInv, CleanupFuncs
<1>2. CASE UNCHANGED tpmVars
  BY <1>1, <1>2 DEF TypeInv, tpmVars
<1>3. CASE driver' = "open" /\ cleanup_funcs' = <<"tpm">> \o cleanup_funcs
  BY <1>1, <1>3, Prepended
<1>4. QED
  BY <1>2, <1>3 DEF TpmCommand

\* vb2api_fail puts a failure into nvdata and marks it changed, nothing else.
LEMMA FailureMarked ==
    ASSUME NEW c \in Contexts
    PROVE  /\ WithFailure(c) \in Contexts
           /\ WithFailure(c).nv = c.nv \cup {"failure"}
           /\ WithFailure(c).changed = c.changed \cup {"nv"}
           /\ WithFailure(c).version = c.version
           /\ WithFailure(c).disable_tpm = c.disable_tpm
BY DEF Contexts, WithFailure, Facts, Spaces

-----------------------------------------------------------------------------
(* Each part of the invariant is kept by every step.                        *)

\* What is marked as changed is all that is not stored.
LEMMA DataStep ==
    ASSUME TypeInv, DataInv, Next
    PROVE  DataInv'
<1>1. ctx \in Contexts /\ store \in Stores
  BY DEF TypeInv
<1>2. /\ WithFailure(ctx).nv = ctx.nv \cup {"failure"}
      /\ WithFailure(ctx).changed = ctx.changed \cup {"nv"}
      /\ WithFailure(ctx).version = ctx.version
  BY <1>1, FailureMarked
<1> USE DEF DataInv
<1>3. CASE Phase1
  BY <1>2, <1>3 DEF Phase1, vb2api_fail
<1>4. CASE Phase2
  <2>1. CASE ctx' = [ctx EXCEPT !.nv = @ \cup {"setting"}, !.changed = @ \cup {"nv"}]
             /\ UNCHANGED <<failed, store>>
    BY <1>1, <2>1 DEF Contexts
  <2>2. CASE vb2api_fail /\ UNCHANGED store
    BY <1>2, <2>2 DEF vb2api_fail
  <2>3. CASE UNCHANGED <<ctx, failed, store>>
    BY <2>3
  <2>4. QED
    BY <1>4, <2>1, <2>2, <2>3 DEF Phase2
<1>5. CASE LoadKernelFails
  <2> DEFINE c == [ctx EXCEPT !.disable_tpm = FALSE]
  <2>1. c \in Contexts /\ c.nv = ctx.nv /\ c.changed = ctx.changed /\ c.version = ctx.version
    BY <1>1 DEF Contexts
  <2>2. /\ WithFailure(c).nv = ctx.nv \cup {"failure"}
        /\ WithFailure(c).changed = ctx.changed \cup {"nv"}
        /\ WithFailure(c).version = ctx.version
    BY <2>1, FailureMarked
  <2>3. /\ \/ ctx' = WithFailure(c) /\ failed' = TRUE
           \/ ctx' = c /\ failed' = failed
        /\ store' = store
    BY <1>5 DEF LoadKernelFails
  <2> HIDE DEF c
  <2>4. QED
    BY <2>1, <2>2, <2>3
<1>6. CASE LoadKernel \/ LoadNbrKernel
  BY <1>1, <1>6 DEF LoadKernel, LoadNbrKernel, Contexts
<1>7. CASE SelectLanguage
  BY <1>1, <1>7 DEF SelectLanguage, Contexts
<1>8. CASE LeaveUi
  BY <1>1, <1>8 DEF LeaveUi, Contexts
<1>9. CASE Measure
  BY <1>2, <1>9 DEF Measure, vb2api_fail
<1>10. CASE Finalize
  BY <1>1, <1>10 DEF Finalize, Contexts
<1>11. CASE SeedFails \/ LockFails \/ EcResetFails
  <2>1. /\ UNCHANGED store
        /\ vb2api_fail \/ UNCHANGED <<ctx, failed>>
    BY <1>11 DEF SeedFails, LockFails, EcResetFails
  <2>2. QED
    BY <1>2, <2>1 DEF vb2api_fail
<1>12. CASE secdata_kernel_write
  BY <1>1, <1>2, <1>12 DEF secdata_kernel_write, SecdataWriteFails, CleanFlag, Unchanged,
                           vb2api_fail, Contexts, Stores
<1>13. CASE secdata_firmware_write
  BY <1>1, <1>2, <1>13 DEF secdata_firmware_write, SecdataWriteFails, CleanFlag, Unchanged,
                           vb2api_fail, Contexts, Stores
<1>14. CASE nvdata_write
  BY <1>1, <1>14 DEF nvdata_write, CleanFlag, Unchanged, Contexts, Stores
<1>15. CASE \/ InhibitPowerButton \/ secdata_fwmp_read \/ RegisterCommit \/ RunPayload
            \/ PayloadReturns \/ Decide \/ Boot \/ BootFails \/ NoBoot \/ KernelReturns
            \/ CleanupPowerButton \/ CleanupTpm \/ CleanupCommit \/ CleanupDone
            \/ CommitReturns \/ commit_and_lock_cleanup_func \/ LockNotNeeded \/ Lock
  <2>1. UNCHANGED <<ctx, store, failed>>
    BY <1>15 DEF InhibitPowerButton, secdata_fwmp_read, RegisterCommit, RunPayload,
                 PayloadReturns, Decide, Boot, BootFails, NoBoot, KernelReturns,
                 CleanupPowerButton, CleanupTpm, CleanupCommit, CleanupDone,
                 CommitReturns, commit_and_lock_cleanup_func, LockNotNeeded, Lock
  <2>2. QED
    BY <2>1
<1>16. QED
  BY <1>3, <1>4, <1>5, <1>6, <1>7, <1>8, <1>9, <1>10, <1>11, <1>12, <1>13, <1>14, <1>15
     DEF Next, Depthcharge

\* The functions that were registered stay registered.
LEMMA ListStep ==
    ASSUME TypeInv, ListInv, Next
    PROVE  ListInv' /\ cleanup_funcs' \in Seq(CleanupFuncs)
<1>1. cleanup_funcs \in Seq(CleanupFuncs) /\ {"powerbtn", "commit"} \subseteq CleanupFuncs
  BY DEF TypeInv, CleanupFuncs
<1> USE DEF ListInv, Goto
<1>2. CASE InhibitPowerButton
  <2>1. /\ <<>> \in Seq(CleanupFuncs)
        /\ <<"powerbtn">> \in Seq(CleanupFuncs)
        /\ Listed("powerbtn", <<"powerbtn">>)
    BY <1>1 DEF Listed
  <2>2. /\ \/ cleanup_funcs' = <<"powerbtn">>
           \/ cleanup_funcs' = <<>> /\ powerbtn' # "inhibited"
        /\ pc' = "fwmp"
    BY <1>2 DEF InhibitPowerButton
  <2>3. QED
    BY <2>1, <2>2
<1>3. CASE RegisterCommit
  <2>1. /\ cleanup_funcs' = <<"commit">> \o cleanup_funcs
        /\ pc' = "phase1" /\ powerbtn' = powerbtn
    BY <1>3 DEF RegisterCommit
  <2>2. QED
    BY <1>1, <2>1, Prepended
<1>4. CASE secdata_fwmp_read
  BY <1>4, TpmKeepsList DEF secdata_fwmp_read
<1>5. CASE Measure
  BY <1>5, <1>1, TpmKeepsList DEF Measure, RunCleanupFuncs, tpmVars
<1>6. CASE secdata_kernel_write
  BY <1>6, <1>1, TpmKeepsList DEF secdata_kernel_write, tpmVars
<1>7. CASE secdata_firmware_write
  BY <1>7, <1>1, TpmKeepsList DEF secdata_firmware_write, tpmVars
<1>8. CASE Lock
  BY <1>8, <1>1, TpmKeepsList DEF Lock, tpmVars
<1>9. CASE LockFails
  BY <1>9, TpmKeepsList DEF LockFails, CallCommit
<1>10. CASE CleanupPowerButton
  BY <1>10, <1>1 DEF CleanupPowerButton, tpmVars
<1>11. CASE \/ Phase1 \/ Phase2 \/ LoadKernel \/ LoadNbrKernel \/ LoadKernelFails
            \/ SelectLanguage \/ LeaveUi \/ RunPayload \/ PayloadReturns
  <2>1. UNCHANGED <<cleanup_funcs, powerbtn>>
    BY <1>11 DEF Phase1, Phase2, LoadKernel, LoadNbrKernel, LoadKernelFails, SelectLanguage,
                 LeaveUi, RunPayload, PayloadReturns, tpmVars
  <2>2. pc' # "start" /\ pc \notin {"start", "fwmp", "register"}
    BY <1>11 DEF Phase1, Phase2, LoadKernel, LoadNbrKernel, LoadKernelFails, SelectLanguage,
                 LeaveUi, RunPayload, PayloadReturns, tpmVars, CallCommit, RunCleanupFuncs
  <2>3. QED
    BY <1>1, <2>1, <2>2
<1>12. CASE \/ Finalize \/ Decide \/ Boot \/ SeedFails \/ BootFails \/ NoBoot
            \/ CleanupTpm \/ CleanupCommit \/ CleanupDone \/ EcResetFails \/ KernelReturns
  <2>1. UNCHANGED <<cleanup_funcs, powerbtn>>
    BY <1>12 DEF Finalize, Decide, Boot, SeedFails, BootFails, NoBoot, CleanupTpm,
                 CleanupCommit, CleanupDone, EcResetFails, KernelReturns, tpmVars
  <2>2. pc' # "start" /\ pc \notin {"start", "fwmp", "register"}
    BY <1>12 DEF Finalize, Decide, Boot, SeedFails, BootFails, NoBoot, CleanupTpm,
                 CleanupCommit, CleanupDone, EcResetFails, KernelReturns, tpmVars,
                 CallCommit, RunCleanupFuncs, reboot, power_off
  <2>3. QED
    BY <1>1, <2>1, <2>2
<1>13. CASE nvdata_write \/ CommitReturns \/ commit_and_lock_cleanup_func \/ LockNotNeeded
  <2>1. UNCHANGED <<cleanup_funcs, powerbtn>>
    BY <1>13 DEF nvdata_write, CommitReturns, commit_and_lock_cleanup_func, LockNotNeeded,
                 tpmVars
  <2>2. pc' # "start" /\ pc \notin {"start", "fwmp", "register"}
    BY <1>13 DEF nvdata_write, CommitReturns, commit_and_lock_cleanup_func, LockNotNeeded,
                 RunCleanupFuncs, reboot
  <2>3. QED
    BY <1>1, <2>1, <2>2
<1>14. QED
  BY <1>2, <1>3, <1>4, <1>5, <1>6, <1>7, <1>8, <1>9, <1>10, <1>11, <1>12, <1>13 DEF Next,
     Depthcharge

\* Walks are made for a reason, and nest only for a reboot.
LEMMA DepthStep ==
    ASSUME TypeInv, DepthInv, Next
    PROVE  DepthInv'
<1>1. depth \in Nat /\ walk \in Walks /\ commit \in Commits
  BY DEF TypeInv
<1> USE DEF DepthInv, Walking, Committing, Goto
<1>2. CASE \/ InhibitPowerButton \/ secdata_fwmp_read \/ RegisterCommit \/ Phase1
           \/ LoadKernel \/ LoadNbrKernel \/ LoadKernelFails \/ LeaveUi \/ PayloadReturns
           \/ Finalize \/ BootFails \/ NoBoot \/ KernelReturns
  <2>1. /\ ~Walking /\ ~Committing /\ pc \notin {"dead", "rebooted"}
        /\ pc' \in {"fwmp", "register", "phase1", "phase2", "decide", "measure", "load",
                    "noboot", "kernel", "halted"}
    BY <1>2 DEF InhibitPowerButton, secdata_fwmp_read, RegisterCommit, Phase1, LoadKernel,
                LoadNbrKernel, LoadKernelFails, LeaveUi, PayloadReturns, Finalize,
                BootFails,
                NoBoot, KernelReturns
  <2>2. depth' = depth
    BY <1>2 DEF InhibitPowerButton, secdata_fwmp_read, RegisterCommit, Phase1, LoadKernel,
                LoadNbrKernel, LoadKernelFails, LeaveUi, PayloadReturns, Finalize,
                BootFails,
                NoBoot, KernelReturns, exitVars
  <2>3. QED
    BY <2>1, <2>2
<1>3. CASE Phase2 \/ RunPayload \/ Measure \/ Decide \/ Boot
  <2>1. /\ depth = 0
        /\ \/ /\ \E list : walk' \in {[type |-> "Reboot", rest |-> list, then |-> "ec_phase"],
                              [type |-> "Legacy", rest |-> list, then |-> "payload"],
                              [type |-> "Reboot", rest |-> list, then |-> "reboot"],
                              [type |-> "PowerOff", rest |-> list, then |-> "off"],
                              [type |-> "Reboot", rest |-> list, then |-> "ec_exit"],
                              [type |-> "Handoff", rest |-> list, then |-> "kernel"]}
              /\ depth' = depth + 1
              /\ pc' = "cleanup"
           \/ depth' = depth /\ pc' \in {"load", "decide", "finalize", "boot"}
    BY <1>3 DEF Phase2, RunPayload, Measure, Decide, Boot, RunCleanupFuncs, reboot,
                power_off
  <2>2. QED
    BY <2>1
<1>4. CASE SelectLanguage \/ SeedFails
  BY <1>4 DEF SelectLanguage, SeedFails, CallCommit
<1>5. CASE CleanupPowerButton \/ CleanupTpm
  <2>1. UNCHANGED <<pc, depth, commit>> /\ walk'.then = walk.then /\ walk'.type = walk.type
    BY <1>1, <1>5 DEF CleanupPowerButton, CleanupTpm, NextCleanup, Walks
  <2>2. QED
    BY <1>5, <2>1 DEF CleanupPowerButton, CleanupTpm
<1>6. CASE CleanupCommit
  <2>1. /\ UNCHANGED depth /\ walk'.then = walk.then /\ walk'.type = walk.type
        /\ pc = "cleanup" /\ pc' = "commit_kernel" /\ commit'.caller = "cleanup"
    BY <1>1, <1>6 DEF CleanupCommit, CallCommit, NextCleanup, Walks
  <2>2. QED
    BY <2>1
<1>7. CASE CleanupDone
  BY <1>1, <1>7 DEF CleanupDone
<1>8. CASE EcResetFails
  BY <1>1, <1>8 DEF EcResetFails
<1>9. CASE secdata_kernel_write \/ secdata_firmware_write \/ nvdata_write
  <2>1. UNCHANGED <<walk, depth>> /\ commit'.caller = commit.caller /\ Committing
    BY <1>1, <1>9 DEF secdata_kernel_write, secdata_firmware_write, nvdata_write,
                      SecdataWriteFails, Commits
  <2>2. pc' \in {"commit_firmware", "commit_nvdata", "commit_done", "dead"}
    BY <1>9 DEF secdata_kernel_write, secdata_firmware_write, nvdata_write
  <2>3. QED
    BY <2>1, <2>2
<1>10. CASE CommitReturns
  BY <1>1, <1>10 DEF CommitReturns, reboot, RunCleanupFuncs
<1>11. CASE commit_and_lock_cleanup_func
  BY <1>1, <1>11 DEF commit_and_lock_cleanup_func, reboot, RunCleanupFuncs, RebootInstead,
                     NeedsLock
<1>12. CASE LockNotNeeded \/ Lock
  BY <1>12 DEF LockNotNeeded, Lock, exitVars
<1>13. CASE LockFails
  <2>1. /\ pc' = "commit_kernel" /\ commit' = [caller |-> "lockfail", error |-> FALSE]
        /\ pc = "lock" /\ depth' = depth /\ walk' = walk
    BY <1>13 DEF LockFails, CallCommit
  <2>2. QED
    BY <2>1
<1>14. QED
  BY <1>2, <1>3, <1>4, <1>5, <1>6, <1>7, <1>8, <1>9, <1>10, <1>11, <1>12, <1>13
     DEF Next, Depthcharge

\* Every variable keeps its type.
LEMMA TypeStep ==
    ASSUME TypeInv, ListInv, DepthInv, Next
    PROVE  TypeInv'
<1>1. cleanup_funcs' \in Seq(CleanupFuncs)
  BY ListStep
<1>2. ctx' \in Contexts
  <2>1. ctx \in Contexts /\ WithFailure(ctx) \in Contexts
    BY FailureMarked DEF TypeInv
  <2>2. /\ [ctx EXCEPT !.nv = @ \cup {"setting"}, !.changed = @ \cup {"nv"}] \in Contexts
        /\ \A b \in BOOLEAN : [ctx EXCEPT !.disable_tpm = b] \in Contexts
        /\ \A s \in Spaces : [ctx EXCEPT !.changed = @ \ {s}] \in Contexts
    BY <2>1 DEF Contexts, Facts, Spaces
  <2>3. CASE LoadKernelFails
    <3>1. [ctx EXCEPT !.disable_tpm = FALSE] \in Contexts
      BY <2>2
    <3>2. WithFailure([ctx EXCEPT !.disable_tpm = FALSE]) \in Contexts
      BY <3>1, FailureMarked
    <3>3. QED
      BY <2>3, <3>1, <3>2 DEF LoadKernelFails
  <2>4. CASE Finalize
    <3>1. ctx.version < MaxVersion => ctx.version + 1 \in 0 .. MaxVersion
      BY <2>1, BoardAssumption DEF Contexts
    <3>2. \A v \in 0 .. MaxVersion :
            [ctx EXCEPT !.version = v, !.changed = @ \cup {"kernel"}] \in Contexts
      BY <2>1 DEF Contexts, Spaces
    <3>3. QED
      BY <2>1, <2>4, <3>1, <3>2 DEF Finalize
  <2>5. CASE LeaveUi
    <3>1. PICK spaces \in SUBSET Spaces :
            ctx' = [ctx EXCEPT !.nv = IF "nv" \in spaces THEN @ \cup {"setting"} ELSE @,
                               !.changed = @ \cup spaces]
      BY <2>5 DEF LeaveUi, Spaces
    <3>2. \A nv \in SUBSET Facts :
            [ctx EXCEPT !.nv = nv, !.changed = @ \cup spaces] \in Contexts
      BY <2>1 DEF Contexts
    <3>3. (IF "nv" \in spaces THEN ctx.nv \cup {"setting"} ELSE ctx.nv) \in SUBSET Facts
      BY <2>1 DEF Contexts, Facts
    <3>4. QED
      BY <3>1, <3>2, <3>3
  <2>6. CASE LoadKernel \/ LoadNbrKernel \/ SelectLanguage \/ Phase2
    BY <2>1, <2>2, <2>6 DEF LoadKernel, LoadNbrKernel, SelectLanguage, Phase2, vb2api_fail
  <2>7. CASE secdata_kernel_write \/ secdata_firmware_write \/ nvdata_write
    BY <2>1, <2>2, <2>7 DEF secdata_kernel_write, secdata_firmware_write, nvdata_write,
                            CleanFlag, SecdataWriteFails, vb2api_fail, Spaces
  <2>8. CASE Phase1 \/ Measure \/ SeedFails \/ EcResetFails \/ LockFails
    BY <2>1, <2>8 DEF Phase1, Measure, SeedFails, EcResetFails, LockFails, vb2api_fail
  <2>9. CASE \/ InhibitPowerButton \/ secdata_fwmp_read \/ RegisterCommit \/ RunPayload
             \/ PayloadReturns \/ Decide \/ Boot \/ BootFails \/ NoBoot \/ KernelReturns
             \/ CleanupPowerButton \/ CleanupTpm \/ CleanupCommit \/ CleanupDone
             \/ CommitReturns \/ commit_and_lock_cleanup_func \/ LockNotNeeded \/ Lock
    BY <2>1, <2>9 DEF InhibitPowerButton, secdata_fwmp_read, RegisterCommit, RunPayload,
                 PayloadReturns, Decide, Boot, BootFails, NoBoot, KernelReturns,
                 CleanupPowerButton, CleanupTpm, CleanupCommit, CleanupDone,
                 CommitReturns, commit_and_lock_cleanup_func, LockNotNeeded, Lock
  <2>10. QED
    BY <2>3, <2>4, <2>5, <2>6, <2>7, <2>8, <2>9 DEF Next, Depthcharge
<1>3. store' \in Stores
  <2>1. store \in Stores /\ ctx \in Contexts
    BY DEF TypeInv
  <2>2. /\ [store EXCEPT !.nv = ctx.nv] \in Stores
        /\ [store EXCEPT !.version = ctx.version] \in Stores
    BY <2>1 DEF Stores, Contexts
  <2>3. \/ store' = store
        \/ store' = [store EXCEPT !.nv = ctx.nv]
        \/ store' = [store EXCEPT !.version = ctx.version]
    BY DEF Next, Depthcharge, InhibitPowerButton, secdata_fwmp_read, RegisterCommit, Phase1,
           Phase2, LoadKernel, LoadNbrKernel, LoadKernelFails, SelectLanguage, LeaveUi,
           RunPayload, PayloadReturns, Measure, Finalize, Decide, Boot, SeedFails,
           BootFails,
           NoBoot, KernelReturns, CleanupPowerButton, CleanupTpm, CleanupCommit,
           CleanupDone,
           EcResetFails, secdata_kernel_write, secdata_firmware_write, nvdata_write,
           CommitReturns, commit_and_lock_cleanup_func, LockNotNeeded, Lock, LockFails
  <2>4. QED
    BY <2>1, <2>2, <2>3
<1>4. commit' \in Commits
  <2>1. commit \in Commits
    BY DEF TypeInv
  <2>2. \A caller \in {"cleanup", "lockfail", "seed", "locale"} :
            [caller |-> caller, error |-> FALSE] \in Commits
    BY DEF Commits
  <2>3. \A e \in BOOLEAN : [commit EXCEPT !.error = e] \in Commits
    BY <2>1 DEF Commits
  <2>4. CASE SelectLanguage \/ SeedFails \/ CleanupCommit \/ LockFails
    BY <2>2, <2>4 DEF SelectLanguage, SeedFails, CleanupCommit, LockFails, CallCommit
  <2>5. CASE secdata_kernel_write \/ secdata_firmware_write \/ nvdata_write
    BY <2>1, <2>3, <2>5 DEF secdata_kernel_write, secdata_firmware_write, nvdata_write,
                            SecdataWriteFails
  <2>6. UNCHANGED commit \/ SelectLanguage \/ SeedFails \/ CleanupCommit \/ LockFails
        \/ secdata_kernel_write \/ secdata_firmware_write \/ nvdata_write
    BY DEF Next, Depthcharge, InhibitPowerButton, secdata_fwmp_read, RegisterCommit, Phase1,
           Phase2, LoadKernel, LoadNbrKernel, LoadKernelFails, LeaveUi,
           RunPayload, PayloadReturns, Measure, Finalize, Decide, Boot, BootFails,
           NoBoot, KernelReturns, CleanupPowerButton, CleanupTpm, CleanupDone, EcResetFails,
           CommitReturns, commit_and_lock_cleanup_func, LockNotNeeded, Lock, exitVars
  <2>7. QED
    BY <2>1, <2>4, <2>5, <2>6
<1>5. walk' \in Walks
  <2>1. walk \in Walks /\ cleanup_funcs \in Seq(CleanupFuncs)
    BY DEF TypeInv
  <2>2. walk.rest # <<>> => [walk EXCEPT !.rest = Tail(@)] \in Walks
    BY <2>1, HeadOrTail DEF Walks
  <2>3. [walk EXCEPT !.then = "none"] \in Walks
    BY <2>1 DEF Walks
  <2>4. \A type \in CleanupTypes, list \in {cleanup_funcs, cleanup_funcs'},
           then \in {"reboot", "off", "kernel", "payload", "ec_phase", "ec_exit"} :
              [type |-> type, rest |-> list, then |-> then] \in Walks
    BY <1>1, <2>1 DEF Walks
  <2>5. CASE Phase2 \/ RunPayload \/ Measure \/ Decide \/ Boot
    BY <2>1, <2>4, <2>5 DEF Phase2, RunPayload, Measure, Decide, Boot, RunCleanupFuncs,
                            reboot, power_off, CleanupTypes
  <2>6. CASE EcResetFails \/ CommitReturns \/ commit_and_lock_cleanup_func
    BY <2>1, <2>4, <2>6 DEF EcResetFails, CommitReturns, commit_and_lock_cleanup_func,
                            RunCleanupFuncs, reboot, CleanupTypes
  <2>7. CASE CleanupPowerButton \/ CleanupTpm \/ CleanupCommit \/ KernelReturns
    BY <2>2, <2>3, <2>7 DEF CleanupPowerButton, CleanupTpm, CleanupCommit, KernelReturns,
                            NextCleanup
  <2>8. CASE UNCHANGED walk
    BY <2>1, <2>8
  <2>9. QED
    BY <2>5, <2>6, <2>7, <2>8
       DEF Next, Depthcharge, InhibitPowerButton, secdata_fwmp_read, RegisterCommit, Phase1,
           LoadKernel, LoadNbrKernel, LoadKernelFails, SelectLanguage, LeaveUi,
           PayloadReturns, Finalize, SeedFails, BootFails, NoBoot, CleanupDone,
           secdata_kernel_write, secdata_firmware_write, nvdata_write,
           LockNotNeeded, Lock, LockFails, exitVars
<1>6. depth' \in Nat
  <2>1. depth \in Nat /\ (pc = "cleanup" => depth \in {1, 2})
    BY DEF TypeInv, DepthInv, Walking
  <2>2. depth' = depth \/ depth' = depth + 1 \/ (pc = "cleanup" /\ depth' = depth - 1)
    BY DEF Next, Depthcharge, InhibitPowerButton, secdata_fwmp_read, RegisterCommit, Phase1,
           Phase2, LoadKernel, LoadNbrKernel, LoadKernelFails, SelectLanguage, LeaveUi,
           RunPayload, PayloadReturns, Measure, Finalize, Decide, Boot, SeedFails,
           BootFails,
           NoBoot, KernelReturns, CleanupPowerButton, CleanupTpm, CleanupCommit,
           CleanupDone,
           EcResetFails, secdata_kernel_write, secdata_firmware_write, nvdata_write,
           CommitReturns, commit_and_lock_cleanup_func, LockNotNeeded, Lock, LockFails,
           exitVars, RunCleanupFuncs, reboot, power_off
  <2>3. QED
    BY <2>1, <2>2
<1>7. /\ board' \in Boards /\ mode' \in Modes
      /\ powerbtn' \in ButtonStates /\ failed' \in BOOLEAN
  <2>1. /\ board' = board /\ mode' = mode
        /\ powerbtn' \in ButtonStates \/ UNCHANGED powerbtn
        /\ failed' = TRUE \/ UNCHANGED failed
    BY DEF Next, Depthcharge, InhibitPowerButton, secdata_fwmp_read, RegisterCommit, Phase1,
           Phase2, LoadKernel, LoadNbrKernel, LoadKernelFails, SelectLanguage, LeaveUi,
           RunPayload, PayloadReturns, Measure, Finalize, Decide, Boot, SeedFails,
           BootFails,
           NoBoot, KernelReturns, CleanupPowerButton, CleanupTpm, CleanupCommit,
           CleanupDone,
           EcResetFails, secdata_kernel_write, secdata_firmware_write, nvdata_write,
           CommitReturns, commit_and_lock_cleanup_func, LockNotNeeded, Lock, LockFails,
           vb2api_fail, SecdataWriteFails, ButtonStates
  <2>2. QED
    BY <2>1 DEF TypeInv
<1>8. pc' \in Steps \cup Ended
  <2>1. pc \in Steps \cup Ended
    BY DEF TypeInv
  <2>2. QED
    BY <2>1 DEF Next, Depthcharge, InhibitPowerButton, secdata_fwmp_read, RegisterCommit,
                Phase1,
           Phase2, LoadKernel, LoadNbrKernel, LoadKernelFails, SelectLanguage, LeaveUi,
           RunPayload, PayloadReturns, Measure, Finalize, Decide, Boot, SeedFails,
           BootFails,
           NoBoot, KernelReturns, CleanupPowerButton, CleanupTpm, CleanupCommit,
           CleanupDone,
           EcResetFails, secdata_kernel_write, secdata_firmware_write, nvdata_write,
           CommitReturns, commit_and_lock_cleanup_func, LockNotNeeded, Lock, LockFails,
           Goto, RunCleanupFuncs, CallCommit, reboot, power_off, Steps, Ended
<1>9. /\ driver' \in {"unused", "open", "closed"}
      /\ kernel' \in {"none", "disk", "nbr"} /\ res' \in Results
  <2>1. /\ driver \in {"unused", "open", "closed"}
        /\ kernel \in {"none", "disk", "nbr"} /\ res \in Results
    BY DEF TypeInv
  <2>2. driver' \in {"unused", "open", "closed"}
    BY <2>1 DEF Next, Depthcharge, InhibitPowerButton, secdata_fwmp_read, RegisterCommit,
                Phase1,
           Phase2, LoadKernel, LoadNbrKernel, LoadKernelFails, SelectLanguage, LeaveUi,
           RunPayload, PayloadReturns, Measure, Finalize, Decide, Boot, SeedFails,
           BootFails,
           NoBoot, KernelReturns, CleanupPowerButton, CleanupTpm, CleanupCommit,
           CleanupDone,
           EcResetFails, secdata_kernel_write, secdata_firmware_write, nvdata_write,
           CommitReturns, commit_and_lock_cleanup_func, LockNotNeeded, Lock, LockFails,
           TpmCommand, tpmVars
  <2>3. kernel' \in {"none", "disk", "nbr"}
    BY <2>1 DEF Next, Depthcharge, InhibitPowerButton, secdata_fwmp_read, RegisterCommit,
                Phase1,
           Phase2, LoadKernel, LoadNbrKernel, LoadKernelFails, SelectLanguage, LeaveUi,
           RunPayload, PayloadReturns, Measure, Finalize, Decide, Boot, SeedFails,
           BootFails,
           NoBoot, KernelReturns, CleanupPowerButton, CleanupTpm, CleanupCommit,
           CleanupDone,
           EcResetFails, secdata_kernel_write, secdata_firmware_write, nvdata_write,
           CommitReturns, commit_and_lock_cleanup_func, LockNotNeeded, Lock, LockFails
  <2>4. res' \in Results
    BY <2>1 DEF Next, Depthcharge, InhibitPowerButton, secdata_fwmp_read, RegisterCommit,
                Phase1,
           Phase2, LoadKernel, LoadNbrKernel, LoadKernelFails, SelectLanguage, LeaveUi,
           RunPayload, PayloadReturns, Measure, Finalize, Decide, Boot, SeedFails,
           BootFails,
           NoBoot, KernelReturns, CleanupPowerButton, CleanupTpm, CleanupCommit,
           CleanupDone,
           EcResetFails, secdata_kernel_write, secdata_firmware_write, nvdata_write,
           CommitReturns, commit_and_lock_cleanup_func, LockNotNeeded, Lock, LockFails,
           Results
  <2>5. QED
    BY <2>2, <2>3, <2>4
<1>10. chip' \subseteq {"locked", "disabled"} /\ secdata_kernel_locked' \in BOOLEAN
  <2>1. chip \subseteq {"locked", "disabled"} /\ secdata_kernel_locked \in BOOLEAN
    BY DEF TypeInv
  <2>2. CASE Lock
    BY <2>1, <2>2 DEF Lock
  <2>3. CASE LockFails
    BY <2>1, <2>3 DEF LockFails, lockVars
  <2>4. UNCHANGED <<chip, secdata_kernel_locked>> \/ Lock \/ LockFails
    BY DEF Next, Depthcharge, InhibitPowerButton, secdata_fwmp_read, RegisterCommit, Phase1,
           Phase2, LoadKernel, LoadNbrKernel, LoadKernelFails, SelectLanguage, LeaveUi,
           RunPayload, PayloadReturns, Measure, Finalize, Decide, Boot, SeedFails,
           BootFails,
           NoBoot, KernelReturns, CleanupPowerButton, CleanupTpm, CleanupCommit,
           CleanupDone,
           EcResetFails, secdata_kernel_write, secdata_firmware_write, nvdata_write,
           CommitReturns, commit_and_lock_cleanup_func, LockNotNeeded, lockVars
  <2>5. QED
    BY <2>1, <2>2, <2>3, <2>4
<1>11. QED
  BY <1>1, <1>2, <1>3, <1>4, <1>5, <1>6, <1>7, <1>8, <1>9, <1>10 DEF TypeInv

\* A commit that gets past a space has written it.
LEMMA CommitStep ==
    ASSUME TypeInv, CommitInv, Next
    PROVE  CommitInv'
<1>1. ctx \in Contexts /\ commit \in Commits /\ commit.error \in BOOLEAN
  BY DEF TypeInv, Commits
<1> USE DEF CommitInv, InRecovery, Goto
<1>2. CASE secdata_kernel_write
  <2>1. CASE InRecovery
    BY <1>2, <2>1 DEF secdata_kernel_write
  <2>2. CASE ~InRecovery
    <3>1. CASE Unchanged("kernel") /\ UNCHANGED <<ctx, commit>>
      BY <1>2, <3>1 DEF secdata_kernel_write, Unchanged
    <3>2. CASE CleanFlag("kernel")
      BY <1>1, <1>2, <3>2 DEF secdata_kernel_write, CleanFlag, Contexts
    <3>3. CASE commit' = [commit EXCEPT !.error = TRUE]
      BY <1>1, <1>2, <3>3 DEF secdata_kernel_write, Commits
    <3>4. QED
      BY <1>2, <2>2, <3>1, <3>2, <3>3 DEF secdata_kernel_write, SecdataWriteFails
  <2>3. QED
    BY <2>1, <2>2
<1>3. CASE secdata_firmware_write
  <2>1. CASE InRecovery
    BY <1>3, <2>1 DEF secdata_firmware_write
  <2>2. CASE ~InRecovery
    <3>1. CASE UNCHANGED <<ctx, commit>>
      BY <1>3, <3>1 DEF secdata_firmware_write
    <3>3. CASE commit' = [commit EXCEPT !.error = TRUE]
      BY <1>1, <1>3, <3>3 DEF secdata_firmware_write, Commits
    <3>4. QED
      BY <1>3, <2>2, <3>1, <3>3 DEF secdata_firmware_write, SecdataWriteFails
  <2>3. QED
    BY <2>1, <2>2
<1>4. CASE nvdata_write
  BY <1>1, <1>4 DEF nvdata_write, CleanFlag, Unchanged, Contexts, Commits
<1>5. CASE commit_and_lock_cleanup_func
  BY <1>1, <1>5 DEF commit_and_lock_cleanup_func, reboot, RunCleanupFuncs
<1>6. CASE \/ InhibitPowerButton \/ secdata_fwmp_read \/ RegisterCommit \/ Phase1 \/ Phase2
           \/ LoadKernel \/ LoadNbrKernel \/ LoadKernelFails
           \/ SelectLanguage \/ LeaveUi \/ RunPayload \/ PayloadReturns
  <2>1. pc' \notin {"commit_firmware", "commit_nvdata", "commit_done", "lock"}
    BY <1>6 DEF InhibitPowerButton, secdata_fwmp_read, RegisterCommit, Phase1, Phase2,
                LoadKernel, LoadNbrKernel, LoadKernelFails, SelectLanguage, LeaveUi,
                RunPayload, PayloadReturns, RunCleanupFuncs, CallCommit
  <2>2. QED
    BY <2>1
<1>7. CASE \/ Measure \/ Finalize \/ Decide \/ Boot \/ SeedFails \/ BootFails \/ NoBoot
           \/ KernelReturns \/ CommitReturns \/ LockNotNeeded \/ Lock \/ LockFails
  <2>1. pc' \notin {"commit_firmware", "commit_nvdata", "commit_done", "lock"}
    BY <1>7 DEF Measure, Finalize, Decide, Boot, SeedFails, BootFails, NoBoot,
                KernelReturns,
                CommitReturns, LockNotNeeded, Lock, LockFails,
                RunCleanupFuncs, CallCommit, reboot, power_off
  <2>2. QED
    BY <2>1
<1>8. CASE \/ CleanupPowerButton \/ CleanupTpm \/ CleanupCommit \/ CleanupDone \/ EcResetFails
  <2>1. pc' \notin {"commit_firmware", "commit_nvdata", "commit_done", "lock"}
    BY <1>8 DEF CleanupPowerButton, CleanupTpm, CleanupCommit, CleanupDone, EcResetFails,
                CallCommit
  <2>2. QED
    BY <2>1
<1>9. QED
  BY <1>2, <1>3, <1>4, <1>5, <1>6, <1>7, <1>8 DEF Next, Depthcharge

\* The TPM is locked and disabled only for the kernel that was chosen.
LEMMA TpmStep ==
    ASSUME TypeInv, TpmInv, ChoiceInv, Next
    PROVE  TpmInv'
<1>1. ctx \in Contexts
  BY DEF TypeInv
<1>2. WithFailure(ctx).disable_tpm = ctx.disable_tpm
  BY <1>1, FailureMarked
<1> USE DEF TpmInv
<1>3. CASE LoadKernel
  BY <1>1, <1>3 DEF LoadKernel, lockVars, ChoiceInv, Contexts
<1>4. CASE LoadNbrKernel
  BY <1>1, <1>4 DEF LoadNbrKernel, lockVars, ChoiceInv, Contexts
<1>5. CASE LoadKernelFails
  <2> DEFINE c == [ctx EXCEPT !.disable_tpm = FALSE]
  <2>1. c \in Contexts /\ ~c.disable_tpm
    BY <1>1 DEF Contexts
  <2>2. ~WithFailure(c).disable_tpm
    BY <2>1, FailureMarked
  <2>3. ctx' = WithFailure(c) \/ ctx' = c
    BY <1>5 DEF LoadKernelFails
  <2>4. kernel = "none" /\ UNCHANGED <<board, kernel, chip, secdata_kernel_locked>>
    BY <1>5 DEF LoadKernelFails, ChoiceInv, lockVars
  <2> HIDE DEF c
  <2>5. QED
    BY <2>1, <2>2, <2>3, <2>4
<1>6. CASE Lock
  BY <1>6 DEF Lock, DisablesTpm
<1>7. CASE LockFails
  <2>1. UNCHANGED <<board, kernel>> /\ ctx'.disable_tpm = ctx.disable_tpm
    BY <1>2, <1>7 DEF LockFails, vb2api_fail
  <2>2. CASE UNCHANGED lockVars
    BY <2>1, <2>2 DEF lockVars
  <2>3. CASE chip' = chip \cup {"locked"}
    BY <2>1, <2>3
  <2>4. QED
    BY <1>7, <2>2, <2>3 DEF LockFails
<1>8. CASE SelectLanguage \/ LeaveUi \/ Phase2 \/ Finalize
  <2>1. ctx'.disable_tpm = ctx.disable_tpm
    BY <1>1, <1>2, <1>8 DEF SelectLanguage, LeaveUi, Phase2, Finalize, Contexts, vb2api_fail
  <2>2. UNCHANGED <<board, kernel, chip, secdata_kernel_locked>>
    BY <1>8 DEF SelectLanguage, LeaveUi, Phase2, Finalize, lockVars
  <2>3. QED
    BY <2>1, <2>2
<1>9. CASE secdata_kernel_write \/ secdata_firmware_write \/ nvdata_write
  <2>1. ctx'.disable_tpm = ctx.disable_tpm
    BY <1>1, <1>2, <1>9 DEF secdata_kernel_write, secdata_firmware_write, nvdata_write,
          CleanFlag, SecdataWriteFails, Contexts, vb2api_fail
  <2>2. UNCHANGED <<board, kernel, chip, secdata_kernel_locked>>
    BY <1>9 DEF secdata_kernel_write, secdata_firmware_write, nvdata_write, lockVars
  <2>3. QED
    BY <2>1, <2>2
<1>10. CASE Phase1 \/ Measure \/ SeedFails \/ EcResetFails
  <2>1. ctx'.disable_tpm = ctx.disable_tpm
    BY <1>2, <1>10 DEF Phase1, Measure, SeedFails, EcResetFails, vb2api_fail
  <2>2. UNCHANGED <<board, kernel, chip, secdata_kernel_locked>>
    BY <1>10 DEF Phase1, Measure, SeedFails, EcResetFails, lockVars
  <2>3. QED
    BY <2>1, <2>2
<1>11. CASE \/ InhibitPowerButton \/ secdata_fwmp_read \/ RegisterCommit \/ RunPayload
            \/ PayloadReturns \/ Decide \/ Boot \/ BootFails \/ NoBoot \/ KernelReturns
            \/ CleanupPowerButton \/ CleanupTpm \/ CleanupCommit \/ CleanupDone
            \/ CommitReturns \/ commit_and_lock_cleanup_func \/ LockNotNeeded
  <2>1. UNCHANGED <<board, ctx, kernel, chip, secdata_kernel_locked>>
    BY <1>11 DEF InhibitPowerButton, secdata_fwmp_read, RegisterCommit, RunPayload,
                 PayloadReturns, Decide, Boot, BootFails, NoBoot, KernelReturns,
                 CleanupPowerButton, CleanupTpm, CleanupCommit, CleanupDone,
                 CommitReturns, commit_and_lock_cleanup_func, LockNotNeeded, lockVars
  <2>2. QED
    BY <2>1
<1>12. QED
  BY <1>3, <1>4, <1>5, <1>6, <1>7, <1>8, <1>9, <1>10, <1>11 DEF Next, Depthcharge

\* A walk past its commit has stored and locked everything.
LEMMA WalkStep ==
    ASSUME TypeInv, WalkInv, ListInv, CommitInv, TpmInv, DepthInv, Next
    PROVE  WalkInv'
<1>1. /\ ctx \in Contexts /\ walk \in Walks /\ commit \in Commits
      /\ cleanup_funcs \in Seq(CleanupFuncs) /\ walk.rest \in Seq(CleanupFuncs)
      /\ powerbtn \in ButtonStates
  BY DEF TypeInv, Walks
<1> USE DEF WalkInv, Walking, Committing, Left, InRecovery, Goto
<1>2. CASE \/ InhibitPowerButton \/ secdata_fwmp_read \/ RegisterCommit \/ Phase1
           \/ LoadKernel \/ LoadNbrKernel \/ LoadKernelFails \/ LeaveUi \/ PayloadReturns
           \/ Finalize \/ BootFails \/ KernelReturns
  <2>1. pc' \in {"fwmp", "register", "phase1", "phase2", "decide", "measure", "load", "noboot"}
    BY <1>2 DEF InhibitPowerButton, secdata_fwmp_read, RegisterCommit, Phase1, LoadKernel,
                LoadNbrKernel, LoadKernelFails, LeaveUi, PayloadReturns,
                Finalize, BootFails, KernelReturns
  <2>2. QED
    BY <2>1
<1>3. CASE NoBoot
  BY <1>3 DEF NoBoot
<1>4. CASE Phase2 \/ RunPayload \/ Decide \/ Boot \/ CommitReturns
  <2>1. /\ UNCHANGED powerbtn
        /\ pc' = "cleanup" => walk'.rest = cleanup_funcs
        /\ pc' \in {"load", "decide", "boot", "cleanup"}
        /\ pc \notin {"start", "fwmp", "register"}
    BY <1>4 DEF Phase2, RunPayload, Decide, Boot, CommitReturns, RunCleanupFuncs,
                reboot, power_off
  <2>2. QED
    BY <2>1 DEF ListInv
<1>5. CASE Measure
  <2>1. /\ UNCHANGED powerbtn
        /\ pc' = "cleanup" => walk'.rest = cleanup_funcs'
        /\ pc' \in {"finalize", "cleanup"}
    BY <1>5 DEF Measure, RunCleanupFuncs
  <2>2. \A f : Listed(f, cleanup_funcs) => Listed(f, cleanup_funcs')
    BY <1>5, TpmKeepsList DEF Measure, tpmVars
  <2>3. /\ Listed("commit", cleanup_funcs)
        /\ powerbtn = "inhibited" => Listed("powerbtn", cleanup_funcs)
    BY <1>5 DEF Measure, ListInv
  <2>4. QED
    BY <2>1, <2>2, <2>3
<1>6. CASE CleanupPowerButton \/ CleanupTpm
  <2>1. /\ walk' = [walk EXCEPT !.rest = Tail(@)] /\ walk'.rest = Tail(walk.rest)
        /\ walk'.then = walk.then /\ walk'.type = walk.type
        /\ walk.rest # <<>> /\ Head(walk.rest) \in {"powerbtn", "tpm"}
        /\ UNCHANGED <<board, mode, ctx, chip, kernel, pc>> /\ pc = "cleanup"
        /\ \/ powerbtn' # "inhibited"
           \/ powerbtn' = powerbtn /\ Head(walk.rest) = "tpm"
    BY <1>1, <1>6 DEF CleanupPowerButton, CleanupTpm, NextCleanup, Walks, lockVars
  <2>2. Ready' = Ready
    BY <2>1 DEF Ready
  <2>3. \A f : Listed(f, walk.rest) => f = Head(walk.rest) \/ Listed(f, walk'.rest)
    BY <1>1, <2>1, HeadOrTail
  <2>4. QED
    BY <2>1, <2>2, <2>3
<1>7. CASE CleanupCommit
  <2>1. /\ walk'.rest = Tail(walk.rest)
        /\ walk.rest # <<>> /\ Head(walk.rest) = "commit" /\ pc = "cleanup"
        /\ pc' = "commit_kernel" /\ UNCHANGED powerbtn
    BY <1>1, <1>7 DEF CleanupCommit, CallCommit, NextCleanup, Walks
  <2>2. \A f : Listed(f, walk.rest) => f = Head(walk.rest) \/ Listed(f, walk'.rest)
    BY <1>1, <2>1, HeadOrTail
  <2>3. QED
    BY <2>1, <2>2
<1>8. CASE CleanupDone
  <2>1. /\ pc = "cleanup" /\ walk.rest = <<>>
        /\ UNCHANGED <<board, mode, ctx, chip, kernel, powerbtn, walk>>
        /\ \/ pc' \in {"kernel", "payload"} /\ walk.then \in {"kernel", "payload"}
           \/ pc' \in {"rebooted", "off"}
    BY <1>8 DEF CleanupDone, lockVars
  <2>2. powerbtn # "inhibited" /\ ~Listed("commit", walk.rest)
    BY <1>1, <2>1, NothingOnEmpty
  <2>3. Ready' = Ready
    BY <2>1 DEF Ready
  <2>4. QED
    BY <2>1, <2>2, <2>3
<1>9. CASE EcResetFails
  <2>1. /\ pc = "cleanup" /\ UNCHANGED powerbtn
        /\ \/ pc' \in {"decide", "load"}
           \/ pc' = "cleanup" /\ walk'.rest = cleanup_funcs
    BY <1>9 DEF EcResetFails
  <2>2. QED
    BY <2>1 DEF ListInv
<1>10. CASE secdata_kernel_write \/ secdata_firmware_write \/ nvdata_write
  <2>1. UNCHANGED <<walk, powerbtn>> /\ commit'.caller = commit.caller /\ Committing
    BY <1>1, <1>10 DEF secdata_kernel_write, secdata_firmware_write, nvdata_write,
                      SecdataWriteFails, Commits
  <2>2. pc' \in {"commit_firmware", "commit_nvdata", "commit_done", "dead"}
    BY <1>10 DEF secdata_kernel_write, secdata_firmware_write, nvdata_write
  <2>3. QED
    BY <2>1, <2>2
<1>11. CASE commit_and_lock_cleanup_func
  <2>1. /\ pc = "commit_done" /\ commit.caller = "cleanup"
        /\ UNCHANGED <<mode, ctx, powerbtn>>
        /\ \/ pc' = "cleanup" /\ walk'.rest = cleanup_funcs
           \/ pc' = "lock" /\ walk' = walk
           \/ /\ pc' = "cleanup" /\ walk' = walk
              /\ walk.type \notin {"Handoff", "Legacy"}
    BY <1>1, <1>11 DEF commit_and_lock_cleanup_func, reboot, RunCleanupFuncs, RebootInstead,
                       NeedsLock, Commits
  <2>2. walk.type \notin {"Handoff", "Legacy"} => walk.then \notin {"kernel", "payload"}
    BY <2>1 DEF DepthInv
  <2>3. ~InRecovery => "nv" \notin ctx.changed
    BY <2>1 DEF CommitInv
  <2>4. QED
    BY <2>1, <2>2, <2>3 DEF ListInv
<1>12. CASE LockNotNeeded
  <2>1. /\ pc = "lock" /\ pc' = "cleanup" /\ InRecovery /\ ~ctx.disable_tpm
        /\ UNCHANGED <<mode, ctx, kernel, walk, powerbtn>>
    BY <1>12 DEF LockNotNeeded, exitVars
  <2>2. Ready'
    BY <2>1 DEF Ready, TpmInv
  <2>3. QED
    BY <2>1, <2>2
<1>13. CASE Lock
  <2>1. /\ pc = "lock" /\ pc' = "cleanup"
        /\ UNCHANGED <<board, mode, ctx, kernel, walk, powerbtn>>
    BY <1>13 DEF Lock, exitVars
  <2>2. "locked" \in chip'
    BY <1>13 DEF Lock, TpmInv
  <2>3. ctx.disable_tpm /\ board.google => "disabled" \in chip'
    BY <1>13 DEF Lock, DisablesTpm
  <2>4. ~InRecovery => "nv" \notin ctx.changed /\ "kernel" \notin ctx.changed
    BY <2>1 DEF CommitInv
  <2>5. Ready'
    BY <2>1, <2>2, <2>3, <2>4 DEF Ready, TpmInv
  <2>6. QED
    BY <2>1, <2>4, <2>5
<1>14. CASE SelectLanguage \/ SeedFails \/ LockFails
  <2>1. PICK caller \in {"locale", "seed", "lockfail"} :
          pc' = "commit_kernel" /\ commit' = [caller |-> caller, error |-> FALSE]
    BY <1>14 DEF SelectLanguage, SeedFails, LockFails, CallCommit
  <2>2. QED
    BY <2>1
<1>15. QED
  BY <1>2, <1>3, <1>4, <1>5, <1>6, <1>7, <1>8, <1>9, <1>10, <1>11, <1>12, <1>13, <1>14
     DEF Next, Depthcharge

\* Whatever comes back to the choice of a kernel has chosen none yet.
LEMMA ChoiceStep ==
    ASSUME TypeInv, ChoiceInv, DepthInv, Next
    PROVE  ChoiceInv'
<1>1. ctx \in Contexts
  BY DEF TypeInv
<1>2. WithFailure(ctx).changed = ctx.changed \cup {"nv"}
  BY <1>1, FailureMarked
<1>3. commit \in Commits /\ walk \in Walks
  BY DEF TypeInv
<1> USE DEF ChoiceInv, Walking, Committing, Goto
<1>4. CASE InhibitPowerButton \/ secdata_fwmp_read \/ RegisterCommit
  BY <1>4 DEF InhibitPowerButton, secdata_fwmp_read, RegisterCommit, exitVars
<1>5. CASE Phase1
  <2>1. kernel' = "none" /\ UNCHANGED <<walk, commit, res>> /\ pc' \in {"decide", "phase2"}
    BY <1>5 DEF Phase1, exitVars
  <2>2. CASE pc' = "decide"
    BY <2>1, <2>2
  <2>3. CASE pc' = "phase2"
    <3>1. ctx' = ctx /\ res # "error"
      BY <1>5, <2>3 DEF Phase1
    <3>2. QED
      BY <1>5, <2>1, <2>3, <3>1 DEF Phase1
  <2>4. QED
    BY <2>1, <2>2, <2>3
<1>6. CASE Phase2
  <2>1. CASE pc' = "load" /\ res' = res
    <3>1. /\ kernel' = "none" /\ res' = "success"
          /\ "kernel" \notin ctx'.changed /\ "firmware" \notin ctx'.changed
      BY <1>1, <1>6, <2>1 DEF Phase2, RunCleanupFuncs, Contexts
    <3>2. QED
      BY <2>1, <3>1
  <2>2. CASE pc' = "decide"
    BY <2>2
  <2>3. CASE RunCleanupFuncs("Reboot", "ec_phase", cleanup_funcs) /\ UNCHANGED <<ctx, res>>
    BY <1>6, <2>3 DEF Phase2, RunCleanupFuncs
  <2>4. QED
    BY <1>6, <2>1, <2>2, <2>3 DEF Phase2
<1>7. CASE LoadKernel \/ LoadNbrKernel \/ LeaveUi
  BY <1>7 DEF LoadKernel, LoadNbrKernel, LeaveUi
<1>8. CASE LoadKernelFails
  <2>1. CASE mode = "normal"
    BY <1>8, <2>1 DEF LoadKernelFails
  <2>2. CASE mode # "normal"
    BY <1>1, <1>8, <2>2 DEF LoadKernelFails, Contexts, exitVars
  <2>3. QED
    BY <2>1, <2>2
<1>9. CASE SelectLanguage
  <2>1. /\ kernel' = "none" /\ res' = "success"
        /\ "kernel" \notin ctx'.changed /\ "firmware" \notin ctx'.changed
    BY <1>1, <1>9 DEF SelectLanguage, Contexts
  <2>2. pc' = "commit_kernel"
    BY <1>9 DEF SelectLanguage, CallCommit
  <2>3. QED
    BY <2>1, <2>2
<1>10. CASE RunPayload
  BY <1>10 DEF RunPayload, RunCleanupFuncs
<1>11. CASE PayloadReturns
  BY <1>11 DEF PayloadReturns
<1>12. CASE Measure
  <2>1. \/ pc' = "finalize"
        \/ pc' = "cleanup" /\ walk'.then = "reboot"
    BY <1>12 DEF Measure, RunCleanupFuncs
  <2>2. QED
    BY <2>1
<1>13. CASE Finalize \/ Boot \/ BootFails \/ NoBoot \/ KernelReturns
  BY <1>13 DEF Finalize, Boot, BootFails, NoBoot, KernelReturns, RunCleanupFuncs
<1>14. CASE Decide
  BY <1>14 DEF Decide, reboot, power_off, RunCleanupFuncs
<1>15. CASE SeedFails
  BY <1>15 DEF SeedFails, CallCommit
<1>16. CASE LockFails
  <2>1. pc' = "commit_kernel" /\ commit' = [caller |-> "lockfail", error |-> FALSE]
    BY <1>16 DEF LockFails, CallCommit
  <2>2. QED
    BY <2>1
<1>17. CASE CleanupPowerButton \/ CleanupTpm
  <2>1. UNCHANGED <<pc, ctx, res, kernel, commit>> /\ walk'.then = walk.then
    BY <1>3, <1>17 DEF CleanupPowerButton, CleanupTpm, NextCleanup, Walks
  <2>2. QED
    BY <1>17, <2>1 DEF CleanupPowerButton, CleanupTpm
<1>18. CASE CleanupCommit
  <2>1. UNCHANGED <<ctx, res, kernel>> /\ walk'.then = walk.then
    BY <1>3, <1>18 DEF CleanupCommit, NextCleanup, Walks
  <2>2. pc' = "commit_kernel" /\ commit'.caller = "cleanup" /\ pc = "cleanup"
    BY <1>18 DEF CleanupCommit, CallCommit
  <2>3. QED
    BY <2>1, <2>2
<1>19. CASE CleanupDone
  BY <1>19 DEF CleanupDone
<1>20. CASE EcResetFails
  <2>1. CASE walk'.then = "off" /\ pc' = "cleanup"
    BY <2>1
  <2>2. CASE pc' = "decide"
    BY <2>2
  <2>3. CASE walk.then = "ec_phase" /\ pc' = "load" /\ UNCHANGED <<ctx, res, kernel>>
    BY <1>20, <2>3 DEF EcResetFails
  <2>4. QED
    BY <1>20, <2>1, <2>2, <2>3 DEF EcResetFails
<1>21. CASE secdata_kernel_write \/ secdata_firmware_write \/ nvdata_write
  <2>1. UNCHANGED <<walk, kernel, res>> /\ commit'.caller = commit.caller /\ Committing
    BY <1>3, <1>21 DEF secdata_kernel_write, secdata_firmware_write, nvdata_write,
                       SecdataWriteFails, Commits
  <2>2. \A space \in {"kernel", "firmware"} : space \in ctx'.changed => space \in ctx.changed
    <3>1. \A space : CleanFlag(space) => ctx'.changed = ctx.changed \ {space}
      BY <1>1 DEF CleanFlag, Contexts
    <3>2. ctx' = ctx \/ vb2api_fail \/ \E space \in Spaces : CleanFlag(space)
      BY <1>21 DEF secdata_kernel_write, secdata_firmware_write, nvdata_write,
                   SecdataWriteFails, Spaces
    <3>3. QED
      BY <1>2, <3>1, <3>2 DEF vb2api_fail
  <2>3. pc' \in {"commit_firmware", "commit_nvdata", "commit_done", "dead"}
    BY <1>21 DEF secdata_kernel_write, secdata_firmware_write, nvdata_write
  <2>4. QED
    BY <2>1, <2>2, <2>3
<1>22. CASE CommitReturns
  BY <1>22 DEF CommitReturns, reboot, RunCleanupFuncs
<1>23. CASE commit_and_lock_cleanup_func
  BY <1>23 DEF commit_and_lock_cleanup_func, reboot, RunCleanupFuncs
<1>24. CASE LockNotNeeded \/ Lock
  <2>1. UNCHANGED <<ctx, res, kernel, walk>> /\ pc = "lock" /\ pc' = "cleanup"
    BY <1>24 DEF LockNotNeeded, Lock, exitVars
  <2>2. QED
    BY <2>1
<1>25. QED
  BY <1>4, <1>5, <1>6, <1>7, <1>8, <1>9, <1>10, <1>11, <1>12, <1>13, <1>14, <1>15, <1>16,
     <1>17, <1>18, <1>19, <1>20, <1>21, <1>22, <1>23, <1>24 DEF Next, Depthcharge

\* A failure leaves no way to a kernel or a bootloader.
LEMMA FailStep ==
    ASSUME TypeInv, FailInv, ChoiceInv, DepthInv, Next
    PROVE  FailInv'
<1>1. commit \in Commits /\ walk \in Walks
  BY DEF TypeInv
<1> USE DEF FailInv, Walking, Committing, InRecovery, Goto
<1>2. CASE InRecovery
  <2>1. mode' = mode
    BY DEF Next, Depthcharge, InhibitPowerButton, secdata_fwmp_read, RegisterCommit, Phase1,
           Phase2, LoadKernel, LoadNbrKernel, LoadKernelFails, SelectLanguage, LeaveUi,
           RunPayload, PayloadReturns, Measure, Finalize, Decide, Boot, SeedFails,
           BootFails,
           NoBoot, KernelReturns, CleanupPowerButton, CleanupTpm, CleanupCommit,
           CleanupDone,
           EcResetFails, secdata_kernel_write, secdata_firmware_write, nvdata_write,
           CommitReturns, commit_and_lock_cleanup_func, LockNotNeeded, Lock, LockFails
  <2>2. QED
    BY <1>2, <2>1
<1> SUFFICES ASSUME ~InRecovery
             PROVE  FailInv'
  BY <1>2
<1>3. CASE Phase1
  BY <1>3 DEF Phase1, vb2api_fail
<1>4. CASE Phase2
  <2>1. \/ failed' = failed \/ (pc' = "decide" /\ res' # "success")
    BY <1>4 DEF Phase2, vb2api_fail
  <2>2. pc = "phase2"
    BY <1>4 DEF Phase2
  <2>3. QED
    BY <2>1, <2>2
<1>5. CASE LoadKernelFails
  BY <1>5 DEF LoadKernelFails
<1>6. CASE \/ InhibitPowerButton \/ secdata_fwmp_read \/ RegisterCommit \/ LoadKernel
           \/ LoadNbrKernel \/ SelectLanguage \/ LeaveUi \/ RunPayload \/ PayloadReturns
           \/ Finalize \/ Boot \/ BootFails \/ NoBoot \/ KernelReturns \/ LockNotNeeded \/ Lock
  <2>1. failed' = failed
    BY <1>6 DEF InhibitPowerButton, secdata_fwmp_read, RegisterCommit, LoadKernel,
                LoadNbrKernel, SelectLanguage, LeaveUi, RunPayload, PayloadReturns,
                Finalize, Boot, BootFails, NoBoot, KernelReturns, LockNotNeeded, Lock
  <2>2. pc \in {"start", "fwmp", "register", "load", "payload", "finalize", "boot", "noboot",
                "kernel", "lock"}
    BY <1>6 DEF InhibitPowerButton, secdata_fwmp_read, RegisterCommit, LoadKernel,
                LoadNbrKernel, SelectLanguage, LeaveUi, RunPayload, PayloadReturns,
                Finalize, Boot, BootFails, NoBoot, KernelReturns, LockNotNeeded, Lock
  <2>3. QED
    BY <2>1, <2>2
<1>7. CASE Measure
  <2>1. \/ failed' = failed
        \/ pc' = "cleanup" /\ walk'.then = "reboot"
    BY <1>7 DEF Measure, RunCleanupFuncs
  <2>2. pc = "measure"
    BY <1>7 DEF Measure
  <2>3. QED
    BY <2>1, <2>2
<1>8. CASE Decide
  BY <1>8 DEF Decide, reboot, power_off, RunCleanupFuncs
<1>9. CASE SeedFails
  BY <1>9 DEF SeedFails, CallCommit
<1>10. CASE CleanupPowerButton \/ CleanupTpm
  <2>1. UNCHANGED <<mode, pc, failed, commit>> /\ walk'.then = walk.then /\ pc = "cleanup"
    BY <1>1, <1>10 DEF CleanupPowerButton, CleanupTpm, NextCleanup, Walks
  <2>2. QED
    BY <2>1
<1>11. CASE CleanupCommit
  <2>1. UNCHANGED <<mode, failed>> /\ walk'.then = walk.then /\ pc = "cleanup"
    BY <1>1, <1>11 DEF CleanupCommit, NextCleanup, Walks
  <2>2. pc' = "commit_kernel" /\ commit'.caller = "cleanup"
    BY <1>11 DEF CleanupCommit, CallCommit
  <2>3. QED
    BY <2>1, <2>2
<1>12. CASE CleanupDone
  <2>1. UNCHANGED <<mode, failed>> /\ pc = "cleanup"
    BY <1>12 DEF CleanupDone
  <2>2. walk.then \in {"reboot", "off", "ec_phase", "ec_exit"} => pc' \in {"rebooted", "off"}
    BY <1>12 DEF CleanupDone
  <2>3. QED
    BY <2>1, <2>2
<1>13. CASE EcResetFails
  <2>1. /\ UNCHANGED mode /\ pc = "cleanup"
        /\ \/ walk'.then = "off" /\ pc' = "cleanup"
           \/ pc' = "decide" /\ res' # "success"
           \/ walk.then = "ec_phase" /\ UNCHANGED failed
    BY <1>13 DEF EcResetFails
  <2>2. QED
    BY <2>1
<1>14. CASE secdata_kernel_write \/ secdata_firmware_write
  <2>1. /\ UNCHANGED <<mode, walk>> /\ Committing /\ Committing'
        /\ commit'.caller = commit.caller
    BY <1>1, <1>14 DEF secdata_kernel_write, secdata_firmware_write, SecdataWriteFails,
                       Commits
  <2>2. CASE failed' = failed /\ commit' = commit
    BY <2>1, <2>2
  <2>3. CASE SecdataWriteFails /\ {"kernel", "firmware"} \cap ctx.changed # {}
    <3>1. commit'.error
      BY <1>1, <2>3 DEF SecdataWriteFails, Commits
    <3>2. /\ commit.caller # "locale"
          /\ commit.caller = "cleanup" => walk.then # "ec_phase"
      BY <2>1, <2>3 DEF ChoiceInv
    <3>3. commit.caller = "cleanup" =>
            walk.then \in {"reboot", "off", "kernel", "payload", "ec_exit"}
      BY <1>1, <2>1, <3>2 DEF DepthInv, Walks
    <3>4. commit.caller \in {"cleanup", "lockfail", "seed"}
      BY <1>1, <2>1, <3>2 DEF DepthInv, Commits
    <3>5. pc # "lock" /\ pc' # "lock"
      BY <2>1
    <3>6. QED
      BY <2>1, <3>1, <3>3, <3>4, <3>5
  <2>4. QED
    BY <1>14, <2>2, <2>3 DEF secdata_kernel_write, secdata_firmware_write, Unchanged
<1>15. CASE nvdata_write
  <2>1. /\ UNCHANGED <<mode, walk, failed>> /\ pc = "commit_nvdata"
        /\ \/ pc' = "commit_done" /\ commit' = commit
           \/ pc' = "dead"
    BY <1>15 DEF nvdata_write
  <2>2. QED
    BY <2>1
<1>16. CASE CommitReturns
  <2>1. /\ UNCHANGED <<mode, failed>> /\ pc = "commit_done"
        /\ \/ pc' = "cleanup" /\ walk'.then = "reboot"
           \/ commit.caller = "locale"
    BY <1>16 DEF CommitReturns, reboot, RunCleanupFuncs
  <2>2. QED
    BY <2>1
<1>17. CASE commit_and_lock_cleanup_func
  <2>1. /\ UNCHANGED <<mode, failed>> /\ pc = "commit_done" /\ commit.caller = "cleanup"
        /\ \/ pc' = "cleanup" /\ walk'.then = "reboot"
           \/ /\ pc' = "cleanup" /\ UNCHANGED <<walk, commit>>
              /\ commit.error => walk.type = "Reboot"
           \/ pc' = "lock" /\ ~commit.error /\ walk.type \in {"Handoff", "Legacy"}
    BY <1>17 DEF commit_and_lock_cleanup_func, reboot, RunCleanupFuncs, RebootInstead,
                 NeedsLock
  <2>2. QED
    BY <2>1 DEF DepthInv
<1>18. CASE LockFails
  <2>1. pc' = "commit_kernel" /\ commit' = [caller |-> "lockfail", error |-> FALSE]
    BY <1>18 DEF LockFails, CallCommit
  <2>2. QED
    BY <2>1
<1>19. QED
  BY <1>3, <1>4, <1>5, <1>6, <1>7, <1>8, <1>9, <1>10, <1>11, <1>12, <1>13, <1>14, <1>15,
     <1>16, <1>17, <1>18 DEF Next, Depthcharge

-----------------------------------------------------------------------------
(* The theorems.                                                            *)

\* Depthcharge starts with nothing changed, registered or chosen.
LEMMA InitIInv == Init => IInv
<1> SUFFICES ASSUME Init
             PROVE  IInv
  OBVIOUS
<1>1. TypeInv
  <2>1. 0 \in 0 .. MaxVersion /\ <<>> \in Seq(CleanupFuncs)
    BY BoardAssumption
  <2>2. ctx \in Contexts /\ store \in Stores
    BY <2>1 DEF Init, Contexts, Stores
  <2>3. walk \in Walks /\ commit \in Commits
    BY <2>1 DEF Init, Walks, Commits
  <2>4. QED
    BY <2>1, <2>2, <2>3 DEF Init, TypeInv, Steps, Results, ButtonStates
<1>2. DataInv /\ CommitInv /\ TpmInv /\ ChoiceInv /\ FailInv
  BY DEF Init, DataInv, CommitInv, TpmInv, ChoiceInv, FailInv, Walking, Committing
<1>3. ListInv /\ DepthInv /\ WalkInv
  BY DEF Init, ListInv, DepthInv, WalkInv, Walking, Committing, Left
<1>4. QED
  BY <1>1, <1>2, <1>3 DEF IInv

\* Every step keeps the whole invariant.
LEMMA StepIInv == IInv /\ [Next]_vars => IInv'
<1> SUFFICES ASSUME IInv, [Next]_vars
             PROVE  IInv'
  OBVIOUS
<1>1. CASE Next
  BY <1>1, DataStep, ListStep, DepthStep, TypeStep, CommitStep, TpmStep, WalkStep,
     ChoiceStep,
     FailStep DEF IInv
<1>2. CASE UNCHANGED vars
  BY <1>2 DEF vars, IInv, TypeInv, DataInv, ListInv, DepthInv, CommitInv, TpmInv, WalkInv,
              ChoiceInv, FailInv, Walking, Committing, Left, Ready, InRecovery
<1>3. QED
  BY <1>1, <1>2

\* The invariant holds throughout every boot.
THEOREM Invariant == Spec => []IInv
BY InitIInv, StepIInv, PTL DEF Spec

\* run_cleanup_funcs always works on a proper list and is never more than two
\* calls deep: reboot() out of a cleanup function is reached only from a walk
\* that is not itself for a reboot.
THEOREM CleanupTheorem == Spec => []CleanupBounded
<1>1. IInv => CleanupBounded
  BY DEF IInv, CleanupBounded, TypeInv, TypeOK, NestingBounded, DepthInv, Contexts, Stores,
         Walks, Commits
<1>2. QED
  BY <1>1, Invariant, PTL

\* Outside recovery mode depthcharge does not reboot or power off before a
\* failure reported by vb2api_fail is in stored nvdata.
THEOREM FailureTheorem == Spec => []FailureRecorded
<1>1. IInv => FailureRecorded
  BY DEF IInv, FailureRecorded, DataInv, WalkInv, Left
<1>2. QED
  BY <1>1, Invariant, PTL

\* No kernel and no other bootloader is started after vb2api_fail, unless in
\* recovery mode.
THEOREM NoHandoffTheorem == Spec => NoHandoffAfterFailure
<1>1. IInv /\ [Next]_vars =>
          [pc' \in {"kernel", "payload"} /\ pc # pc' => ~failed \/ InRecovery]_vars
  <2> SUFFICES ASSUME IInv, Next, pc' \in {"kernel", "payload"}, pc # pc', failed, ~InRecovery
               PROVE  FALSE
    BY DEF IInv
  <2>1. \/ pc = "noboot"
        \/ pc = "cleanup" /\ walk.then \in {"kernel", "payload"}
    BY DEF Next, Depthcharge, InhibitPowerButton, secdata_fwmp_read, RegisterCommit, Phase1,
           Phase2, LoadKernel, LoadNbrKernel, LoadKernelFails, SelectLanguage, LeaveUi,
           RunPayload, PayloadReturns, Measure, Finalize, Decide, Boot, SeedFails,
           BootFails,
           NoBoot, KernelReturns, CleanupPowerButton, CleanupTpm, CleanupCommit,
           CleanupDone,
           EcResetFails, secdata_kernel_write, secdata_firmware_write, nvdata_write,
           CommitReturns, commit_and_lock_cleanup_func, LockNotNeeded, Lock, LockFails,
           Goto, RunCleanupFuncs, CallCommit, reboot, power_off
  <2>2. QED
    BY <2>1 DEF IInv, FailInv, Walking, Committing
<1>2. QED
  BY <1>1, Invariant, PTL DEF Spec, NoHandoffAfterFailure

\* On boards without KERNEL_LEGACY a kernel or bootloader finds data committed
\* and locked, the TPM disabled exactly for the network recovery kernel, and a
\* power button that works unless the EC refused the command to restore it,
\* which run_cleanup_funcs only prints; legacy_boot, which does none of this, is
\* why the theorem needs its hypothesis.
THEOREM HandoffTheorem == (\A b \in Boards : ~b.legacy) => (Spec => []HandoffSafe)
<1> SUFFICES ASSUME \A b \in Boards : ~b.legacy
             PROVE  Spec => []HandoffSafe
  OBVIOUS
<1>1. IInv => HandoffSafe
  <2> SUFFICES ASSUME IInv
               PROVE  HandoffSafe
    OBVIOUS
  <2>1. Left
    BY DEF IInv, TypeInv, Left
  <2>2. PowerButtonRestored
    BY <2>1 DEF IInv, WalkInv, PowerButtonRestored
  <2>3. LockedAtHandoff
    BY <2>1 DEF IInv, WalkInv, DataInv, Ready, LockedAtHandoff
  <2>4. TpmDisabledForNbrOnly
    BY <2>1 DEF IInv, WalkInv, TpmInv, Ready, TpmDisabledForNbrOnly
  <2>5. QED
    BY <2>2, <2>3, <2>4 DEF HandoffSafe
<1>2. QED
  BY <1>1, Invariant, PTL
=============================================================================
