------------------------------ MODULE VbootBoot ------------------------------
(***************************************************************************)
(* One boot under verified boot: src/vboot/stages.c from                   *)
(* vboot_select_and_boot_kernel to the end of depthcharge, with the        *)
(* cleanup functions that run on every way out (src/base/cleanup_funcs.c), *)
(* the commit of nvdata and secdata (src/vboot/callbacks/misc.c), the      *)
(* TPM space lock (src/vboot/secdata_tpm.c) and the kernel loaders         *)
(* (src/vboot/load_kernel.c).                                              *)
(*                                                                         *)
(* The vboot library is external: its calls are nondeterministic choices   *)
(* over what it may change in the context and return.  nvdata is the set   *)
(* of facts recorded in it; secdata_kernel is the kernel version in it.    *)
(* Any TPM command, nvdata write or EC command may fail.                   *)
(*                                                                         *)
(* reboot() and power_off() never return, so a call of reboot() from       *)
(* inside a cleanup function replaces the walk of the cleanup list that it *)
(* interrupts; `depth' counts the walks on the stack.                      *)
(***************************************************************************)
EXTENDS Naturals, Sequences

CONSTANTS
    Boards,      \* the board configurations, a set of BoardConfig
    MaxVersion   \* bound on the kernel version

BoardConfig == [x86 : BOOLEAN,       \* ARCH_X86 with an EC power button
                google : BOOLEAN,    \* DRIVER_TPM_GOOGLE: the TPM has modes
                releases : BOOLEAN,  \* the TPM driver's cleanup closes the TPM
                legacy : BOOLEAN]    \* KERNEL_LEGACY

ASSUME BoardAssumption ==
    /\ Boards \subseteq BoardConfig
    /\ MaxVersion \in Nat

Modes == {"normal", "developer", "recovery", "broken", "diagnostics"}
Spaces == {"nv", "kernel", "firmware"}
Facts == {"failure", "setting"}
CleanupTypes == {"Reboot", "PowerOff", "Handoff", "Legacy"}
CleanupFuncs == {"powerbtn", "tpm", "commit"}
Ended == {"kernel", "payload", "rebooted", "off", "dead", "halted"}

VARIABLES
    board,          \* the configuration, fixed
    mode,           \* ctx->boot_mode
    ctx,            \* the vboot context: nv, version, changed flags, DISABLE_TPM
    store,          \* what nvdata storage and the TPM hold: nv, version
    driver,         \* the TPM driver: "unused", "open" or "closed"
    chip,           \* the TPM: secdata_kernel "locked", TPM "disabled"
    secdata_kernel_locked,
    powerbtn,       \* what the EC does with power button pulses
    cleanup_funcs,  \* the list, first to be called first
    pc,             \* where depthcharge is
    kernel,         \* the loaded kernel: "none", "disk" or "nbr"
    res,            \* the vb2_error_t that vboot_select_and_boot_kernel ends with
    walk,           \* run_cleanup_funcs: type, the functions left, what comes after
    depth,          \* history: nested walks of the cleanup list
    commit,         \* vb2ex_commit_data: who called it, and rv # VB2_SUCCESS
    failed          \* history: vb2api_fail was called in this boot

tpmVars == <<driver, cleanup_funcs>>
exitVars == <<walk, depth, commit>>
lockVars == <<chip, secdata_kernel_locked>>
vars == <<board, mode, ctx, store, driver, chip, secdata_kernel_locked,
          powerbtn, cleanup_funcs, pc, kernel, res, walk, depth, commit, failed>>

InRecovery == mode \in {"recovery", "broken"}   \* VB2_CONTEXT_RECOVERY_MODE

\* The pcs at which depthcharge still has work to do.
Steps == {"start", "fwmp", "register", "phase1", "phase2", "load", "measure", "finalize",
          "decide", "boot", "cleanup", "commit_kernel", "commit_firmware",
          "commit_nvdata", "commit_done", "lock", "noboot"}

Results == {"success", "error", "reboot", "shutdown", "ec_to_ro", "switch_rw"}

\* The EC passes power button pulses on, or it inhibits them, or it still does
\* because it did not carry out the last command to pass them on again.
ButtonStates == {"works", "inhibited", "refused"}

TypeOK ==
    /\ board \in Boards
    /\ mode \in Modes
    /\ ctx \in [nv : SUBSET Facts, version : 0 .. MaxVersion,
                changed : SUBSET Spaces, disable_tpm : BOOLEAN]
    /\ store \in [nv : SUBSET Facts, version : 0 .. MaxVersion]
    /\ driver \in {"unused", "open", "closed"}
    /\ chip \subseteq {"locked", "disabled"}
    /\ secdata_kernel_locked \in BOOLEAN
    /\ powerbtn \in ButtonStates
    /\ cleanup_funcs \in Seq(CleanupFuncs)
    /\ pc \in Steps \cup Ended
    /\ kernel \in {"none", "disk", "nbr"}
    /\ res \in Results
    /\ walk.type \in CleanupTypes \cup {"none"}
    /\ walk.rest \in Seq(CleanupFuncs)
    /\ walk.then \in {"none", "reboot", "off", "kernel", "payload", "ec_phase",
                      "ec_exit"}
    /\ depth \in Nat
    /\ commit \in [caller : {"none", "cleanup", "lockfail", "seed", "locale"},
                   error : BOOLEAN]
    /\ failed \in BOOLEAN

\* Firmware verification has read nvdata and secdata into the context.
Init ==
    /\ board \in Boards
    /\ mode \in Modes
    /\ ctx = [nv |-> {}, version |-> 0, changed |-> {}, disable_tpm |-> FALSE]
    /\ store = [nv |-> {}, version |-> 0]
    /\ driver = "unused"
    /\ chip = {}
    /\ secdata_kernel_locked = FALSE
    /\ powerbtn = "works"
    /\ cleanup_funcs = <<>>
    /\ pc = "start"
    /\ kernel = "none"
    /\ res = "success"
    /\ walk = [type |-> "none", rest |-> <<>>, then |-> "none"]
    /\ depth = 0
    /\ commit = [caller |-> "none", error |-> FALSE]
    /\ failed = FALSE

Goto(label) == pc' = label

-----------------------------------------------------------------------------
(* Parts of several operations.                                             *)

\* The context after vb2api_fail: a recovery reason or a failed slot in nvdata.
WithFailure(c) ==
    [c EXCEPT !.nv = @ \cup {"failure"}, !.changed = @ \cup {"nv"}]

vb2api_fail == ctx' = WithFailure(ctx) /\ failed' = TRUE

\* One TPM command: whether it was executed, and what it does to the driver.
\* The first command that gets through initializes the driver, which puts its
\* cleanup in front of the list.
TpmCommand(executed) ==
    \/ /\ driver = "unused"
       /\ ~executed
       /\ UNCHANGED tpmVars
    \/ /\ driver = "unused"
       /\ driver' = "open"
       /\ cleanup_funcs' = <<"tpm">> \o cleanup_funcs
    \/ /\ driver # "unused"
       /\ executed => driver = "open" /\ "disabled" \notin chip
       /\ UNCHANGED tpmVars

\* run_cleanup_funcs(type), followed by the exit it is called for.
RunCleanupFuncs(type, then, list) ==
    /\ walk' = [type |-> type, rest |-> list, then |-> then]
    /\ depth' = depth + 1
    /\ Goto("cleanup")

reboot == RunCleanupFuncs("Reboot", "reboot", cleanup_funcs)
power_off == RunCleanupFuncs("PowerOff", "off", cleanup_funcs)

CallCommit(caller) ==
    /\ commit' = [caller |-> caller, error |-> FALSE]
    /\ Goto("commit_kernel")

-----------------------------------------------------------------------------
(* vboot_select_and_boot_kernel up to the choice of a kernel.               *)

\* On x86, inhibit the power button and register its cleanup.  Nobody asks
\* whether the EC has carried out the command.
InhibitPowerButton ==
    /\ pc = "start"
    /\ powerbtn' \in IF board.x86 THEN {"works", "inhibited"} ELSE {"works"}
    /\ cleanup_funcs' = IF board.x86 THEN <<"powerbtn">> ELSE <<>>
    /\ Goto("fwmp")
    /\ UNCHANGED <<board, mode, ctx, store, driver, lockVars, kernel, res,
                   exitVars, failed>>

\* secdata_fwmp_read: its failure is left to vb2api_kernel_phase1.
secdata_fwmp_read ==
    /\ pc = "fwmp"
    /\ \E executed \in BOOLEAN :
          /\ TpmCommand(executed)
          /\ res' = IF executed \/ InRecovery THEN "success" ELSE "error"
    /\ Goto("register")
    /\ UNCHANGED <<board, mode, ctx, store, lockVars, powerbtn, kernel, exitVars,
                   failed>>

RegisterCommit ==
    /\ pc = "register"
    /\ cleanup_funcs' = <<"commit">> \o cleanup_funcs
    /\ Goto("phase1")
    /\ UNCHANGED <<board, mode, ctx, store, driver, lockVars, powerbtn, kernel,
                   res, exitVars, failed>>

\* vb2api_kernel_phase1: bad secdata outside recovery fails the boot.
Phase1 ==
    /\ pc = "phase1"
    /\ IF res = "error" THEN vb2api_fail /\ Goto("decide")
                        ELSE UNCHANGED <<ctx, failed>> /\ Goto("phase2")
    /\ UNCHANGED <<board, mode, store, tpmVars, lockVars, powerbtn,
                   kernel, res, exitVars>>

\* vb2api_kernel_phase2 may change nvdata and succeed, ask for an exit, or
\* fail; its EC sync may reset the EC through vboot_jump_to_rw, which runs the
\* cleanup functions first.
Phase2 ==
    /\ pc = "phase2"
    /\ \/ /\ Goto("load")
          /\ ctx' \in {ctx, [ctx EXCEPT !.nv = @ \cup {"setting"},
                                        !.changed = @ \cup {"nv"}]}
          /\ UNCHANGED <<res, failed, walk, depth>>
       \/ /\ Goto("decide")
          /\ res' \in Results \ {"success"}
          /\ UNCHANGED <<ctx, failed, walk, depth>>
       \/ /\ Goto("decide")
          /\ res' \in {"error", "reboot", "ec_to_ro"}
          /\ vb2api_fail
          /\ UNCHANGED <<walk, depth>>
       \/ /\ RunCleanupFuncs("Reboot", "ec_phase", cleanup_funcs)
          /\ UNCHANGED <<ctx, res, failed>>
    /\ UNCHANGED <<board, mode, store, tpmVars, lockVars, powerbtn,
                   kernel, commit>>

-----------------------------------------------------------------------------
(* vboot_select_and_load_kernel: a disk kernel in normal mode, the UI in    *)
(* the others.                                                              *)

\* vboot_load_kernel.
LoadKernel ==
    /\ pc = "load"
    /\ mode \in {"normal", "developer", "recovery"}
    /\ ctx' = [ctx EXCEPT !.disable_tpm = FALSE]
    /\ kernel' = "disk"
    /\ Goto("measure")
    /\ UNCHANGED <<board, mode, store, tpmVars, lockVars, powerbtn,
                   res, exitVars, failed>>

\* It finds no kernel: only normal mode records it and gives up.
LoadKernelFails ==
    /\ pc = "load"
    /\ mode \in {"normal", "developer", "recovery"}
    /\ IF mode = "normal"
       THEN /\ ctx' = WithFailure([ctx EXCEPT !.disable_tpm = FALSE])
            /\ failed' = TRUE
            /\ res' = "error"
            /\ Goto("decide")
       ELSE /\ ctx' = [ctx EXCEPT !.disable_tpm = FALSE]
            /\ UNCHANGED <<failed, res, pc>>
    /\ UNCHANGED <<board, mode, store, tpmVars, lockVars, powerbtn,
                   kernel, exitVars>>

\* vboot_load_nbr_kernel, from the manual recovery UI; when it fails nothing
\* changes.
LoadNbrKernel ==
    /\ pc = "load"
    /\ mode = "recovery"
    /\ ctx' = [ctx EXCEPT !.disable_tpm = TRUE]
    /\ kernel' = "nbr"
    /\ Goto("measure")
    /\ UNCHANGED <<board, mode, store, tpmVars, lockVars, powerbtn,
                   res, exitVars, failed>>

\* language_select_action: the locale goes to nvdata and is committed at once.
SelectLanguage ==
    /\ pc = "load"
    /\ mode # "normal"
    /\ ctx' = [ctx EXCEPT !.nv = @ \cup {"setting"}, !.changed = @ \cup {"nv"}]
    /\ CallCommit("locale")
    /\ UNCHANGED <<board, mode, store, tpmVars, lockVars, powerbtn,
                   kernel, res, walk, depth, failed>>

\* The UI asks for a reboot or a shutdown.  Switching to developer mode first
\* changes secdata_firmware, in recovery mode only; the other requests change
\* nvdata or nothing.
LeaveUi ==
    /\ pc = "load"
    /\ mode # "normal"
    /\ res' \in {"reboot", "shutdown"}
    /\ Goto("decide")
    /\ \E spaces \in {{}, {"nv"}} \cup
                     (IF mode = "recovery" THEN {{"nv", "firmware"}} ELSE {}) :
          ctx' = [ctx EXCEPT !.nv = IF "nv" \in spaces THEN @ \cup {"setting"} ELSE @,
                             !.changed = @ \cup spaces]
    /\ UNCHANGED <<board, mode, store, tpmVars, lockVars, powerbtn,
                   kernel, exitVars, failed>>

\* payload_run: an alternate bootloader from the developer UI.
RunPayload ==
    /\ pc = "load"
    /\ mode = "developer"
    /\ RunCleanupFuncs("Legacy", "payload", cleanup_funcs)
    /\ UNCHANGED <<board, mode, ctx, store, tpmVars, lockVars,
                   powerbtn, kernel, res, commit, failed>>

\* The bootloader returns, and the UI goes on with an error message.
PayloadReturns ==
    /\ pc = "payload"
    /\ Goto("load")
    /\ UNCHANGED <<board, mode, ctx, store, tpmVars, lockVars,
                   powerbtn, kernel, res, exitVars, failed>>

-----------------------------------------------------------------------------
(* From the choice of a kernel to its start.                                *)

\* secdata_extend_kernel_pcr and secdata_widevine_prepare.
Measure ==
    /\ pc = "measure"
    /\ IF InRecovery
       THEN Goto("finalize") /\ UNCHANGED <<tpmVars, ctx, failed, walk, depth>>
       ELSE \E executed, ok \in BOOLEAN :
            /\ TpmCommand(executed)
            /\ ok => executed
            /\ IF ok THEN Goto("finalize") /\ UNCHANGED <<ctx, failed, walk, depth>>
                     ELSE /\ vb2api_fail
                          /\ RunCleanupFuncs("Reboot", "reboot", cleanup_funcs')
    /\ UNCHANGED <<board, mode, store, lockVars, powerbtn, kernel, res, commit>>

\* vb2api_kernel_finalize: rolls the kernel version forward outside recovery.
Finalize ==
    /\ pc = "finalize"
    /\ \/ ctx' = ctx
       \/ /\ ~InRecovery
          /\ ctx.version < MaxVersion
          /\ ctx' = [ctx EXCEPT !.version = @ + 1, !.changed = @ \cup {"kernel"}]
    /\ res' \in {"success", "shutdown", "error"}
    /\ Goto("decide")
    /\ UNCHANGED <<board, mode, store, tpmVars, lockVars, powerbtn,
                   kernel, exitVars, failed>>

\* The end of vboot_select_and_boot_kernel: what to do with res.  An EC reset
\* either runs the cleanup functions itself or is only scheduled for when the
\* AP is off.
Decide ==
    /\ pc = "decide"
    /\ \/ res = "success" /\ Goto("boot") /\ UNCHANGED <<walk, depth>>
       \/ res \in {"reboot", "error"} /\ reboot
       \/ res \in {"shutdown", "ec_to_ro", "switch_rw"} /\ power_off
       \/ /\ res \in {"ec_to_ro", "switch_rw"}
          /\ RunCleanupFuncs("Reboot", "ec_exit", cleanup_funcs)
    /\ UNCHANGED <<board, mode, ctx, store, tpmVars, lockVars,
                   powerbtn, kernel, res, commit, failed>>

\* vboot_boot_kernel: everything fits and the kernel may be started.
Boot ==
    /\ pc = "boot"
    /\ RunCleanupFuncs("Handoff", "kernel", cleanup_funcs)
    /\ UNCHANGED <<board, mode, ctx, store, tpmVars, lockVars,
                   powerbtn, kernel, res, commit, failed>>

\* The TPM gives no randomness for the device tree; only recovery carries on.
SeedFails ==
    /\ pc = "boot"
    /\ ~InRecovery
    /\ vb2api_fail
    /\ CallCommit("seed")
    /\ UNCHANGED <<board, mode, store, tpmVars, lockVars, powerbtn,
                   kernel, res, walk, depth>>

\* The boot information, the command line or the image is bad.
BootFails ==
    /\ pc = "boot"
    /\ Goto("noboot")
    /\ UNCHANGED <<board, mode, ctx, store, tpmVars, lockVars,
                   powerbtn, kernel, res, exitVars, failed>>

\* legacy_boot, when configured, jumps to the kernel; otherwise main halts.
NoBoot ==
    /\ pc = "noboot"
    /\ \/ board.legacy /\ Goto("kernel")
       \/ Goto("halted")
    /\ UNCHANGED <<board, mode, ctx, store, tpmVars, lockVars,
                   powerbtn, kernel, res, exitVars, failed>>

-----------------------------------------------------------------------------
(* run_cleanup_funcs: one function of the list per step.                    *)

NextCleanupMutant == UNCHANGED walk
NextCleanup == walk' = [walk EXCEPT !.rest = Tail(@)]

\* The EC passes the pulses on again, unless its command fails: the walk only
\* prints that, and goes on.
CleanupPowerButton ==
    /\ pc = "cleanup"
    /\ walk.rest # <<>> /\ Head(walk.rest) = "powerbtn"
    /\ \/ powerbtn' = "works"
       \/ powerbtn # "works" /\ powerbtn' = "refused"
    /\ NextCleanup
    /\ UNCHANGED <<board, mode, ctx, store, tpmVars, lockVars, pc, kernel, res,
                   depth, commit, failed>>

\* The TPM driver's cleanup releases the locality, except in the SPI driver.
CleanupTpm ==
    /\ pc = "cleanup"
    /\ walk.rest # <<>> /\ Head(walk.rest) = "tpm"
    /\ driver' = IF board.releases THEN "closed" ELSE driver
    /\ NextCleanup
    /\ UNCHANGED <<board, mode, ctx, store, cleanup_funcs, lockVars, powerbtn, pc,
                   kernel, res, depth, commit, failed>>

CleanupCommit ==
    /\ pc = "cleanup"
    /\ walk.rest # <<>> /\ Head(walk.rest) = "commit"
    /\ CallCommit("cleanup")
    /\ NextCleanup
    /\ UNCHANGED <<board, mode, ctx, store, tpmVars, lockVars, powerbtn, kernel,
                   res, depth, failed>>

\* All functions have run; the exit follows.  Only an EC reset may fail.
CleanupDone ==
    /\ pc = "cleanup"
    /\ walk.rest = <<>>
    /\ \/ walk.then = "kernel" /\ Goto("kernel")
       \/ walk.then = "payload" /\ Goto("payload")
       \/ walk.then = "off" /\ Goto("off")
       \/ walk.then \in {"reboot", "ec_phase", "ec_exit"} /\ Goto("rebooted")
    /\ depth' = depth - 1
    /\ UNCHANGED <<board, mode, ctx, store, tpmVars, lockVars, powerbtn, kernel,
                   res, walk, commit, failed>>

\* The EC did not reset.  On the way out power_off() follows.  In the middle of
\* EC sync the error goes back to vboot, which records a failure, or EC sync
\* thinks it is done and the boot goes on, or power_off() follows.
EcResetFails ==
    /\ pc = "cleanup"
    /\ walk.rest = <<>>
    /\ \/ /\ walk.then \in {"ec_phase", "ec_exit"}
          /\ walk' = [type |-> "PowerOff", rest |-> cleanup_funcs, then |-> "off"]
          /\ UNCHANGED <<pc, ctx, failed, res, depth>>
       \/ /\ walk.then = "ec_phase"
          /\ vb2api_fail
          /\ res' \in {"error", "ec_to_ro"}
          /\ Goto("decide")
          /\ depth' = depth - 1
          /\ UNCHANGED walk
       \/ /\ walk.then = "ec_phase"
          /\ Goto("load")
          /\ depth' = depth - 1
          /\ UNCHANGED <<walk, ctx, failed, res>>
    /\ UNCHANGED <<board, mode, store, tpmVars, lockVars, powerbtn, kernel, commit>>

\* The kernel turns out not to be bootable after the cleanup.
KernelReturns ==
    /\ pc = "kernel"
    /\ walk.then = "kernel"
    /\ board.x86
    /\ Goto("noboot")
    /\ walk' = [walk EXCEPT !.then = "none"]
    /\ UNCHANGED <<board, mode, ctx, store, tpmVars, lockVars, powerbtn, kernel,
                   res, depth, commit, failed>>

-----------------------------------------------------------------------------
(* vb2ex_commit_data.                                                       *)

\* A write of a space that did not change does nothing.
Unchanged(space) == space \notin ctx.changed

CleanFlag(space) == ctx' = [ctx EXCEPT !.changed = @ \ {space}]

\* A failed secdata write is recorded, except in recovery mode.
SecdataWriteFails ==
    IF InRecovery
    THEN UNCHANGED <<ctx, failed, commit>>
    ELSE /\ vb2api_fail
         /\ commit' = [commit EXCEPT !.error = TRUE]

secdata_kernel_write ==
    /\ pc = "commit_kernel"
    /\ \/ /\ Unchanged("kernel")
          /\ UNCHANGED <<ctx, store, failed, commit, tpmVars>>
       \/ /\ ~Unchanged("kernel")
          /\ "locked" \notin chip
          /\ TpmCommand(TRUE)
          /\ store' = [store EXCEPT !.version = ctx.version]
          /\ CleanFlag("kernel")
          /\ UNCHANGED <<failed, commit>>
       \/ /\ ~Unchanged("kernel")
          /\ \E executed \in BOOLEAN : TpmCommand(executed)
          /\ SecdataWriteFails
          /\ UNCHANGED store
    /\ Goto("commit_firmware")
    /\ UNCHANGED <<board, mode, lockVars, powerbtn, kernel, res, walk, depth>>

\* secdata_firmware can only be written in recovery mode.
secdata_firmware_write ==
    /\ pc = "commit_firmware"
    /\ \/ /\ Unchanged("firmware")
          /\ UNCHANGED <<ctx, failed, commit, tpmVars>>
       \/ /\ ~Unchanged("firmware")
          /\ InRecovery
          /\ TpmCommand(TRUE)
          /\ CleanFlag("firmware")
          /\ UNCHANGED <<failed, commit>>
       \/ /\ ~Unchanged("firmware")
          /\ IF InRecovery THEN \E executed \in BOOLEAN : TpmCommand(executed)
                           ELSE UNCHANGED tpmVars
          /\ SecdataWriteFails
    /\ Goto("commit_nvdata")
    /\ UNCHANGED <<board, mode, store, lockVars, powerbtn, kernel, res, walk, depth>>

\* nvdata_write; when it fails outside recovery there is nothing left but die().
nvdata_writeMutant ==
    /\ pc = "commit_nvdata"
    /\ \/ /\ Unchanged("nv") \/ commit.error
          /\ UNCHANGED <<ctx, store, commit>>
          /\ Goto("commit_done")
       \/ /\ ~Unchanged("nv")
          /\ store' = [store EXCEPT !.nv = ctx.nv]
          /\ CleanFlag("nv")
          /\ UNCHANGED commit
          /\ Goto("commit_done")
    /\ UNCHANGED <<board, mode, tpmVars, lockVars, powerbtn, kernel, res, walk,
                   depth, failed>>

nvdata_write ==
    /\ pc = "commit_nvdata"
    /\ \/ /\ Unchanged("nv")
          /\ UNCHANGED <<ctx, store, commit>>
          /\ Goto("commit_done")
       \/ /\ ~Unchanged("nv")
          /\ store' = [store EXCEPT !.nv = ctx.nv]
          /\ CleanFlag("nv")
          /\ UNCHANGED commit
          /\ Goto("commit_done")
       \/ /\ ~Unchanged("nv")
          /\ commit' = [commit EXCEPT !.error = FALSE]
          /\ Goto(IF InRecovery THEN "commit_done" ELSE "dead")
          /\ UNCHANGED <<ctx, store>>
    /\ UNCHANGED <<board, mode, tpmVars, lockVars, powerbtn, kernel, res, walk,
                   depth, failed>>

\* vb2ex_commit_data returns to the failure paths and the language menu.
CommitReturns ==
    /\ pc = "commit_done"
    /\ \/ commit.caller \in {"lockfail", "seed"} /\ reboot /\ UNCHANGED res
       \/ /\ commit.caller = "locale"
          /\ res' = IF commit.error THEN "error" ELSE res
          /\ Goto(IF commit.error THEN "decide" ELSE "load")
          /\ UNCHANGED <<walk, depth>>
    /\ UNCHANGED <<board, mode, ctx, store, tpmVars, lockVars, powerbtn, kernel,
                   commit, failed>>

-----------------------------------------------------------------------------
(* commit_and_lock_cleanup_func after its commit.                           *)

\* A failed commit turns every exit but a reboot into a reboot.
RebootInsteadAlways(type) == TRUE
RebootInsteadOfPowerOff(type) == type = "PowerOff"
RebootInstead(type) == type # "Reboot"

\* Only on the way to other code does secdata_kernel need its lock.
NeedsLockMutant(type) == type = "Handoff"
NeedsLock(type) == type \in {"Handoff", "Legacy"}

commit_and_lock_cleanup_func ==
    /\ pc = "commit_done"
    /\ commit.caller = "cleanup"
    /\ IF commit.error /\ RebootInstead(walk.type)
       THEN reboot
       ELSE /\ Goto(IF ~commit.error /\ NeedsLock(walk.type)
                    THEN "lock" ELSE "cleanup")
            /\ UNCHANGED <<walk, depth>>
    /\ UNCHANGED <<board, mode, ctx, store, tpmVars, lockVars, powerbtn, kernel,
                   res, commit, failed>>

\* secdata_kernel_lock, then TPM mode "disabled" where the TPM has modes.
DisablesTpm == ctx.disable_tpm /\ board.google

LockNotNeeded ==
    /\ pc = "lock"
    /\ ~ctx.disable_tpm
    /\ InRecovery
    /\ Goto("cleanup")
    /\ UNCHANGED <<board, mode, ctx, store, tpmVars, lockVars, powerbtn, kernel,
                   res, exitVars, failed>>

Lock ==
    /\ pc = "lock"
    /\ ctx.disable_tpm \/ ~InRecovery
    /\ IF secdata_kernel_locked /\ ~DisablesTpm THEN UNCHANGED tpmVars
                                                ELSE TpmCommand(TRUE)
    /\ secdata_kernel_locked' = TRUE
    /\ chip' = chip \cup (IF secdata_kernel_locked THEN {} ELSE {"locked"})
                    \cup (IF DisablesTpm THEN {"disabled"} ELSE {})
    /\ Goto("cleanup")
    /\ UNCHANGED <<board, mode, ctx, store, powerbtn, kernel, res, exitVars, failed>>

\* One of the two commands fails, or its answer is lost.
LockFails ==
    /\ pc = "lock"
    /\ ctx.disable_tpm \/ ~InRecovery
    /\ ~secdata_kernel_locked \/ DisablesTpm
    /\ \E executed \in BOOLEAN :
          /\ TpmCommand(executed)
          /\ \/ UNCHANGED lockVars
             \/ /\ executed
                /\ ~secdata_kernel_locked
                /\ chip' = chip \cup {"locked"}
                /\ secdata_kernel_locked' \in (IF DisablesTpm THEN BOOLEAN ELSE {FALSE})
    /\ vb2api_fail
    /\ CallCommit("lockfail")
    /\ UNCHANGED <<board, mode, store, powerbtn, kernel, res, walk, depth>>

-----------------------------------------------------------------------------
Depthcharge ==
    \/ InhibitPowerButton \/ secdata_fwmp_read \/ RegisterCommit
    \/ Phase1 \/ Phase2
    \/ LoadKernel \/ LoadNbrKernel \/ LoadKernelFails
    \/ SelectLanguage \/ LeaveUi \/ RunPayload
    \/ Measure \/ Finalize \/ Decide
    \/ Boot \/ SeedFails \/ BootFails \/ NoBoot
    \/ CleanupPowerButton \/ CleanupTpm \/ CleanupCommit \/ CleanupDone
    \/ EcResetFails
    \/ secdata_kernel_write \/ secdata_firmware_write \/ nvdata_write
    \/ CommitReturns \/ commit_and_lock_cleanup_func
    \/ LockNotNeeded \/ Lock \/ LockFails

Next == Depthcharge \/ PayloadReturns \/ KernelReturns

\* Depthcharge is the only thread; nothing but itself keeps it from its next step.
Spec == Init /\ [][Next]_vars /\ WF_vars(Depthcharge)

-----------------------------------------------------------------------------
(* Properties.                                                              *)

\* Whoever gets the machine from depthcharge outside recovery mode, a kernel or
\* another bootloader, finds secdata_kernel locked in the TPM and everything
\* this boot decided stored: "Commit and lock data spaces right before booting
\* a kernel or chainloading to another firmware" (stages.c).
LockedAtHandoff ==
    pc \in {"kernel", "payload"} /\ ~InRecovery =>
        /\ "locked" \in chip
        /\ store.nv = ctx.nv
        /\ store.version = ctx.version

\* The miniOS kernel of network-based recovery runs with the TPM locked and,
\* where it has modes, disabled; no other kernel finds the TPM disabled.
TpmDisabledForNbrOnly ==
    pc = "kernel" =>
        /\ kernel = "nbr" => "locked" \in chip
        /\ ("disabled" \in chip) <=> (kernel = "nbr" /\ board.google)

\* A failure reported by vb2api_fail outside recovery is in stored nvdata when
\* the machine reboots or powers off, whatever else fails on the way:
\* depthcharge rather dies than forgets it.
FailureRecorded ==
    pc \in {"rebooted", "off"} /\ failed /\ ~InRecovery => "failure" \in store.nv

\* After a recorded failure no kernel and no bootloader is started.
NoHandoffAfterFailure ==
    [][pc' \in {"kernel", "payload"} /\ pc # pc' => ~failed \/ InRecovery]_vars

\* reboot() from inside a cleanup function walks the list again, but never
\* from inside a walk that is already for a reboot: the recursion is bounded.
NestingBounded == depth <= 2

\* Depthcharge is never left in order with a power button that nobody asked the
\* EC to restore: only an EC that refuses the last such command keeps it
\* inhibited (x86_ec_powerbtn_cleanup_func, on every kind of exit).
PowerButtonRestored ==
    pc \in {"kernel", "payload", "rebooted", "off"} => powerbtn # "inhibited"

\* Once the cleanup functions start, depthcharge ends: none of the nested
\* reboots, retries and failed EC resets keeps it from leaving.
ExitCompletes == pc = "cleanup" ~> pc \in Ended \cup {"load", "decide"}

\* What a kernel or bootloader finds when depthcharge hands the machine over:
\* data committed and locked, the TPM as its kind of kernel must find it, and a
\* power button that works unless the EC refused to restore it.
HandoffSafe == LockedAtHandoff /\ TpmDisabledForNbrOnly /\ PowerButtonRestored

\* The walks of the cleanup list, nested ones included, stay well-formed.
CleanupBounded == TypeOK /\ NestingBounded
=============================================================================
