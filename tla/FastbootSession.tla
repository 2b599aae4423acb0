--------------------------- MODULE FastbootSession ---------------------------
(***************************************************************************)
(* A fastboot session above its transport: src/fastboot/fastboot.c and the *)
(* handlers of src/fastboot/cmd.c.                                         *)
(*                                                                         *)
(* A packet is handled in one call of fastboot_handle_packet.  Every       *)
(* handler is an action with a parameter r, the responses it gives to      *)
(* send_packet in order: "INFO", "DATA", "OKAY", "FAIL", and "PAYLOAD" for *)
(* the raw data of an upload.  Several INFO lines are one.  Sizes are      *)
(* numbers of data units.  `content' is what the staging memory at         *)
(* _kernel_start holds, which only the properties read.                    *)
(***************************************************************************)
EXTENDS Integers, Sequences

CONSTANTS
    MaxDownload,   \* FASTBOOT_MAX_DOWNLOAD_SIZE
    UploadLimit    \* CONFIG_UIP_TCP_MSS

ASSUME SessionAssumption ==
    /\ MaxDownload \in Nat \ {0}
    /\ UploadLimit \in Nat

VARIABLES
    state,               \* FastbootOps.state
    has_staged_data,
    memory_buffer_len,
    download_progress,
    content              \* what the staging memory holds, and how much of it

staging == <<has_staged_data, memory_buffer_len>>
session == <<state, has_staged_data, memory_buffer_len, download_progress, content>>

Sources == {"nothing", "download", "descriptor", "hashed", "cleared"}

TypeOK ==
    /\ state \in {"COMMAND", "DOWNLOAD", "FINISHED", "REBOOT", "DISCONNECTED"}
    /\ has_staged_data \in BOOLEAN
    /\ memory_buffer_len \in 0 .. MaxDownload
    /\ download_progress \in 0 .. MaxDownload
    /\ content \in [from : Sources, len : 0 .. MaxDownload]

\* fastboot_init: fastboot_reset_staging and fastboot_reset_session.
Init ==
    /\ state = "COMMAND"
    /\ has_staged_data = FALSE
    /\ memory_buffer_len = 0
    /\ download_progress = 0
    /\ content = [from |-> "nothing", len |-> 0]

fastboot_is_finished == state \in {"FINISHED", "REBOOT", "DISCONNECTED"}

fastboot_reset_staging ==
    /\ has_staged_data' = FALSE
    /\ memory_buffer_len' = 0

\* The part of fastboot_reset_session above the transport: staged data stays.
fastboot_reset_session ==
    /\ state' = "COMMAND"
    /\ download_progress' = 0
    /\ UNCHANGED <<staging, content>>

-----------------------------------------------------------------------------
(* fastboot_handle_download: a chunk of len units.                          *)

Left == memory_buffer_len - download_progress

TooMuch(len) == len > Left

Complete(len) == len = Left

fastboot_handle_download(len, r) ==
    /\ state = "DOWNLOAD"
    /\ \/ /\ TooMuch(len)
          /\ r = <<"FAIL">>
          /\ state' = "COMMAND"
          /\ UNCHANGED <<staging, download_progress, content>>
       \/ /\ ~TooMuch(len)
          /\ content' = [from |-> "download", len |-> download_progress + len]
          /\ UNCHANGED memory_buffer_len
          /\ IF Complete(len)
             THEN /\ r = <<"OKAY">>
                  /\ state' = "COMMAND"
                  /\ has_staged_data' = TRUE
                  /\ download_progress' = 0
             ELSE /\ r = <<>>
                  /\ download_progress' = download_progress + len
                  /\ UNCHANGED <<state, has_staged_data>>

-----------------------------------------------------------------------------
(* The command handlers, all called with state = COMMAND.                   *)

Fails == {<<"FAIL">>, <<"INFO", "FAIL">>}

fastboot_cmd_continue(r) ==
    /\ r = <<"OKAY">>
    /\ state' = "FINISHED"
    /\ UNCHANGED <<staging, download_progress, content>>

fastboot_cmd_upload(r) ==
    IF ~has_staged_data \/ memory_buffer_len = 0
    THEN r = <<"FAIL">> /\ UNCHANGED session
    ELSE IF memory_buffer_len > UploadLimit
    THEN r = <<"INFO", "FAIL">> /\ UNCHANGED session
    ELSE /\ r = <<"DATA", "PAYLOAD", "OKAY">>
         /\ fastboot_reset_staging
         /\ UNCHANGED <<state, download_progress, content>>

prepare_downloadMutant(size) ==
    /\ memory_buffer_len' = size
    /\ UNCHANGED <<has_staged_data, download_progress>>
    /\ state' = "DOWNLOAD"
    /\ UNCHANGED content
fastboot_prepare_download(size) ==
    /\ memory_buffer_len' = size
    /\ download_progress' = 0
    /\ has_staged_data' = FALSE
    /\ state' = "DOWNLOAD"
    /\ UNCHANGED content

Fits(size) == size <= MaxDownload

\* Refused: a size that cannot be parsed, or does not fit.
fastboot_cmd_download(size, r) ==
    \/ /\ r = <<"FAIL">>
       /\ UNCHANGED session
    \/ /\ Fits(size)
       /\ r = <<"DATA">>
       /\ fastboot_prepare_download(size)

fastboot_cmd_flash(r) ==
    /\ r \in IF has_staged_data THEN Fails \cup {<<"OKAY">>} ELSE {<<"FAIL">>}
    /\ UNCHANGED session

\* Hashing a partition reads it through the staging memory.
fastboot_cmd_oem_sha256(r) ==
    \/ /\ r \in Fails
       /\ UNCHANGED session
    \/ /\ r \in {<<"INFO", "FAIL">>, <<"INFO", "OKAY">>}
       /\ fastboot_reset_staging
       /\ content' = [from |-> "hashed", len |-> 0]
       /\ UNCHANGED <<state, download_progress>>

\* A UFS descriptor fits one unit.
UFS_DESCRIPTOR_MAX_SIZE == 1

\* ufs_read_descriptor clears the whole staging memory before it asks the
\* device; boards without UFS only ever answer with the first FAIL.
fastboot_cmd_oem_read_ufs_descriptor(r) ==
    \/ /\ r = <<"FAIL">>
       /\ UNCHANGED session
    \/ /\ r = <<"INFO", "FAIL">>
       /\ content' = [from |-> "cleared", len |-> 0]
       /\ UNCHANGED <<state, staging, download_progress>>
    \/ /\ r = <<"OKAY">>
       /\ has_staged_data' = TRUE
       /\ memory_buffer_len' \in 0 .. UFS_DESCRIPTOR_MAX_SIZE
       /\ content' = [from |-> "descriptor", len |-> memory_buffer_len']
       /\ UNCHANGED <<state, download_progress>>

fastboot_cmd_oem_write_ufs_descriptor(r) ==
    \/ /\ r \in Fails
       /\ UNCHANGED session
    \/ /\ has_staged_data
       /\ memory_buffer_len <= UFS_DESCRIPTOR_MAX_SIZE
       /\ r = <<"INFO", "OKAY">>
       /\ fastboot_reset_staging
       /\ UNCHANGED <<state, download_progress, content>>

\* The INFO before the OKAY says that misc had no valid boot message.
fastboot_cmd_reboot_to_target(r) ==
    \/ /\ r \in Fails
       /\ UNCHANGED session
    \/ /\ r \in {<<"OKAY">>, <<"INFO", "OKAY">>}
       /\ state' = "REBOOT"
       /\ UNCHANGED <<staging, download_progress, content>>

fastboot_cmd_reboot(r) ==
    /\ r = <<"OKAY">>
    /\ state' = "REBOOT"
    /\ UNCHANGED <<staging, download_progress, content>>

\* getvar, erase, set_active, snapshot-update, oem cmdline, bootconfig, logs,
\* set-priority, set-successful, and commands that do not exist: none of them
\* touches the session.
OtherCommand(r) ==
    /\ r \in Fails \cup {<<"OKAY">>, <<"INFO", "OKAY">>}
    /\ UNCHANGED session

Commands == {"continue", "upload", "download", "flash", "sha256", "read_desc",
             "write_desc", "reboot", "reboot_to", "other"}

Responses == Fails \cup {<<>>, <<"OKAY">>, <<"DATA">>, <<"INFO", "OKAY">>,
                         <<"DATA", "PAYLOAD", "OKAY">>}

fastboot_handle_command(cmd, size, r) ==
    /\ state = "COMMAND"
    /\ \/ cmd = "continue" /\ fastboot_cmd_continue(r)
       \/ cmd = "upload" /\ fastboot_cmd_upload(r)
       \/ cmd = "download" /\ fastboot_cmd_download(size, r)
       \/ cmd = "flash" /\ fastboot_cmd_flash(r)
       \/ cmd = "sha256" /\ fastboot_cmd_oem_sha256(r)
       \/ cmd = "read_desc" /\ fastboot_cmd_oem_read_ufs_descriptor(r)
       \/ cmd = "write_desc" /\ fastboot_cmd_oem_write_ufs_descriptor(r)
       \/ cmd = "reboot" /\ fastboot_cmd_reboot(r)
       \/ cmd = "reboot_to" /\ fastboot_cmd_reboot_to_target(r)
       \/ cmd = "other" /\ OtherCommand(r)

\* Packets that arrive after the session is finished are ignored.
IgnorePacket(r) ==
    /\ fastboot_is_finished
    /\ r = <<>>
    /\ UNCHANGED session

\* The transport loses its link.
Disconnect ==
    /\ state' = "DISCONNECTED"
    /\ UNCHANGED <<staging, download_progress, content>>

\* fastboot_init: the next session, after the last one was released.  A
\* session that was to reboot has no next one.
fastboot_init ==
    /\ state # "REBOOT"
    /\ state' = "COMMAND"
    /\ download_progress' = 0
    /\ fastboot_reset_staging
    /\ UNCHANGED content

-----------------------------------------------------------------------------
(* The session over a transport that delivers any packets.                  *)

CONSTANTS Sizes,   \* sizes a host may announce
          Chunks   \* sizes of the chunks of data it may send

ASSUME SizeAssumption == Sizes \subseteq Nat /\ Chunks \subseteq Nat

HandleCommand == \E cmd \in Commands, size \in Sizes, r \in Responses :
                    fastboot_handle_command(cmd, size, r)
HandleDownload == \E len \in Chunks, r \in Responses :
                    fastboot_handle_download(len, r)
HandleIgnored == IgnorePacket(<<>>)

Next == \/ HandleCommand
        \/ HandleDownload
        \/ HandleIgnored
        \/ fastboot_reset_session
        \/ Disconnect
        \/ fastboot_init

Spec == Init /\ [][Next]_session

-----------------------------------------------------------------------------
(* Properties.                                                              *)

\* While data is expected, what arrived so far fits the announced size and
\* that fits the staging memory: the unsigned subtraction that computes what
\* is left never wraps, whatever commands, resets and errors came before.
ProgressInBuffer ==
    state = "DOWNLOAD" =>
        /\ download_progress <= memory_buffer_len
        /\ memory_buffer_len <= MaxDownload

\* has_staged_data means that the staging memory holds memory_buffer_len units
\* which one download, or one descriptor read, has left there: what upload,
\* flash and write-ufs-descriptor rely on.
StagedIntact ==
    has_staged_data =>
        /\ content.from \in {"download", "descriptor"}
        /\ content.len = memory_buffer_len

\* The same, but for a descriptor read that failed after it had cleared the
\* memory: no other command, chunk, reset or error, in any order, separates
\* what is staged from its length.
StagedIntactUnlessCleared ==
    content.from # "cleared" => StagedIntact

=============================================================================
