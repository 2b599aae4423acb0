---------------------------- MODULE MCFastbootTcp ----------------------------
(* What the hosts of FastbootTcp ask for, for TLC. *)
EXTENDS FastbootTcp

Request(c, size, len) == [cmd |-> c, size |-> size, len |-> len]

\* A download; a command longer than segment_buf.
MCRequests == {Request("download", MaxDownload, 2), Request("upload", 0, 1),
               Request("reboot", 0, 1), Request("other", 0, MsgMax + 1)}

MCReboot == {Request("reboot", 0, 2), Request("reboot_to", 0, 2)}

=============================================================================
