----------------------------- MODULE FastbootUsb -----------------------------
(***************************************************************************)
(* The USB transport of fastboot, src/fastboot/usb.c: the life of a        *)
(* UsbFastbootDevice, which hot-plugging and the session share, with the   *)
(* loop of fastboot() and the fastboot screen above it.                    *)
(*                                                                         *)
(* usb_poll runs in fastboot_poll, in fastboot_setup_usb and, between two  *)
(* of them, wherever a key or a removable disk is looked for.  It walks    *)
(* the hubs and the devices in the order of their addresses, so a cable    *)
(* may be plugged, pulled or polled at any moment at which no call of      *)
(* this module is under way.                                               *)
(***************************************************************************)
EXTENDS FastbootSession

CONSTANTS
    Cables,    \* structures that usb_fastboot_probe may allocate
    Valid,     \* cables whose endpoints are those of an Alink
    None

ASSUME UsbAssumption == Valid \subseteq Cables /\ None \notin Cables

VARIABLES
    allocated,       \* the structures not freed
    alink_devices,   \* the list; its order only decides which cable is found first
    usb_dev,         \* cables whose usb_dev is set
    in_use,          \* cables whose bulk_in and bulk_out are set
    fb_session,      \* what the caller got from fastboot_init, or None
    rebooted

usb == <<allocated, alink_devices, usb_dev, in_use>>
usbVars == <<session, usb, fb_session, rebooted>>

UsbTypeOK ==
    /\ TypeOK
    /\ allocated \subseteq Cables
    /\ alink_devices \subseteq Cables
    /\ usb_dev \subseteq Cables
    /\ in_use \subseteq Cables
    /\ fb_session \in Cables \cup {None}
    /\ rebooted \in BOOLEAN

UsbInit ==
    /\ Init
    /\ allocated = {} /\ alink_devices = {} /\ usb_dev = {} /\ in_use = {}
    /\ fb_session = None
    /\ rebooted = FALSE

-----------------------------------------------------------------------------
(* Hot-plugging: the hubs call usb_generic_create and usb_generic_remove.   *)

usb_fastboot_probe(c) ==
    /\ ~rebooted
    /\ c \notin allocated
    /\ allocated' = allocated \cup {c}
    /\ alink_devices' = alink_devices \cup {c}
    /\ usb_dev' = usb_dev \cup {c}
    /\ UNCHANGED <<session, in_use, fb_session, rebooted>>

\* A device in use is disconnected and left to FastbootOps.release.
RemovedAlways(c) ==
    /\ allocated' = allocated \ {c}
    /\ UNCHANGED <<session, usb_dev, in_use>>
RemovedUnreset(c) ==
    IF c \in in_use
    THEN /\ state' = "COMMAND"
         /\ in_use' = in_use \ {c}
         /\ usb_dev' = usb_dev \ {c}
         /\ UNCHANGED <<allocated, staging, download_progress, content>>
    ELSE /\ allocated' = allocated \ {c}
         /\ usb_dev' = usb_dev \ {c}
         /\ UNCHANGED <<session, in_use>>
Removed(c) ==
    IF c \in in_use
    THEN /\ Disconnect
         /\ in_use' = in_use \ {c}
         /\ usb_dev' = usb_dev \ {c}
         /\ UNCHANGED allocated
    ELSE /\ allocated' = allocated \ {c}
         /\ usb_dev' = usb_dev \ {c}
         /\ UNCHANGED <<session, in_use>>

usb_fastboot_remove(c) ==
    /\ ~rebooted
    /\ c \in usb_dev
    /\ alink_devices' = alink_devices \ {c}
    /\ Removed(c)
    /\ UNCHANGED <<fb_session, rebooted>>

-----------------------------------------------------------------------------
(* Packets.                                                                 *)

\* Empty packets are dropped below the session.
Handled(len) == len > 0

\* usb_fastboot_dev_poll for a cable in use on which a packet has arrived; the
\* responses leave within the call.  Timeouts and errors change nothing.
usb_fastboot_dev_poll(c) ==
    /\ ~rebooted
    /\ c \in in_use
    /\ \/ HandleCommand
       \/ \E len \in Chunks, r \in Responses :
             Handled(len) /\ fastboot_handle_download(len, r)
       \/ HandleIgnored
    /\ UNCHANGED <<usb, fb_session, rebooted>>

-----------------------------------------------------------------------------
(* The callers: fastboot(), fastboot_action and fastboot_exit.              *)

\* usb_fastboot_get_dev may return this one: unused, with its endpoints.
Usable(c) == c \in alink_devices /\ c \notin in_use /\ c \in Valid

\* fastboot_init with fastboot_setup_usb, when there is a cable.
StartSession ==
    /\ ~rebooted
    /\ fb_session = None
    /\ \E c \in Cables :
          /\ Usable(c)
          /\ fb_session' = c
          /\ in_use' = in_use \cup {c}
    /\ fastboot_init
    /\ UNCHANGED <<allocated, alink_devices, usb_dev, rebooted>>

\* usb_fastboot_release.
usb_fastboot_release(c) ==
    IF c \notin usb_dev
    THEN allocated' = allocated \ {c} /\ UNCHANGED in_use
    ELSE in_use' = in_use \ {c} /\ UNCHANGED allocated

ReleaseMutant ==
    /\ ~rebooted
    /\ fb_session # None
    /\ usb_fastboot_release(fb_session)
    /\ fb_session' = None
    /\ UNCHANGED <<session, alink_devices, usb_dev, rebooted>>
fastboot_release ==
    /\ ~rebooted
    /\ fb_session # None
    /\ usb_fastboot_release(fb_session)
    /\ fb_session' = None
    /\ rebooted' = (state = "REBOOT")
    /\ UNCHANGED <<session, alink_devices, usb_dev>>

\* The session has finished, and the loop or the screen's action sees it.
SessionEnds == fastboot_is_finished /\ fastboot_release

\* The user leaves the screen, or presses a key in fastboot().
UserExits == ~fastboot_is_finished /\ fastboot_release

-----------------------------------------------------------------------------
UsbNext ==
    \/ \E c \in Cables : \/ usb_fastboot_probe(c)
                         \/ usb_fastboot_remove(c)
                         \/ usb_fastboot_dev_poll(c)
    \/ StartSession
    \/ SessionEnds
    \/ UserExits

\* The caller keeps calling: it releases a session that has finished.
UsbSpec == UsbInit /\ [][UsbNext]_usbVars /\ WF_usbVars(SessionEnds)

-----------------------------------------------------------------------------
(* Properties.                                                              *)

\* Whatever order cables are pulled and sessions released in, the structure
\* that the caller polls is still allocated and the ones on the list, which
\* usb_fastboot_get_dev dereferences, are allocated and have their usb_dev.
NoUseAfterFree ==
    /\ fb_session # None => fb_session \in allocated
    /\ \A c \in alink_devices : c \in allocated /\ c \in usb_dev

\* Nothing that usb_fastboot_probe allocated is forgotten: it is on the list,
\* or it is the caller's session, whose release frees it.
NoLeak ==
    allocated \subseteq alink_devices \cup {fb_session}

\* A cable is in use exactly while the caller has its session and it is
\* plugged in: no packet reaches a session nobody polls, no response goes to a
\* device that is gone, and a released cable can be used again.
OneSession ==
    in_use = {fb_session} \cap usb_dev

\* An empty download cannot be completed over this transport, which drops the
\* empty packet that would end it: what is staged by one is never empty.
StagedNotEmpty ==
    has_staged_data /\ content.from = "download" => memory_buffer_len > 0

\* Over USB the session of FastbootSession runs, so what is proved of it holds
\* for the staging memory that this transport fills.
ImplementsSession == Spec

\* A reboot that the host was promised is carried out, unless the cable is
\* pulled between the answer and the caller's next look at the session.
RebootCarriedOut ==
    state = "REBOOT" ~> (rebooted \/ state = "DISCONNECTED")

\* A UsbFastbootDevice has one owner at any time, who frees it once, however
\* plugging, polling and releasing interleave (usb_fastboot_remove and
\* usb_fastboot_release).
DeviceOwned == UsbTypeOK /\ NoUseAfterFree /\ NoLeak /\ OneSession

\* What the packets of this transport leave in the staging memory fits it and
\* is whole: the download in progress, and what is staged.
DownloadsWhole == ProgressInBuffer /\ StagedIntactUnlessCleared /\ StagedNotEmpty
=============================================================================
