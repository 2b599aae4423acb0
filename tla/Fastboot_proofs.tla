--------------------------- MODULE Fastboot_proofs ---------------------------
(***************************************************************************)
(* What holds of a fastboot session for every size of the staging memory,  *)
(* every announced size and every way the data is cut into chunks; then    *)
(* who owns a UsbFastbootDevice, for any number of cables, and that the    *)
(* session over USB is a session of FastbootSession.  Then what the        *)
(* commands do to the disk, for every block size, partition layout and     *)
(* image, and whatever a transfer that fails has written.                  *)
(***************************************************************************)
EXTENDS FastbootUsb, FastbootDisk, TLAPS, WellFoundedInduction, SequenceTheorems

-----------------------------------------------------------------------------
(* The session.                                                             *)

\* The strengthening: while data is expected nothing is staged, and what has
\* arrived is what the memory holds.
DownloadInv ==
    state = "DOWNLOAD" =>
        /\ has_staged_data = FALSE
        /\ download_progress <= memory_buffer_len

Inv == TypeOK /\ DownloadInv /\ StagedIntactUnlessCleared

USE SessionAssumption, SizeAssumption

\* An empty staging memory is one.
LEMMA ZeroFits == 0 \in 0 .. MaxDownload
  OBVIOUS

-----------------------------------------------------------------------------
(* One lemma per packet handler.                                            *)

\* fastboot_handle_download keeps the invariant, whatever the chunk's length.
LEMMA DownloadStep ==
    ASSUME Inv, NEW len \in Nat, NEW r, fastboot_handle_download(len, r)
    PROVE  Inv'
<1>1. CASE TooMuch(len)
  BY <1>1 DEF Inv, TypeOK, DownloadInv, StagedIntactUnlessCleared, StagedIntact,
              fastboot_handle_download, staging
<1>2. CASE ~TooMuch(len) /\ Complete(len)
  <2>1. /\ content' = [from |-> "download", len |-> download_progress + len]
        /\ memory_buffer_len' = memory_buffer_len
        /\ state' = "COMMAND"
        /\ has_staged_data' = TRUE
        /\ download_progress' = 0
    BY <1>2 DEF fastboot_handle_download
  <2>2. download_progress + len = memory_buffer_len
    BY <1>2 DEF Complete, Left, Inv, TypeOK
  <2>3. TypeOK'
    BY <2>1, <2>2 DEF Inv, TypeOK, Sources
  <2>4. QED
    BY <2>1, <2>2, <2>3 DEF Inv, DownloadInv, StagedIntactUnlessCleared, StagedIntact
<1>3. CASE ~TooMuch(len) /\ ~Complete(len)
  <2>1. /\ content' = [from |-> "download", len |-> download_progress + len]
        /\ memory_buffer_len' = memory_buffer_len
        /\ state' = state
        /\ has_staged_data' = has_staged_data
        /\ download_progress' = download_progress + len
        /\ state = "DOWNLOAD"
    BY <1>3 DEF fastboot_handle_download
  <2>2. /\ download_progress + len <= memory_buffer_len
        /\ download_progress + len \in 0 .. MaxDownload
    BY <1>3 DEF TooMuch, Left, Inv, TypeOK
  <2>3. TypeOK'
    BY <2>1, <2>2 DEF Inv, TypeOK, Sources
  <2>4. QED
    BY <2>1, <2>2, <2>3 DEF Inv, DownloadInv, StagedIntactUnlessCleared, StagedIntact
<1>4. QED
  BY <1>1, <1>2, <1>3

\* Every command handler keeps the invariant: none stages anything but a
\* whole descriptor, and only download opens a download.
LEMMA CommandStep ==
    ASSUME Inv, NEW cmd \in Commands, NEW size \in Nat, NEW r,
           fastboot_handle_command(cmd, size, r)
    PROVE  Inv'
<1> USE DEF Inv, DownloadInv, StagedIntactUnlessCleared, StagedIntact
<1>s. state = "COMMAND"
  BY DEF fastboot_handle_command
<1>u. CASE UNCHANGED session
  BY <1>u DEF session, TypeOK
<1>1. CASE fastboot_cmd_continue(r)
  BY <1>1 DEF fastboot_cmd_continue, staging, TypeOK
<1>2. CASE fastboot_cmd_upload(r)
  BY ZeroFits, <1>u, <1>2, <1>s DEF fastboot_cmd_upload, fastboot_reset_staging, TypeOK
<1>3. CASE fastboot_cmd_download(size, r)
  <2>1. CASE Fits(size) /\ fastboot_prepare_download(size)
    <3>1. size \in 0 .. MaxDownload
      BY <2>1 DEF Fits
    <3>2. /\ memory_buffer_len' = size
          /\ download_progress' = 0
          /\ 0 <= size
      BY <2>1, <3>1 DEF fastboot_prepare_download
    <3>3. TypeOK'
      BY ZeroFits, <2>1, <3>1, Zenon DEF fastboot_prepare_download, TypeOK
    <3>4. DownloadInv' /\ StagedIntactUnlessCleared'
      BY <2>1, <3>2, Zenon DEF fastboot_prepare_download
    <3>5. QED
      BY <3>3, <3>4
  <2>2. QED
    BY <1>u, <1>3, <2>1 DEF fastboot_cmd_download
<1>4. CASE fastboot_cmd_flash(r)
  BY <1>u, <1>4 DEF fastboot_cmd_flash
<1>5. CASE fastboot_cmd_oem_sha256(r)
  <2>1. CASE /\ fastboot_reset_staging
             /\ content' = [from |-> "hashed", len |-> 0]
             /\ UNCHANGED <<state, download_progress>>
    <3>1. content' \in [from : Sources, len : 0 .. MaxDownload]
      BY <2>1 DEF Sources
    <3>2. QED
      BY ZeroFits, <2>1, <3>1, <1>s, Zenon DEF fastboot_reset_staging, TypeOK
  <2>2. QED
    BY <1>u, <1>5, <2>1 DEF fastboot_cmd_oem_sha256
<1>6. CASE fastboot_cmd_oem_read_ufs_descriptor(r)
  <2>1. CASE /\ content' = [from |-> "cleared", len |-> 0]
             /\ UNCHANGED <<state, staging, download_progress>>
    BY <2>1 DEF staging, TypeOK, Sources
  <2>2. CASE /\ has_staged_data' = TRUE
             /\ memory_buffer_len' \in 0 .. UFS_DESCRIPTOR_MAX_SIZE
             /\ content' = [from |-> "descriptor", len |-> memory_buffer_len']
             /\ UNCHANGED <<state, download_progress>>
    <3>1. memory_buffer_len' \in 0 .. MaxDownload
      BY <2>2 DEF UFS_DESCRIPTOR_MAX_SIZE
    <3>2. QED
      BY <2>2, <3>1, <1>s DEF TypeOK, Sources
  <2>3. QED
    BY <1>u, <1>6, <2>1, <2>2 DEF fastboot_cmd_oem_read_ufs_descriptor
<1>7. CASE fastboot_cmd_oem_write_ufs_descriptor(r)
  BY ZeroFits, <1>u, <1>7, <1>s DEF fastboot_cmd_oem_write_ufs_descriptor, fastboot_reset_staging, TypeOK
<1>8. CASE fastboot_cmd_reboot(r)
  BY <1>8 DEF fastboot_cmd_reboot, staging, TypeOK
<1>9. CASE fastboot_cmd_reboot_to_target(r)
  <2>1. CASE state' = "REBOOT" /\ UNCHANGED <<staging, download_progress, content>>
    BY <2>1 DEF staging, TypeOK
  <2>2. QED
    BY <1>u, <1>9, <2>1 DEF fastboot_cmd_reboot_to_target
<1>10. CASE OtherCommand(r)
  BY <1>u, <1>10 DEF OtherCommand
<1>11. QED
  BY <1>1, <1>2, <1>3, <1>4, <1>5, <1>6, <1>7, <1>8, <1>9, <1>10
     DEF fastboot_handle_command

\* Every step of a session keeps the invariant.
LEMMA InvStep ==
    Inv /\ [Next]_session => Inv'
<1> SUFFICES ASSUME Inv, [Next]_session PROVE Inv'
  OBVIOUS
<1>1. CASE HandleCommand
  BY <1>1, CommandStep DEF HandleCommand
<1>2. CASE HandleDownload
  BY <1>2, DownloadStep DEF HandleDownload
<1>3. CASE HandleIgnored \/ UNCHANGED session
  BY <1>3 DEF HandleIgnored, IgnorePacket, session, Inv, TypeOK, DownloadInv,
              StagedIntactUnlessCleared, StagedIntact
<1>4. CASE fastboot_reset_session
  BY <1>4 DEF fastboot_reset_session, staging, Inv, TypeOK, DownloadInv,
              StagedIntactUnlessCleared, StagedIntact
<1>5. CASE Disconnect
  BY <1>5 DEF Disconnect, staging, Inv, TypeOK, DownloadInv,
              StagedIntactUnlessCleared, StagedIntact
<1>6. CASE fastboot_init
  BY ZeroFits, <1>6 DEF fastboot_init, fastboot_reset_staging, Inv, TypeOK, DownloadInv,
              StagedIntactUnlessCleared, StagedIntact
<1>7. QED
  BY <1>1, <1>2, <1>3, <1>4, <1>5, <1>6 DEF Next

\* fastboot_init establishes it.
LEMMA InvInit == Init => Inv
<1> SUFFICES ASSUME Init PROVE Inv
  OBVIOUS
<1>1. content \in [from : Sources, len : 0 .. MaxDownload]
  BY DEF Init, Sources
<1>2. QED
  BY ZeroFits, <1>1, Zenon DEF Init, Inv, TypeOK, DownloadInv,
                               StagedIntactUnlessCleared, StagedIntact

-----------------------------------------------------------------------------
(* The theorems.                                                            *)

\* The invariant holds in every state of every session.
THEOREM InvAlways == Spec => []Inv
  BY InvInit, InvStep, PTL DEF Spec

\* Every field of FastbootOps keeps its range; sizes never exceed the staging
\* memory.
THEOREM TypeCorrect == Spec => []TypeOK
<1>1. Inv => TypeOK
  BY DEF Inv
<1>2. QED
  BY <1>1, InvAlways, PTL

\* fastboot_handle_download never computes what is left from a progress that
\* is ahead of the announced size, and never copies past the staging memory.
THEOREM ProgressCorrect == Spec => []ProgressInBuffer
<1>1. Inv => ProgressInBuffer
  BY DEF Inv, TypeOK, DownloadInv, ProgressInBuffer
<1>2. QED
  BY <1>1, InvAlways, PTL

\* Staged data is whole, unless a failed descriptor read has cleared it.
THEOREM StagedCorrect == Spec => []StagedIntactUnlessCleared
<1>1. Inv => StagedIntactUnlessCleared
  BY DEF Inv
<1>2. QED
  BY <1>1, InvAlways, PTL

-----------------------------------------------------------------------------
(* The session over USB.                                                    *)

\* Ownership types, and what makes them inductive: a cable is on the list
\* exactly while it has a usb_dev.
Owned ==
    /\ allocated \subseteq Cables
    /\ alink_devices \subseteq Cables
    /\ fb_session \in Cables \cup {None}
    /\ rebooted \in BOOLEAN
    /\ usb_dev = alink_devices
    /\ usb_dev \subseteq allocated

UsbInv == Owned /\ OneSession /\ NoLeak /\ (fb_session # None => fb_session \in allocated)

\* No cable is known when the first session starts.
LEMMA UsbInvInit == UsbInit => UsbInv
  BY UsbAssumption DEF UsbInit, UsbInv, Owned, OneSession, NoLeak

\* Every step of hot-plugging, polling and the callers keeps ownership right.
LEMMA UsbInvStep == UsbInv /\ [UsbNext]_usbVars => UsbInv'
<1> SUFFICES ASSUME UsbInv, [UsbNext]_usbVars PROVE UsbInv'
  OBVIOUS
<1> USE UsbAssumption DEF UsbInv, Owned, OneSession, NoLeak
<1>1. ASSUME NEW c \in Cables, usb_fastboot_probe(c) PROVE UsbInv'
  BY <1>1 DEF usb_fastboot_probe
<1>2. ASSUME NEW c \in Cables, usb_fastboot_remove(c) PROVE UsbInv'
  <2>1. CASE c \in in_use
    BY <1>2, <2>1 DEF usb_fastboot_remove, Removed
  <2>2. CASE c \notin in_use
    BY <1>2, <2>2 DEF usb_fastboot_remove, Removed
  <2>3. QED
    BY <2>1, <2>2
<1>3. ASSUME NEW c \in Cables, usb_fastboot_dev_poll(c) PROVE UsbInv'
  BY <1>3 DEF usb_fastboot_dev_poll, usb
<1>4. CASE StartSession
  <2>1. PICK c \in Cables : Usable(c) /\ fb_session' = c /\ in_use' = in_use \cup {c}
    BY <1>4 DEF StartSession
  <2>2. fb_session = None /\ UNCHANGED <<allocated, alink_devices, usb_dev, rebooted>>
    BY <1>4 DEF StartSession
  <2>3. QED
    BY <2>1, <2>2 DEF Usable
<1>5. CASE fastboot_release
  <2>1. /\ fb_session # None
        /\ usb_fastboot_release(fb_session)
        /\ fb_session' = None
        /\ rebooted' \in BOOLEAN
        /\ UNCHANGED <<alink_devices, usb_dev>>
    BY <1>5 DEF fastboot_release
  <2>2. CASE fb_session \in usb_dev
    BY <2>1, <2>2 DEF usb_fastboot_release
  <2>3. CASE fb_session \notin usb_dev
    BY <2>1, <2>3 DEF usb_fastboot_release
  <2>4. QED
    BY <2>2, <2>3
<1>6. CASE UNCHANGED usbVars
  BY <1>6 DEF usbVars, usb
<1>7. QED
  BY <1>1, <1>2, <1>3, <1>4, <1>5, <1>6 DEF UsbNext, SessionEnds, UserExits

\* A step of the transport is a step of the session or leaves it alone.
LEMMA SessionStep == [UsbNext]_usbVars => [Next]_session
<1> SUFFICES ASSUME [UsbNext]_usbVars PROVE [Next]_session
  OBVIOUS
<1>1. ASSUME NEW c \in Cables, usb_fastboot_probe(c) PROVE UNCHANGED session
  BY <1>1 DEF usb_fastboot_probe
<1>2. ASSUME NEW c \in Cables, usb_fastboot_remove(c) PROVE [Next]_session
  BY <1>2 DEF usb_fastboot_remove, Removed, Next
<1>3. ASSUME NEW c \in Cables, usb_fastboot_dev_poll(c) PROVE Next
  BY <1>3 DEF usb_fastboot_dev_poll, Next, HandleDownload
<1>4. CASE StartSession
  BY <1>4 DEF StartSession, Next
<1>5. CASE fastboot_release
  BY <1>5 DEF fastboot_release
<1>6. CASE UNCHANGED usbVars
  BY <1>6 DEF usbVars
<1>7. QED
  BY <1>1, <1>2, <1>3, <1>4, <1>5, <1>6 DEF UsbNext, SessionEnds, UserExits

-----------------------------------------------------------------------------
(* The theorems.                                                            *)

\* usb.c hands its packets to a session as FastbootSession has it.
THEOREM UsbRefinesSession == UsbSpec => ImplementsSession
<1>1. UsbInit => Init
  BY DEF UsbInit
<1>2. QED
  BY <1>1, SessionStep, PTL DEF UsbSpec, Spec, ImplementsSession

\* Ownership is right in every state.
THEOREM UsbInvAlways == UsbSpec => []UsbInv
  BY UsbInvInit, UsbInvStep, PTL DEF UsbSpec

\* Fields of the session and ownership sets keep their types.
THEOREM UsbTypeCorrect == UsbSpec => []UsbTypeOK
<1>1. UsbInv /\ TypeOK => UsbTypeOK
  BY UsbAssumption DEF UsbInv, Owned, OneSession, UsbTypeOK
<1>2. QED
  BY <1>1, UsbInvAlways, UsbRefinesSession, TypeCorrect, PTL DEF ImplementsSession

\* usb_fastboot_remove and usb_fastboot_release between them never free a
\* structure that the caller or the list still holds.
THEOREM UsbNoUseAfterFree == UsbSpec => []NoUseAfterFree
<1>1. UsbInv => NoUseAfterFree
  BY DEF UsbInv, Owned, NoUseAfterFree
<1>2. QED
  BY <1>1, UsbInvAlways, PTL

\* Nor do they both leave it to the other.
THEOREM UsbNoLeak == UsbSpec => []NoLeak
<1>1. UsbInv => NoLeak
  BY DEF UsbInv
<1>2. QED
  BY <1>1, UsbInvAlways, PTL

\* A cable is in use exactly while it is plugged in and the caller's session.
THEOREM UsbOneSession == UsbSpec => []OneSession
<1>1. UsbInv => OneSession
  BY DEF UsbInv
<1>2. QED
  BY <1>1, UsbInvAlways, PTL

\* Over USB, too, the download's subtraction never wraps.
THEOREM UsbProgress == UsbSpec => []ProgressInBuffer
  BY UsbRefinesSession, ProgressCorrect, PTL DEF ImplementsSession

\* Over USB, too, what is staged is whole unless a failed descriptor read has
\* cleared it.
THEOREM UsbStaged == UsbSpec => []StagedIntactUnlessCleared
  BY UsbRefinesSession, StagedCorrect, PTL DEF ImplementsSession

\* Together: a device has one owner at any time, for any number of cables.
THEOREM UsbDeviceOwned == UsbSpec => []DeviceOwned
<1>1. UsbTypeOK /\ NoUseAfterFree /\ NoLeak /\ OneSession => DeviceOwned
  BY DEF DeviceOwned
<1>2. QED
  BY <1>1, UsbTypeCorrect, UsbNoUseAfterFree, UsbNoLeak, UsbOneSession, PTL

\* Only a chunk with data in it completes a download over USB, so what a
\* download has staged is not empty.
LEMMA NotEmptyStep == Inv /\ StagedNotEmpty /\ [UsbNext]_usbVars => StagedNotEmpty'
<1> SUFFICES ASSUME Inv, StagedNotEmpty, [UsbNext]_usbVars PROVE StagedNotEmpty'
  OBVIOUS
<1> USE DEF StagedNotEmpty
<1>1. CASE UNCHANGED session
  BY <1>1 DEF session, staging
<1>2. ASSUME NEW c \in Cables, usb_fastboot_remove(c) PROVE StagedNotEmpty'
  BY <1>2, <1>1 DEF usb_fastboot_remove, Removed, Disconnect, staging
<1>3. ASSUME NEW len \in Chunks, NEW r \in Responses, len > 0, fastboot_handle_download(len, r)
      PROVE  StagedNotEmpty'
  <2>1. /\ memory_buffer_len \in Nat /\ download_progress \in Nat
        /\ ~has_staged_data /\ len \in Nat
    BY <1>3, SizeAssumption DEF Inv, DownloadInv, TypeOK, fastboot_handle_download
  <2>2. CASE TooMuch(len)
    BY <1>3, <2>1, <2>2 DEF fastboot_handle_download, staging
  <2>3. CASE ~TooMuch(len) /\ ~Complete(len)
    BY <1>3, <2>1, <2>3 DEF fastboot_handle_download
  <2>4. CASE ~TooMuch(len) /\ Complete(len)
    BY <1>3, <2>1, <2>4 DEF fastboot_handle_download, Complete, Left
  <2>5. QED
    BY <2>2, <2>3, <2>4
<1>4. CASE HandleCommand
  <2>1. PICK cmd \in Commands, size \in Sizes, r \in Responses : fastboot_handle_command(cmd, size, r)
    BY <1>4 DEF HandleCommand
  <2> USE DEF staging
  <2>2. CASE fastboot_cmd_continue(r) \/ fastboot_cmd_reboot(r)
    BY <2>2 DEF fastboot_cmd_continue, fastboot_cmd_reboot
  <2>3. CASE fastboot_cmd_upload(r)
    BY <1>1, <2>3 DEF fastboot_cmd_upload, fastboot_reset_staging
  <2>4. CASE fastboot_cmd_download(size, r)
    BY <1>1, <2>4 DEF fastboot_cmd_download, fastboot_prepare_download
  <2>5. CASE fastboot_cmd_oem_sha256(r)
    BY <1>1, <2>5 DEF fastboot_cmd_oem_sha256, fastboot_reset_staging
  <2>6. CASE fastboot_cmd_oem_read_ufs_descriptor(r)
    <3>1. CASE content' = [from |-> "cleared", len |-> 0]
      BY <3>1
    <3>2. CASE content' = [from |-> "descriptor", len |-> memory_buffer_len']
      BY <3>2
    <3>3. QED
      BY <1>1, <2>6, <3>1, <3>2 DEF fastboot_cmd_oem_read_ufs_descriptor
  <2>7. CASE fastboot_cmd_oem_write_ufs_descriptor(r)
    BY <1>1, <2>7 DEF fastboot_cmd_oem_write_ufs_descriptor, fastboot_reset_staging
  <2>8. CASE fastboot_cmd_reboot_to_target(r)
    BY <1>1, <2>8 DEF fastboot_cmd_reboot_to_target
  <2>9. CASE fastboot_cmd_flash(r) \/ OtherCommand(r)
    BY <1>1, <2>9 DEF fastboot_cmd_flash, OtherCommand
  <2>10. QED
    BY <2>1, <2>2, <2>3, <2>4, <2>5, <2>6, <2>7, <2>8, <2>9 DEF fastboot_handle_command
<1>5. ASSUME NEW c \in Cables, usb_fastboot_dev_poll(c) PROVE StagedNotEmpty'
  BY <1>1, <1>3, <1>4, <1>5 DEF usb_fastboot_dev_poll, Handled, HandleIgnored, IgnorePacket
<1>6. CASE StartSession
  BY <1>6 DEF StartSession, fastboot_init, fastboot_reset_staging
<1>7. CASE fastboot_release
  BY <1>1, <1>7 DEF fastboot_release
<1>8. ASSUME NEW c \in Cables, usb_fastboot_probe(c) PROVE StagedNotEmpty'
  BY <1>1, <1>8 DEF usb_fastboot_probe
<1>9. CASE UNCHANGED usbVars
  BY <1>1, <1>9 DEF usbVars
<1>10. QED
  BY <1>2, <1>5, <1>6, <1>7, <1>8, <1>9 DEF UsbNext, SessionEnds, UserExits

\* Over USB the download in progress fits, and what is staged is whole and not
\* empty.
THEOREM UsbDownloadsWhole == UsbSpec => []DownloadsWhole
<1>1. UsbInit => StagedNotEmpty
  BY DEF UsbInit, Init, StagedNotEmpty
<1>2. UsbSpec => []Inv
  BY UsbRefinesSession, InvAlways, PTL DEF ImplementsSession
<1>3. UsbSpec => []StagedNotEmpty
  BY <1>1, <1>2, NotEmptyStep, PTL DEF UsbSpec
<1>4. ProgressInBuffer /\ StagedIntactUnlessCleared /\ StagedNotEmpty => DownloadsWhole
  BY DEF DownloadsWhole
<1>5. QED
  BY <1>3, <1>4, UsbProgress, UsbStaged, PTL

-----------------------------------------------------------------------------
(* The disk: induction on numbers, and the offsets of the chunks.           *)

HIDE DEF SessionAssumption, SizeAssumption

\* A set of numbers with 0 and the successor of each of its members has them all.
LEMMA InSteps ==
    ASSUME NEW S, 0 \in S, \A n \in Nat : n \in S => n + 1 \in S
    PROVE  \A n \in Nat : n \in S
<1> DEFINE R == {ss \in Nat \X Nat : ss[1] < ss[2]}
           T == Nat \ S
<1>1. IsWellFoundedOn(R, Nat)
  <2>1. R = OpToRel(<, Nat)
    BY DEF OpToRel
  <2>2. QED
    BY NatLessThanWellFounded, <2>1
<1>2. ASSUME T # {}
      PROVE  FALSE
  <2> HIDE DEF R
  <2>1. T \subseteq Nat
    OBVIOUS
  <2> HIDE DEF T
  <2>2. PICK n \in T : \A m \in T : ~ (<<m, n>> \in R)
    BY <1>1, <1>2, <2>1, WFMin
  <2>3. n \in Nat /\ n \notin S /\ n # 0
    BY <2>2 DEF T
  <2>4. n - 1 \in Nat /\ (n - 1) + 1 = n
    BY <2>3
  <2>5. <<n - 1, n>> \in R
    BY <2>3, <2>4 DEF R
  <2>6. n - 1 \in S
    BY <2>2, <2>4, <2>5 DEF T
  <2>7. QED
    BY <2>3, <2>4, <2>6
<1>3. QED
  BY <1>2

\* g has the sums of the first sizes.
Sums(sz, n, g) == \A k \in 0..n : g[k] = IF k = 0 THEN 0 ELSE g[k - 1] + sz[k]

\* Sums of sizes exist, up to every number of chunks.
LEMMA SumsExist ==
    ASSUME NEW L \in Nat, NEW sz \in [1..L -> Nat]
    PROVE  \E g \in [0..L -> Nat] : Sums(sz, L, g)
<1> DEFINE S == {n \in Nat : n <= L => \E g \in [0..n -> Nat] : Sums(sz, n, g)}
<1>1. 0 \in S
  <2>1. [k \in 0..0 |-> 0] \in [0..0 -> Nat] /\ Sums(sz, 0, [k \in 0..0 |-> 0])
    BY DEF Sums
  <2>2. QED
    BY <2>1
<1>2. ASSUME NEW n \in Nat, n \in S
      PROVE  n + 1 \in S
  <2>1. SUFFICES ASSUME n + 1 <= L
                 PROVE  \E g \in [0..n + 1 -> Nat] : Sums(sz, n + 1, g)
    OBVIOUS
  <2>2. PICK g \in [0..n -> Nat] : Sums(sz, n, g)
    BY <1>2, <2>1
  <2> DEFINE h == [k \in 0..n + 1 |-> IF k = n + 1 THEN g[n] + sz[n + 1] ELSE g[k]]
  <2>3. h \in [0..n + 1 -> Nat]
    BY <2>1
  <2>4. ASSUME NEW k \in 0..n + 1
        PROVE  h[k] = IF k = 0 THEN 0 ELSE h[k - 1] + sz[k]
    <3>1. CASE k = n + 1
      BY <3>1
    <3>2. CASE k \in 0..n
      BY <2>2, <3>2 DEF Sums
    <3>3. QED
      BY <3>1, <3>2
  <2>5. QED
    BY <2>3, <2>4 DEF Sums
<1>3. L \in S
  <2> HIDE DEF S
  <2>1. QED
    BY <1>1, <1>2, InSteps
<1>4. QED
  BY <1>3

\* The images that are sparse.
SparseImages == {img \in Images : IsSparse(img)}

\* The parts of a sparse image.
LEMMA SparseType ==
    ASSUME NEW img \in SparseImages
    PROVE  /\ img.chunks \in Seq(ChunkRecords)
           /\ img.blk \in Nat
           /\ img.size \in Nat
           /\ img.hdr_ok \in BOOLEAN
           /\ Len(img.chunks) \in Nat
           /\ \A i \in 1..Len(img.chunks) :
                /\ img.chunks[i] \in ChunkRecords
                /\ img.chunks[i].total < ChunkHeader
                   \/ img.chunks[i].total = ChunkHeader + Len(img.chunks[i].data)
<1>1. img \notin [plain : Seq(Byte)]
  BY DEF SparseImages, IsSparse
<1>2. img \in [hdr_ok : BOOLEAN, blk : Nat, size : Nat, chunks : Seq(ChunkRecords)]
  BY <1>1, DiskAssumption DEF SparseImages
<1>3. \A i \in DOMAIN img.chunks :
         LET c == img.chunks[i]
         IN c.total < ChunkHeader \/ c.total = ChunkHeader + Len(c.data)
  BY <1>1, DiskAssumption DEF SparseImages
<1>4. QED
  BY <1>2, <1>3

\* A chunk's size is a number.
LEMMA ChunkSizeType ==
    ASSUME NEW img \in SparseImages, NEW i \in 1..Len(img.chunks)
    PROVE  ChunkSize(img, i) \in Nat
<1>1. img.chunks[i].blks \in Nat /\ img.blk \in Nat
  BY SparseType DEF ChunkRecords
<1>2. QED
  BY <1>1 DEF ChunkSize

\* The first chunk starts at 0 and each next one where the one before it ends.
LEMMA ChunkStarts ==
    ASSUME NEW img \in SparseImages
    PROVE  /\ ChunkStart(img, 1) = 0
           /\ \A i \in 1..Len(img.chunks) + 1 : ChunkStart(img, i) \in Nat
           /\ \A i \in 1..Len(img.chunks) :
                 ChunkStart(img, i + 1) = ChunkStart(img, i) + ChunkSize(img, i)
<1> DEFINE L == Len(img.chunks)
           sz == [i \in 1..L |-> ChunkSize(img, i)]
           Fix(g) == g = [n \in 0..L |-> IF n = 0 THEN 0 ELSE g[n - 1] + ChunkSize(img, n)]
           f == CHOOSE g : Fix(g)
<1>1. L \in Nat /\ sz \in [1..L -> Nat]
  BY SparseType, ChunkSizeType
<1>2. PICK g \in [0..L -> Nat] : Sums(sz, L, g)
  BY <1>1, SumsExist
<1>3. Fix(g)
  <2>1. \A n \in 0..L : g[n] = IF n = 0 THEN 0 ELSE g[n - 1] + ChunkSize(img, n)
    <3>1. SUFFICES ASSUME NEW n \in 0..L
                   PROVE  g[n] = IF n = 0 THEN 0 ELSE g[n - 1] + ChunkSize(img, n)
      OBVIOUS
    <3>2. g[n] = IF n = 0 THEN 0 ELSE g[n - 1] + sz[n]
      BY <1>2 DEF Sums
    <3>3. n # 0 => sz[n] = ChunkSize(img, n)
      BY <1>1
    <3>4. QED
      BY <3>2, <3>3
  <2>2. QED
    BY <2>1
<1>4. Fix(f)
  <2> HIDE DEF Fix
  <2>1. QED
    BY <1>3
<1>5. \A i \in 1..L + 1 : ChunkStart(img, i) = f[i - 1]
  BY DEF ChunkStart
<1> HIDE DEF f
<1>6. f = [n \in 0..L |-> IF n = 0 THEN 0 ELSE f[n - 1] + ChunkSize(img, n)]
  BY <1>4
<1> HIDE DEF Fix
<1>7. f[0] = 0 /\ \A n \in 1..L : f[n] = f[n - 1] + ChunkSize(img, n)
  <2> HIDE DEF L
  <2>1. 0 \in 0..L /\ \A n \in 1..L : n \in 0..L /\ n # 0
    BY <1>1
  <2>2. \A n \in 0..L : f[n] = IF n = 0 THEN 0 ELSE f[n - 1] + ChunkSize(img, n)
    BY <1>6, Zenon
  <2>3. QED
    BY <2>1, <2>2
<1>8. \A n \in 0..L : f[n] \in Nat
  <2> DEFINE S == {n \in Nat : n <= L => f[n] \in Nat}
  <2>1. 0 \in S
    BY <1>7
  <2>2. \A n \in Nat : n \in S => n + 1 \in S
    BY <1>1, <1>7, ChunkSizeType
  <2>3. \A n \in Nat : n \in S
    <3> HIDE DEF S
    <3>1. QED
      BY <2>1, <2>2, InSteps
  <2>4. QED
    BY <1>1, <2>3
<1>9. ChunkStart(img, 1) = 0
  BY <1>1, <1>5, <1>7
<1>10. \A i \in 1..L + 1 : ChunkStart(img, i) \in Nat
  <2>1. \A i \in 1..L + 1 : i - 1 \in 0..L
    BY <1>1
  <2>2. QED
    BY <1>5, <1>8, <2>1
<1>11. ASSUME NEW i \in 1..L
       PROVE  ChunkStart(img, i + 1) = ChunkStart(img, i) + ChunkSize(img, i)
  <2>1. i \in 1..L + 1 /\ i + 1 \in 1..L + 1 /\ (i + 1) - 1 = i
    BY <1>1
  <2>2. ChunkStart(img, i) = f[i - 1] /\ ChunkStart(img, i + 1) = f[i]
    BY <1>5, <2>1
  <2>3. QED
    BY <1>7, <2>2
<1>12. QED
  BY <1>9, <1>10, <1>11

\* Later chunks start later.
LEMMA ChunkStartsUp ==
    ASSUME NEW img \in SparseImages,
           NEW i \in 1..Len(img.chunks) + 1, NEW j \in 1..Len(img.chunks) + 1, i <= j
    PROVE  ChunkStart(img, i) <= ChunkStart(img, j)
<1> DEFINE L == Len(img.chunks)
           S == {n \in Nat : i + n <= L + 1 => ChunkStart(img, i) <= ChunkStart(img, i + n)}
<1>1. L \in Nat
  BY SparseType
<1>2. 0 \in S
  BY ChunkStarts
<1>3. ASSUME NEW n \in Nat, n \in S
      PROVE  n + 1 \in S
  <2>1. SUFFICES ASSUME i + (n + 1) <= L + 1
                 PROVE  ChunkStart(img, i) <= ChunkStart(img, i + (n + 1))
    OBVIOUS
  <2>2. i + n \in 1..L /\ (i + n) + 1 = i + (n + 1)
    BY <1>1, <2>1
  <2>3. ChunkStart(img, (i + n) + 1) = ChunkStart(img, i + n) + ChunkSize(img, i + n)
    BY <2>2, ChunkStarts
  <2>4. ChunkStart(img, i) <= ChunkStart(img, i + n)
    BY <1>3, <2>2
  <2>5. /\ ChunkStart(img, i) \in Nat /\ ChunkStart(img, i + n) \in Nat
        /\ ChunkSize(img, i + n) \in Nat
    BY <1>1, <2>2, ChunkStarts, ChunkSizeType
  <2>6. QED
    BY <2>2, <2>3, <2>4, <2>5
<1>4. j - i \in Nat /\ i + (j - i) = j
  BY <1>1
<1>5. j - i \in S
  <2> HIDE DEF S
  <2>1. QED
    BY <1>2, <1>3, <1>4, InSteps
<1>6. QED
  BY <1>1, <1>4, <1>5

-----------------------------------------------------------------------------
(* Byte writes.                                                             *)

Disks == [Bytes -> Byte]

\* Addresses are numbers.
LEMMA BytesNat == Bytes \subseteq Nat /\ \A a \in Bytes : a \in Nat
  BY DiskAssumption

\* The bytes of a part of a sequence.
LEMMA PartOf ==
    ASSUME NEW data \in Seq(Byte), NEW h \in Nat, NEW k \in Nat, h + k <= Len(data)
    PROVE  /\ SubSeq(data, h + 1, h + k) \in Seq(Byte)
           /\ Len(SubSeq(data, h + 1, h + k)) = k
           /\ \A i \in 1..k : SubSeq(data, h + 1, h + k)[i] = data[h + i]
  OBVIOUS

\* The smaller of two numbers.
LEMMA Lesser ==
    ASSUME NEW a \in Int, NEW b \in Int
    PROVE  /\ Min({a, b}) \in {a, b}
           /\ Min({a, b}) <= a
           /\ Min({a, b}) <= b
<1>1. \E x \in {a, b} : \A y \in {a, b} : x <= y
  OBVIOUS
<1>2. QED
  BY <1>1 DEF Min

\* The quotient and the remainder.
LEMMA Quotient ==
    ASSUME NEW a \in Nat, NEW m \in Nat, m > 0
    PROVE  a \div m \in Nat /\ a = m * (a \div m) + (a % m)
OBVIOUS

\* The quotient and the remainder by the size of a block.
LEMMA Blocks ==
    ASSUME NEW a \in Nat
    PROVE  /\ a \div BlockSize \in Nat
           /\ a % BlockSize \in 0..BlockSize - 1
           /\ a = (a \div BlockSize) * BlockSize + (a % BlockSize)
<1>1. BlockSize \in Nat /\ BlockSize > 1
  BY DiskAssumption
<1>2. \A n \in Nat : n > 0 => a % n \in 0..n - 1
  OBVIOUS
<1>3. a \div BlockSize \in Nat /\ a % BlockSize \in 0..BlockSize - 1
       /\ a = BlockSize * (a \div BlockSize) + (a % BlockSize)
  BY <1>1, <1>2, Quotient
<1>4. BlockSize * (a \div BlockSize) = (a \div BlockSize) * BlockSize
  BY <1>1, <1>3
<1>5. QED
  BY <1>3, <1>4

\* The first whole block starts at the address, or after the rest of the block it is in.
LEMMA FirstWholeStarts ==
    ASSUME NEW a \in Nat
    PROVE  /\ FirstWhole(a) \in Nat
           /\ a % BlockSize = 0 => FirstWhole(a) * BlockSize = a
           /\ a % BlockSize # 0 => FirstWhole(a) * BlockSize = a + BlockSize - (a % BlockSize)
<1>1. BlockSize \in Nat /\ BlockSize > 1
  BY DiskAssumption
<1> DEFINE q == a \div BlockSize
           r == a % BlockSize
           b == a + BlockSize - 1
           p == b \div BlockSize
           s == b % BlockSize
<1>2. q \in Nat /\ r \in 0..BlockSize - 1 /\ a = q * BlockSize + r
  BY Blocks
<1>3. b \in Nat
  BY <1>1
<1>4. p \in Nat /\ s \in 0..BlockSize - 1 /\ b = p * BlockSize + s
  BY <1>3, Blocks
<1>5. FirstWhole(a) = p
  BY DEF FirstWhole
<1>r. r = a % BlockSize
  OBVIOUS
<1> HIDE DEF q, r, p, s
<1>6. p * BlockSize + s = q * BlockSize + r + BlockSize - 1
  BY <1>2, <1>3, <1>4
<1>7. CASE r = 0
  <2>1. (p - q) * BlockSize = BlockSize - 1 - s
    BY <1>1, <1>2, <1>4, <1>6, <1>7
  <2>2. p - q = 0
    <3>1. CASE p - q >= 1
      <4>1. (p - q) * BlockSize >= BlockSize
        BY <1>1, <1>2, <1>4, <3>1
      <4>2. QED
        BY <1>1, <1>2, <1>4, <2>1, <4>1
    <3>2. CASE p - q <= -1
      <4>1. (p - q) * BlockSize <= -BlockSize
        BY <1>1, <1>2, <1>4, <3>2
      <4>2. QED
        BY <1>1, <1>2, <1>4, <2>1, <4>1
    <3>3. QED
      BY <1>2, <1>4, <3>1, <3>2
  <2>3. p = q
    BY <1>2, <1>4, <2>2
  <2>4. p * BlockSize = a
    BY <1>1, <1>2, <1>7, <2>3
  <2>5. QED
    BY <1>4, <1>5, <1>7, <1>r, <2>4
<1>8. CASE r # 0
  <2>1. (p - q) * BlockSize = r + BlockSize - 1 - s
    BY <1>1, <1>2, <1>4, <1>6
  <2>2. p - q = 1
    <3>1. CASE p - q >= 2
      <4>1. (p - q) * BlockSize >= 2 * BlockSize
        BY <1>1, <1>2, <1>4, <3>1
      <4>2. QED
        BY <1>1, <1>2, <1>4, <2>1, <4>1
    <3>2. CASE p - q <= 0
      <4>1. (p - q) * BlockSize <= 0
        BY <1>1, <1>2, <1>4, <3>2
      <4>2. QED
        BY <1>1, <1>2, <1>4, <1>8, <2>1, <4>1
    <3>3. QED
      BY <1>2, <1>4, <3>1, <3>2
  <2>3. p = q + 1
    BY <1>2, <1>4, <2>2
  <2>4. p * BlockSize = q * BlockSize + BlockSize
    BY <1>1, <1>2, <2>3
  <2>5. QED
    <3>1. p * BlockSize = a + BlockSize - r
      BY <1>1, <1>2, <2>4
    <3>2. QED
      BY <1>2, <1>4, <1>5, <1>8, <1>r, <3>1
<1>9. QED
  BY <1>7, <1>8

\* The block of a byte by its place in it.
LEMMA InBlock ==
    ASSUME NEW q \in Nat, NEW x \in 0..BlockSize - 1
    PROVE  q * BlockSize + x \in Nat /\ (q * BlockSize + x) \div BlockSize = q
<1>1. BlockSize \in Nat /\ BlockSize > 1
  BY DiskAssumption
<1>2. PICK a \in Nat : a = q * BlockSize + x
  BY <1>1
<1>3. /\ a \div BlockSize \in Nat /\ a % BlockSize \in 0..BlockSize - 1
      /\ a = (a \div BlockSize) * BlockSize + (a % BlockSize)
  BY Blocks
<1>4. PICK p \in Nat, y \in 0..BlockSize - 1 :
         p = a \div BlockSize /\ a = p * BlockSize + y
  BY <1>3
<1>5. (p - q) * BlockSize = x - y
  BY <1>1, <1>2, <1>4
<1>6. CASE p - q >= 1
  <2>1. (p - q) * BlockSize >= BlockSize
    BY <1>1, <1>6
  <2>2. QED
    BY <1>1, <1>5, <2>1
<1>7. CASE p - q <= -1
  <2>1. (p - q) * BlockSize <= -BlockSize
    BY <1>1, <1>7
  <2>2. QED
    BY <1>1, <1>5, <2>1
<1>8. QED
  BY <1>2, <1>4, <1>6, <1>7

\* The blocks of whole blocks.
LEMMA WholeBlocks ==
    ASSUME NEW q \in Nat
    PROVE  /\ q * BlockSize \in Nat
           /\ (q * BlockSize) \div BlockSize = q
           /\ \A x \in Nat : x < q * BlockSize <=> x \div BlockSize < q
<1>1. BlockSize \in Nat /\ BlockSize > 1
  BY DiskAssumption
<1>2. q * BlockSize \in Nat /\ (q * BlockSize) \div BlockSize = q
  BY <1>1, InBlock
<1>3. ASSUME NEW x \in Nat
      PROVE  x < q * BlockSize <=> x \div BlockSize < q
  <2>1. PICK p \in Nat, y \in 0..BlockSize - 1 : p = x \div BlockSize /\ x = p * BlockSize + y
    BY Blocks
  <2>2. CASE p < q
    <3>1. p + 1 <= q
      BY <2>2
    <3>2. (p + 1) * BlockSize <= q * BlockSize
      BY <1>1, <3>1
    <3>3. (p + 1) * BlockSize = p * BlockSize + BlockSize
      BY <1>1
    <3>4. QED
      BY <1>1, <1>2, <2>1, <2>2, <3>2, <3>3
  <2>3. CASE p >= q
    <3>1. p * BlockSize >= q * BlockSize
      BY <1>1, <2>3
    <3>2. QED
      BY <1>1, <1>2, <2>1, <2>3, <3>1
  <2>4. QED
    BY <2>2, <2>3
<1>4. QED
  BY <1>2, <1>3

\* A byte of a block of the disk is on the disk.
LEMMA SameBlock ==
    ASSUME NEW a \in Bytes, NEW b \in Nat, a \div BlockSize = b \div BlockSize
    PROVE  b \in Bytes
<1>1. BlockCount \in Nat /\ Bytes = 0..BlockCount * BlockSize - 1 /\ a \in Nat
  BY DiskAssumption, BytesNat
<1>2. BlockCount * BlockSize \in Nat
  BY <1>1, WholeBlocks
<1>3. a < BlockCount * BlockSize
  BY <1>1, <1>2
<1>4. b < BlockCount * BlockSize
  BY <1>1, <1>3, WholeBlocks
<1>5. QED
  BY <1>1, <1>2, <1>4

\* What Patch leaves, byte by byte.
LEMMA PatchIs ==
    ASSUME NEW d \in Disks, NEW addr \in Nat, NEW data \in Seq(Byte)
    PROVE  /\ Patch(d, addr, data) \in Disks
           /\ \A a \in Bytes : Patch(d, addr, data)[a]
                 = IF addr <= a /\ a < addr + Len(data) THEN data[a - addr + 1] ELSE d[a]
<1>1. DOMAIN d = Bytes /\ Len(data) \in Nat
  BY DEF Disks
<1>2. ASSUME NEW a \in Bytes
      PROVE  /\ a \in addr..addr + Len(data) - 1 <=> addr <= a /\ a < addr + Len(data)
             /\ a \in addr..addr + Len(data) - 1 => data[a - addr + 1] \in Byte
             /\ d[a] \in Byte
  <2>1. a \in Nat /\ d[a] \in Byte
    BY BytesNat DEF Disks
  <2>2. a \in addr..addr + Len(data) - 1 => a - addr + 1 \in 1..Len(data)
    BY <1>1, <2>1
  <2>3. QED
    BY <1>1, <2>1, <2>2
<1>3. Patch(d, addr, data) \in Disks
  BY <1>1, <1>2 DEF Patch, Disks
<1>4. \A a \in Bytes : Patch(d, addr, data)[a]
        = IF addr <= a /\ a < addr + Len(data) THEN data[a - addr + 1] ELSE d[a]
  BY <1>1, <1>2 DEF Patch
<1>5. QED
  BY <1>3, <1>4

\* Disks with the same bytes are the same.
LEMMA SameDisk ==
    ASSUME NEW d \in Disks, NEW e \in Disks, \A a \in Bytes : d[a] = e[a]
    PROVE  d = e
  BY DEF Disks

\* Byte a is in a block of the n bytes at addr.
Near(a, addr, n) == \E b \in addr..addr + n - 1 : a \div BlockSize = b \div BlockSize

\* What a write of data at addr may leave of disk d, whatever fails: it changes blocks of the
\* data only; if nothing failed unnoticed every byte is old or new; and then, if it counts
\* as written, all are new.
Outcome(d, addr, data, r) ==
    /\ r.disk \in Disks
    /\ r.written \in 0..Len(data)
    /\ r.unnoticed \in BOOLEAN
    /\ \A a \in Bytes : r.disk[a] = d[a] \/ Near(a, addr, Len(data))
    /\ ~ r.unnoticed =>
         /\ \A a \in Bytes : r.disk[a] = d[a] \/ r.disk[a] = Patch(d, addr, data)[a]
         /\ r.written = Len(data) => r.disk = Patch(d, addr, data)

\* The data is the first h of its bytes and the rest.
CutAt(data, h, p, q) ==
    /\ Len(p) = h
    /\ Len(data) = h + Len(q)
    /\ \A i \in 1..h : p[i] = data[i]
    /\ \A i \in 1..Len(q) : q[i] = data[h + i]

\* Bytes written together or in two parts.
LEMMA PatchTwo ==
    ASSUME NEW d \in Disks, NEW addr \in Nat, NEW data \in Seq(Byte), NEW h \in Nat,
           NEW p \in Seq(Byte), NEW q \in Seq(Byte), CutAt(data, h, p, q)
    PROVE  /\ Patch(Patch(d, addr, p), addr + h, q) = Patch(d, addr, data)
           /\ \A a \in Bytes : Patch(d, addr, p)[a] = d[a]
                               \/ Patch(d, addr, p)[a] = Patch(d, addr, data)[a]
<1> DEFINE e == Patch(d, addr, p)
           k == Len(q)
<1>1. /\ addr + h \in Nat /\ k \in Nat
      /\ Len(p) = h /\ Len(data) = h + k
      /\ \A i \in 1..h : p[i] = data[i]
      /\ \A i \in 1..k : q[i] = data[h + i]
  BY DEF CutAt
<1>2. e \in Disks /\ Patch(e, addr + h, q) \in Disks /\ Patch(d, addr, data) \in Disks
  BY <1>1, PatchIs
<1>3. ASSUME NEW a \in Bytes
      PROVE  /\ e[a] = IF addr <= a /\ a < addr + h THEN data[a - addr + 1] ELSE d[a]
             /\ Patch(e, addr + h, q)[a] = IF addr + h <= a /\ a < addr + h + k
                                           THEN data[a - addr + 1] ELSE e[a]
             /\ Patch(d, addr, data)[a] = IF addr <= a /\ a < addr + h + k
                                          THEN data[a - addr + 1] ELSE d[a]
  <2>1. a \in Nat
    BY BytesNat
  <2>2. e[a] = IF addr <= a /\ a < addr + h THEN p[a - addr + 1] ELSE d[a]
    <3>1. e[a] = IF addr <= a /\ a < addr + Len(p) THEN p[a - addr + 1] ELSE d[a]
      BY PatchIs
    <3>2. Len(p) = h
      BY <1>1
    <3> HIDE DEF e
    <3>3. QED
      BY <3>1, <3>2
  <2>3. addr <= a /\ a < addr + h => p[a - addr + 1] = data[a - addr + 1]
    <3>1. addr <= a /\ a < addr + h => a - addr + 1 \in 1..h
      BY <2>1
    <3>2. QED
      BY <1>1, <3>1
  <2> HIDE DEF e
  <2>4. Patch(e, addr + h, q)[a]
          = IF addr + h <= a /\ a < addr + h + k THEN q[a - (addr + h) + 1] ELSE e[a]
    BY <1>1, <1>2, PatchIs
  <2>5. addr + h <= a /\ a < addr + h + k => q[a - (addr + h) + 1] = data[a - addr + 1]
    <3>1. addr + h <= a /\ a < addr + h + k =>
            a - (addr + h) + 1 \in 1..k /\ h + (a - (addr + h) + 1) = a - addr + 1
      BY <1>1, <2>1
    <3>2. QED
      BY <1>1, <3>1
  <2>6. Patch(d, addr, data)[a]
          = IF addr <= a /\ a < addr + Len(data) THEN data[a - addr + 1] ELSE d[a]
    BY PatchIs
  <2>7. addr + Len(data) = addr + h + k
    BY <1>1
  <2>8. QED
    BY <2>2, <2>3, <2>4, <2>5, <2>6, <2>7
<1> HIDE DEF e, k
<1>4. \A a \in Bytes : Patch(e, addr + h, q)[a] = Patch(d, addr, data)[a]
  <2>1. SUFFICES ASSUME NEW a \in Bytes
                 PROVE  Patch(e, addr + h, q)[a] = Patch(d, addr, data)[a]
    OBVIOUS
  <2>2. a \in Nat
    BY BytesNat
  <2>3. CASE addr <= a /\ a < addr + h
    BY <1>1, <1>3, <2>2, <2>3
  <2>4. CASE addr + h <= a /\ a < addr + h + k
    BY <1>1, <1>3, <2>2, <2>4
  <2>5. CASE a < addr \/ addr + h + k <= a
    BY <1>1, <1>3, <2>2, <2>5
  <2>6. QED
    BY <1>1, <2>2, <2>3, <2>4, <2>5
<1>5. \A a \in Bytes : e[a] = d[a] \/ e[a] = Patch(d, addr, data)[a]
  <2>1. SUFFICES ASSUME NEW a \in Bytes
                 PROVE  e[a] = d[a] \/ e[a] = Patch(d, addr, data)[a]
    OBVIOUS
  <2>2. a \in Nat
    BY BytesNat
  <2>3. CASE addr <= a /\ a < addr + h
    BY <1>1, <1>3, <2>2, <2>3
  <2>4. CASE ~ (addr <= a /\ a < addr + h)
    BY <1>3, <2>4
  <2>5. QED
    BY <2>3, <2>4
<1>6. Patch(e, addr + h, q) = Patch(d, addr, data)
  BY <1>2, <1>4, SameDisk
<1>7. QED
  BY <1>5, <1>6 DEF e

\* Bytes near a part are near the whole.
LEMMA NearWhole ==
    ASSUME NEW a, NEW addr \in Nat, NEW h \in Nat, NEW k \in Nat
    PROVE  /\ Near(a, addr, h) => Near(a, addr, h + k)
           /\ Near(a, addr + h, k) => Near(a, addr, h + k)
<1>1. /\ \A b \in addr..addr + h - 1 : b \in addr..addr + (h + k) - 1
      /\ \A b \in addr + h..addr + h + k - 1 : b \in addr..addr + (h + k) - 1
  OBVIOUS
<1>2. QED
  BY <1>1 DEF Near

\* Writing nothing.
LEMMA NothingOutcome ==
    ASSUME NEW d \in Disks, NEW addr \in Nat, NEW data \in Seq(Byte), NEW r \in Nothing(d)
    PROVE  Outcome(d, addr, data, r)
<1>1. r = [disk |-> d, written |-> 0, unnoticed |-> FALSE]
  BY DEF Nothing
<1>2. r.disk = d /\ r.written = 0 /\ r.unnoticed = FALSE /\ Len(data) \in Nat
  BY <1>1
<1>3. Len(data) = 0 => Patch(d, addr, data) = d
  <2>1. SUFFICES ASSUME Len(data) = 0
                 PROVE  \A a \in Bytes : Patch(d, addr, data)[a] = d[a]
    BY PatchIs, SameDisk
  <2>2. \A a \in Bytes : ~ (addr <= a /\ a < addr + Len(data))
    BY <2>1, BytesNat
  <2>3. QED
    BY <2>2, PatchIs
<1>4. r.written \in 0..Len(data)
  BY <1>2
<1>8. r.unnoticed \in BOOLEAN
  BY <1>1
<1>5. r.written = Len(data) => r.disk = Patch(d, addr, data)
  BY <1>2, <1>3
<1>6. r.disk \in Disks /\ \A a \in Bytes : r.disk[a] = d[a]
  BY <1>2
<1>7. QED
  BY <1>4, <1>5, <1>6, <1>8 DEF Outcome

\* A piece that does not count as written ends the write.
LEMMA OutcomeStops ==
    ASSUME NEW d \in Disks, NEW addr \in Nat, NEW data \in Seq(Byte), NEW h \in Nat,
           NEW p \in Seq(Byte), NEW q \in Seq(Byte), CutAt(data, h, p, q),
           NEW r, Outcome(d, addr, p, r), r.written # h
    PROVE  Outcome(d, addr, data, r)
<1>1. Len(p) = h /\ Len(q) \in Nat /\ Len(data) = h + Len(q)
  BY DEF CutAt
<1>2. r.disk \in Disks /\ r.unnoticed \in BOOLEAN
  BY DEF Outcome
<1>3. r.written \in 0..Len(data) /\ r.written # Len(data)
  <2>1. r.written \in 0..h
    BY <1>1 DEF Outcome
  <2>2. QED
    BY <1>1, <2>1
<1>4. ASSUME NEW a \in Bytes
      PROVE  r.disk[a] = d[a] \/ Near(a, addr, Len(data))
  <2>1. r.disk[a] = d[a] \/ Near(a, addr, h)
    BY <1>1 DEF Outcome
  <2>2. QED
    BY <1>1, <2>1, NearWhole
<1>5. ASSUME ~ r.unnoticed, NEW a \in Bytes
      PROVE  r.disk[a] = d[a] \/ r.disk[a] = Patch(d, addr, data)[a]
  <2>1. r.disk[a] = d[a] \/ r.disk[a] = Patch(d, addr, p)[a]
    BY <1>5 DEF Outcome
  <2>2. QED
    BY <2>1, PatchTwo
<1>6. QED
  BY <1>2, <1>3, <1>4, <1>5 DEF Outcome

\* Going on after a piece that counts as written.
LEMMA OutcomeGoesOn ==
    ASSUME NEW d \in Disks, NEW addr \in Nat, NEW data \in Seq(Byte), NEW h \in Nat,
           NEW p \in Seq(Byte), NEW q \in Seq(Byte), CutAt(data, h, p, q),
           NEW r, Outcome(d, addr, p, r), r.written = h,
           NEW s, Outcome(r.disk, addr + h, q, s)
    PROVE  Outcome(d, addr, data, [disk |-> s.disk, written |-> r.written + s.written,
                                   unnoticed |-> r.unnoticed \/ s.unnoticed])
<1> DEFINE t == [disk |-> s.disk, written |-> r.written + s.written,
                 unnoticed |-> r.unnoticed \/ s.unnoticed]
           k == Len(q)
<1>1. Len(p) = h /\ k \in Nat /\ Len(data) = h + k
  BY DEF CutAt
<1>2. /\ r.disk \in Disks /\ r.unnoticed \in BOOLEAN
      /\ s.disk \in Disks /\ s.unnoticed \in BOOLEAN /\ s.written \in 0..k
  BY DEF Outcome
<1>3. /\ t.disk = s.disk /\ t.written = h + s.written
      /\ t.unnoticed = (r.unnoticed \/ s.unnoticed)
  OBVIOUS
<1> HIDE DEF t
<1>4. /\ t.written \in 0..Len(data) /\ t.unnoticed \in BOOLEAN
      /\ t.written = Len(data) => s.written = k
  BY <1>1, <1>2, <1>3
<1>5. ASSUME NEW a \in Bytes
      PROVE  t.disk[a] = d[a] \/ Near(a, addr, Len(data))
  <2>1. r.disk[a] = d[a] \/ Near(a, addr, h)
    BY <1>1 DEF Outcome
  <2>2. s.disk[a] = r.disk[a] \/ Near(a, addr + h, k)
    BY DEF Outcome
  <2>3. QED
    BY <1>1, <1>3, <2>1, <2>2, NearWhole
<1>6. ASSUME ~ t.unnoticed
      PROVE  /\ \A a \in Bytes : t.disk[a] = d[a] \/ t.disk[a] = Patch(d, addr, data)[a]
             /\ t.written = Len(data) => t.disk = Patch(d, addr, data)
  <2>1. ~ r.unnoticed /\ ~ s.unnoticed
    BY <1>3, <1>6
  <2>2. r.disk = Patch(d, addr, p)
    BY <1>1, <2>1 DEF Outcome
  <2>3. Patch(r.disk, addr + h, q) = Patch(d, addr, data)
    BY <2>2, PatchTwo
  <2>4. \A a \in Bytes : r.disk[a] = d[a] \/ r.disk[a] = Patch(d, addr, data)[a]
    BY <2>2, PatchTwo
  <2>5. /\ \A a \in Bytes : s.disk[a] = r.disk[a] \/ s.disk[a] = Patch(r.disk, addr + h, q)[a]
        /\ s.written = k => s.disk = Patch(r.disk, addr + h, q)
    BY <2>1 DEF Outcome
  <2>6. QED
    BY <1>3, <1>4, <2>3, <2>4, <2>5
<1>7. Outcome(d, addr, data, t)
  BY <1>2, <1>3, <1>4, <1>5, <1>6 DEF Outcome
<1>8. QED
  BY <1>7 DEF t

\* A block written back is a sequence of bytes.
LEMMA LenIs ==
    ASSUME NEW n \in Nat, NEW f, DOMAIN f = 1..n
    PROVE  Len(f) = n
  OBVIOUS

\* What ops.write leaves, byte by byte: of all blocks of the n bytes at base some were written.
WroteBlocks(d, base, data, n, all, blocks, r) ==
    /\ r.written \in {0, n}
    /\ r.unnoticed = (r.written # 0 /\ blocks # all)
    /\ r.disk = [a \in Bytes |-> r.disk[a]]
    /\ \A a \in Bytes : r.disk[a]
          = IF base <= a /\ a < base + n /\ (a - base) \div BlockSize \in blocks
            THEN data[a - base + 1] ELSE d[a]

LEMMA WriteIs ==
    ASSUME NEW d \in Disks, NEW lba \in Nat, NEW data, NEW n \in Nat, Len(data) = n,
           NEW all, all = 0..n \div BlockSize - 1, NEW r \in Write(d, lba, data)
    PROVE  \E blocks \in SUBSET all : WroteBlocks(d, lba * BlockSize, data, n, all, blocks, r)
<1> DEFINE addr == lba * BlockSize
<1>1. addr \in Nat /\ DOMAIN d = Bytes
  BY WholeBlocks DEF Disks
<1>2. PICK blocks \in SUBSET all, w \in {0, n} :
         r = [disk |-> PatchBlocks(d, addr, data, blocks), written |-> w,
              unnoticed |-> w # 0 /\ blocks # all]
  BY DEF Write
<1>3. /\ r.disk = PatchBlocks(d, addr, data, blocks) /\ r.written = w
      /\ r.unnoticed = (w # 0 /\ blocks # all)
  BY <1>2
<1>4. \A a \in Bytes : a \in addr..addr + n - 1 <=> addr <= a /\ a < addr + n
  BY <1>1, BytesNat
<1> HIDE DEF addr
<1>5. r.disk = [a \in Bytes |-> IF a \in addr..addr + n - 1 /\ (a - addr) \div BlockSize \in blocks
                                THEN data[a - addr + 1] ELSE d[a]]
  BY <1>1, <1>3 DEF PatchBlocks
<1>6. /\ DOMAIN r.disk = Bytes
      /\ r.disk = [a \in Bytes |-> r.disk[a]]
      /\ \A a \in Bytes : r.disk[a] = IF a \in addr..addr + n - 1
                                          /\ (a - addr) \div BlockSize \in blocks
                                      THEN data[a - addr + 1] ELSE d[a]
  BY <1>5
<1>7. \A a \in Bytes : r.disk[a] = IF addr <= a /\ a < addr + n
                                       /\ (a - addr) \div BlockSize \in blocks
                                   THEN data[a - addr + 1] ELSE d[a]
  BY <1>4, <1>6
<1>8. QED
  BY <1>3, <1>6, <1>7 DEF addr, WroteBlocks

\* A write of whole blocks.
LEMMA WriteOutcome ==
    ASSUME NEW d \in Disks, NEW lba \in Nat, NEW data \in Seq(Byte), NEW q \in Nat, q # 0,
           Len(data) = q * BlockSize, NEW r \in Write(d, lba, data)
    PROVE  Outcome(d, lba * BlockSize, data, r)
<1> DEFINE addr == lba * BlockSize
           n == Len(data)
<1>1. /\ addr \in Nat /\ n \in Nat /\ n \div BlockSize = q /\ n # 0
      /\ \A x \in Nat : x < n <=> x \div BlockSize < q
  <2>1. q * BlockSize \in Nat /\ q * BlockSize # 0
    <3>1. BlockSize \in Nat /\ BlockSize # 0
      BY DiskAssumption
    <3>2. QED
      BY <3>1
  <2>2. QED
    BY <2>1, WholeBlocks
<1>2. PICK blocks \in SUBSET (0..q - 1) : WroteBlocks(d, addr, data, n, 0..q - 1, blocks, r)
  <2>1. 0..q - 1 = 0..n \div BlockSize - 1
    BY <1>1
  <2> DEFINE all == 0..q - 1
  <2> HIDE DEF all, n, addr
  <2>2. all = 0..n \div BlockSize - 1 /\ n = Len(data) /\ n \in Nat /\ addr = lba * BlockSize
    BY <1>1, <2>1 DEF all, n, addr
  <2>3. \E blocks \in SUBSET all : WroteBlocks(d, lba * BlockSize, data, n, all, blocks, r)
    BY <2>2, WriteIs
  <2>4. QED
    BY <2>2, <2>3 DEF all
<1>w. /\ r.written \in {0, n}
      /\ r.unnoticed = (r.written # 0 /\ blocks # 0..q - 1)
      /\ r.disk = [a \in Bytes |-> r.disk[a]]
      /\ \A a \in Bytes : r.disk[a]
            = IF addr <= a /\ a < addr + n /\ (a - addr) \div BlockSize \in blocks
              THEN data[a - addr + 1] ELSE d[a]
  BY <1>2 DEF WroteBlocks
<1>3. /\ Patch(d, addr, data) \in Disks
      /\ \A a \in Bytes : Patch(d, addr, data)[a]
            = IF addr <= a /\ a < addr + n THEN data[a - addr + 1] ELSE d[a]
  BY <1>1, PatchIs
<1> HIDE DEF addr, n
<1>4. \A a \in Bytes : r.disk[a] = d[a] \/ r.disk[a] = Patch(d, addr, data)[a]
  BY <1>w, <1>3
<1>5. r.disk \in Disks
  <2>1. \A a \in Bytes : r.disk[a] \in Byte
    BY <1>3, <1>4 DEF Disks
  <2>2. QED
    BY <1>w, <2>1 DEF Disks
<1>6. ASSUME NEW a \in Bytes
      PROVE  r.disk[a] = d[a] \/ Near(a, addr, n)
  <2>1. addr <= a /\ a < addr + n => a \in addr..addr + n - 1
    BY <1>1, BytesNat
  <2>2. a \in addr..addr + n - 1 => Near(a, addr, n)
    BY DEF Near
  <2>3. QED
    BY <1>w, <2>1, <2>2
<1>7. ASSUME ~ r.unnoticed, r.written = n
      PROVE  r.disk = Patch(d, addr, data)
  <2>1. blocks = 0..q - 1
    BY <1>1, <1>w, <1>7
  <2>2. ASSUME NEW a \in Bytes
        PROVE  addr <= a /\ a < addr + n => (a - addr) \div BlockSize \in blocks
    <3>1. SUFFICES ASSUME addr <= a, a < addr + n
                   PROVE  (a - addr) \div BlockSize \in 0..q - 1
      BY <2>1
    <3>2. a - addr \in Nat /\ a - addr < n
      BY <1>1, <3>1, BytesNat
    <3>3. PICK x \in Nat : x = a - addr /\ x < n
      BY <3>2
    <3>4. x \div BlockSize < q /\ x \div BlockSize \in Nat
      BY <1>1, <3>3, Blocks
    <3>5. QED
      BY <3>3, <3>4
  <2>3. \A a \in Bytes : r.disk[a] = Patch(d, addr, data)[a]
    BY <1>w, <1>3, <2>2
  <2>4. QED
    BY <1>3, <1>5, <2>3, SameDisk
<1>8. r.written \in 0..n /\ r.unnoticed \in BOOLEAN
  BY <1>1, <1>w
<1>9. QED
  BY <1>4, <1>5, <1>6, <1>7, <1>8 DEF Outcome, addr, n

\* Places counted from the start of a block, and from a byte in it.
LEMMA Shifted ==
    ASSUME NEW a \in Nat, NEW b \in Nat, NEW o \in Nat, NEW m \in Nat, NEW x \in Nat, x = b + o
    PROVE  /\ (o + 1 <= a - b + 1 /\ a - b + 1 <= o + m) <=> (x <= a /\ a < x + m)
           /\ a - b + 1 - o = a - x + 1
  OBVIOUS

\* A write into part of one block.
LEMMA UnalignedOutcome ==
    ASSUME NEW d \in Disks, NEW lba \in Nat, NEW offset \in 0..BlockSize - 1,
           NEW data \in Seq(Byte), NEW n \in Nat, n # 0,
           n = Min({BlockSize - offset, Len(data)}),
           NEW p \in Seq(Byte), Len(p) = n, \A i \in 1..n : p[i] = data[i],
           NEW r \in blockdev_write_unaligned(d, lba, offset, data)
    PROVE  Outcome(d, lba * BlockSize + offset, p, r)
<1> DEFINE base == lba * BlockSize
           addr == base + offset
           OnDisk == [i \in 1..BlockSize |-> d[base + i - 1]]
           Merged(block) == [i \in 1..BlockSize |->
                                IF i \in offset + 1..offset + n THEN data[i - offset] ELSE block[i]]
           Back(block, misread) ==
               {[disk |-> t.disk, written |-> IF t.written = BlockSize THEN n ELSE 0,
                 unnoticed |-> misread \/ t.unnoticed] : t \in Write(d, lba, Merged(block))}
<1>1. /\ BlockSize \in Nat /\ BlockSize > 1 /\ base \in Nat /\ addr \in Nat
      /\ BlockSize \div BlockSize = 1
      /\ \A i \in 0..BlockSize - 1 : (base + i) \div BlockSize = lba /\ i \div BlockSize = 0
  <2>1. BlockSize \in Nat /\ BlockSize > 1 /\ base \in Nat
    <3>1. BlockSize \in Nat /\ BlockSize > 1
      BY DiskAssumption
    <3>2. QED
      BY <3>1, WholeBlocks
  <2>2. /\ (1 * BlockSize + 0) \div BlockSize = 1
        /\ \A i \in 0..BlockSize - 1 : (0 * BlockSize + i) \div BlockSize = 0
    <3>1. 0 \in Nat /\ 1 \in Nat /\ 0 \in 0..BlockSize - 1
      BY <2>1
    <3>2. (1 * BlockSize + 0) \div BlockSize = 1
      BY <3>1, InBlock
    <3>3. \A i \in 0..BlockSize - 1 : (0 * BlockSize + i) \div BlockSize = 0
      BY <3>1, InBlock
    <3>4. QED
      BY <3>2, <3>3
  <2>3. \A i \in 0..BlockSize - 1 : (base + i) \div BlockSize = lba
    BY InBlock
  <2>4. 1 * BlockSize + 0 = BlockSize /\ \A i \in 0..BlockSize - 1 : 0 * BlockSize + i = i
    BY <2>1
  <2>5. BlockSize \div BlockSize = 1 /\ \A i \in 0..BlockSize - 1 : i \div BlockSize = 0
    BY <2>2, <2>4
  <2> HIDE DEF base
  <2>6. addr \in Nat
    BY <2>1
  <2>7. QED
    BY <2>1, <2>3, <2>5, <2>6
<1>2. offset + n <= BlockSize /\ n <= Len(data)
  <2>1. BlockSize - offset \in Int /\ Len(data) \in Int
    BY <1>1
  <2>2. n <= BlockSize - offset /\ n <= Len(data)
    BY <2>1, Lesser
  <2>3. QED
    BY <1>1, <2>2
<1>3. blockdev_write_unaligned(d, lba, offset, data)
        = Nothing(d) \union Back(OnDisk, FALSE) \union UNION {Back(b, TRUE) : b \in FreshBlocks}
  BY DEF blockdev_write_unaligned
<1>4. addr = lba * BlockSize + offset
  OBVIOUS
<1>n. addr = base + offset /\ addr \in Nat /\ base \in Nat /\ offset \in Nat /\ BlockSize \in Nat
  BY <1>1
<1>5. /\ Patch(d, addr, p) \in Disks
      /\ \A a \in Bytes : Patch(d, addr, p)[a]
            = IF addr <= a /\ a < addr + n THEN data[a - addr + 1] ELSE d[a]
  <2>1. ASSUME NEW a \in Bytes
        PROVE  Patch(d, addr, p)[a] = IF addr <= a /\ a < addr + n THEN data[a - addr + 1] ELSE d[a]
    <3>1. PICK y \in Nat : y = addr
      BY <1>1
    <3>2. Patch(d, y, p)[a] = IF y <= a /\ a < y + Len(p) THEN p[a - y + 1] ELSE d[a]
      BY PatchIs
    <3>3. y <= a /\ a < y + n => a - y + 1 \in 1..n
      BY BytesNat
    <3>4. QED
      BY <3>1, <3>2, <3>3
  <2>2. QED
    BY <1>1, <2>1, PatchIs
<1> HIDE DEF OnDisk, base, addr
<1>6. ASSUME NEW block, NEW misread \in BOOLEAN, NEW t \in Write(d, lba, Merged(block)),
             \A i \in 1..BlockSize : base + i - 1 \in Bytes => block[i] \in Byte,
             ~ misread => \A i \in 1..BlockSize : block[i] = d[base + i - 1],
             r = [disk |-> t.disk, written |-> IF t.written = BlockSize THEN n ELSE 0,
                  unnoticed |-> misread \/ t.unnoticed]
      PROVE  Outcome(d, addr, p, r)
  <2> DEFINE merged == Merged(block)
  <2>1. Len(merged) = BlockSize
    <3>1. DOMAIN merged = 1..BlockSize
      OBVIOUS
    <3> HIDE DEF merged
    <3>2. QED
      BY <1>1, <3>1, LenIs
  <2>2. \A i \in 1..BlockSize : merged[i] = IF offset + 1 <= i /\ i <= offset + n
                                            THEN data[i - offset] ELSE block[i]
    <3>1. \A i \in 1..BlockSize : i \in offset + 1..offset + n <=> offset + 1 <= i /\ i <= offset + n
      BY <1>1
    <3>2. QED
      BY <3>1
  <2>3. t \in Write(d, lba, merged)
    BY <1>6
  <2> HIDE DEF merged
  <2>p. PICK blocks \in SUBSET (0..1 - 1) :
           WroteBlocks(d, base, merged, BlockSize, 0..1 - 1, blocks, t)
    <3>1. 0..1 - 1 = 0..BlockSize \div BlockSize - 1 /\ BlockSize \in Nat
      BY <1>1
    <3> DEFINE all == 0..1 - 1
    <3> HIDE DEF all
    <3>2. all = 0..BlockSize \div BlockSize - 1 /\ base = lba * BlockSize
      BY <3>1 DEF all, base
    <3>3. \E blocks \in SUBSET all :
             WroteBlocks(d, lba * BlockSize, merged, BlockSize, all, blocks, t)
      BY <2>1, <2>3, <3>1, <3>2, WriteIs
    <3>4. QED
      BY <3>2, <3>3 DEF all
  <2>4. /\ t.written \in {0, BlockSize}
        /\ t.unnoticed = (t.written # 0 /\ blocks # 0..1 - 1)
        /\ t.disk = [a \in Bytes |-> t.disk[a]]
        /\ \A a \in Bytes : t.disk[a]
              = IF base <= a /\ a < base + BlockSize /\ (a - base) \div BlockSize \in blocks
                THEN merged[a - base + 1] ELSE d[a]
    BY <2>p DEF WroteBlocks
  <2>5. /\ r.disk = t.disk /\ r.unnoticed = (misread \/ t.unnoticed)
        /\ r.written = IF t.written = BlockSize THEN n ELSE 0
    BY <1>6
  <2>6. ASSUME NEW a \in Bytes
        PROVE  /\ r.disk[a] = d[a] \/ (base <= a /\ a < base + BlockSize)
               /\ r.disk[a] \in Byte
               /\ ~ misread => r.disk[a] = d[a] \/ r.disk[a] = Patch(d, addr, p)[a]
               /\ ~ misread /\ 0 \in blocks => r.disk[a] = Patch(d, addr, p)[a]
    <3>1. a \in Nat /\ d[a] \in Byte
      BY BytesNat DEF Disks
    <3>2. Patch(d, addr, p)[a] = IF addr <= a /\ a < addr + n THEN data[a - addr + 1] ELSE d[a]
      BY <1>5
    <3>3. CASE base <= a /\ a < base + BlockSize
      <4> DEFINE i == a - base + 1
      <4>1. i \in 1..BlockSize /\ base + i - 1 = a /\ a - base \in 0..BlockSize - 1
        BY <1>1, <3>1, <3>3
      <4>2. (a - base) \div BlockSize = 0
        BY <1>1, <4>1
      <4>3. block[i] \in Byte /\ (~ misread => block[i] = d[a])
        BY <1>6, <4>1
      <4>4. /\ (offset + 1 <= i /\ i <= offset + n) <=> (addr <= a /\ a < addr + n)
            /\ i - offset = a - addr + 1
        <5>1. a \in Nat /\ base \in Nat /\ offset \in Nat /\ n \in Nat
          BY <1>n, <3>1
        <5>2. addr \in Nat /\ addr = base + offset
          BY <1>n
        <5>3. QED
          BY <5>1, <5>2, Shifted
      <4>5. offset + 1 <= i /\ i <= offset + n => data[i - offset] \in Byte
        <5>1. offset + 1 <= i /\ i <= offset + n => i - offset \in 1..Len(data)
          BY <1>1, <1>2, <3>1
        <5> HIDE DEF i
        <5>2. QED
          BY <5>1
      <4>6. merged[i] = IF offset + 1 <= i /\ i <= offset + n THEN data[i - offset] ELSE block[i]
        BY <2>2, <4>1
      <4>7. t.disk[a] = IF 0 \in blocks THEN merged[i] ELSE d[a]
        BY <2>4, <3>3, <4>2
      <4> HIDE DEF i
      <4>8. QED
        BY <2>5, <3>1, <3>2, <3>3, <4>3, <4>4, <4>5, <4>6, <4>7
    <3>4. CASE ~ (base <= a /\ a < base + BlockSize)
      <4>1. ~ (addr <= a /\ a < addr + n)
        BY <1>n, <1>2, <3>1, <3>4
      <4>2. r.disk[a] = d[a]
        BY <2>4, <2>5, <3>4
      <4>3. QED
        BY <3>1, <3>2, <4>1, <4>2
    <3>5. QED
      BY <3>3, <3>4
  <2>7. r.disk \in Disks
    BY <2>4, <2>5, <2>6 DEF Disks
  <2>8. ASSUME NEW a \in Bytes
        PROVE  r.disk[a] = d[a] \/ Near(a, addr, n)
    <3>1. base <= a /\ a < base + BlockSize => a \div BlockSize = lba
      <4>1. base <= a /\ a < base + BlockSize =>
              a - base \in 0..BlockSize - 1 /\ base + (a - base) = a
        BY <1>1, BytesNat
      <4>2. QED
        BY <1>1, <4>1
    <3>2. addr \in addr..addr + n - 1 /\ addr \div BlockSize = lba
      <4>1. addr \in addr..addr + n - 1
        BY <1>n
      <4>2. (base + offset) \div BlockSize = lba
        BY <1>1
      <4>3. QED
        BY <1>n, <4>1, <4>2
    <3>3. base <= a /\ a < base + BlockSize => Near(a, addr, n)
      BY <3>1, <3>2 DEF Near
    <3>4. QED
      BY <2>6, <3>3
  <2>9. ASSUME ~ r.unnoticed
        PROVE  /\ \A a \in Bytes : r.disk[a] = d[a] \/ r.disk[a] = Patch(d, addr, p)[a]
               /\ r.written = n => r.disk = Patch(d, addr, p)
    <3>1. ~ misread /\ ~ t.unnoticed
      BY <2>5, <2>9
    <3>2. r.written = n => 0 \in blocks
      <4>1. SUFFICES ASSUME r.written = n
                     PROVE  0 \in blocks
        OBVIOUS
      <4>2. t.written = BlockSize
        BY <2>5, <4>1
      <4>3. t.written # 0
        BY <1>1, <4>2
      <4>4. blocks = 0..1 - 1
        BY <2>4, <3>1, <4>3
      <4>5. QED
        BY <4>4
    <3>3. \A a \in Bytes : r.disk[a] = d[a] \/ r.disk[a] = Patch(d, addr, p)[a]
      BY <2>6, <3>1
    <3>4. ASSUME r.written = n
          PROVE  r.disk = Patch(d, addr, p)
      <4>1. \A a \in Bytes : r.disk[a] = Patch(d, addr, p)[a]
        BY <2>6, <3>1, <3>2, <3>4
      <4>2. QED
        BY <1>5, <2>7, <4>1, SameDisk
    <3>5. QED
      BY <3>3, <3>4
  <2>10. r.written \in 0..n /\ r.unnoticed \in BOOLEAN
    <3>1. t.unnoticed \in BOOLEAN
      BY <2>4
    <3>2. QED
      BY <2>5, <3>1
  <2>11. QED
    BY <2>7, <2>8, <2>9, <2>10 DEF Outcome
<1>7. CASE r \in Nothing(d)
  BY <1>1, <1>4, <1>7, NothingOutcome
<1>8. CASE r \in Back(OnDisk, FALSE)
  <2>1. \A i \in 1..BlockSize : OnDisk[i] = d[base + i - 1]
    BY DEF OnDisk
  <2>2. \A i \in 1..BlockSize : base + i - 1 \in Bytes => OnDisk[i] \in Byte
    BY <2>1 DEF Disks
  <2>3. PICK t \in Write(d, lba, Merged(OnDisk)) :
           r = [disk |-> t.disk, written |-> IF t.written = BlockSize THEN n ELSE 0,
                unnoticed |-> FALSE \/ t.unnoticed]
    BY <1>8
  <2> HIDE DEF Merged
  <2>4. QED
    BY <1>4, <1>6, <2>1, <2>2, <2>3
<1>9. CASE \E b \in FreshBlocks : r \in Back(b, TRUE)
  <2>1. PICK b \in FreshBlocks : r \in Back(b, TRUE)
    BY <1>9
  <2>2. \A i \in 1..BlockSize : b[i] \in Byte
    BY DiskAssumption
  <2>3. PICK t \in Write(d, lba, Merged(b)) :
           r = [disk |-> t.disk, written |-> IF t.written = BlockSize THEN n ELSE 0,
                unnoticed |-> TRUE \/ t.unnoticed]
    BY <2>1
  <2> HIDE DEF Merged
  <2>4. QED
    BY <1>4, <1>6, <2>2, <2>3
<1>10. QED
  BY <1>3, <1>7, <1>8, <1>9

\* Whatever fails, a write of bytes changes only blocks of its data.
LEMMA WriteBytes ==
    ASSUME NEW d \in Disks, NEW addr \in Nat, NEW data \in Seq(Byte),
           NEW result \in blockdev_write_bytes(d, addr, data)
    PROVE  Outcome(d, addr, data, result)
<1> DEFINE offset == addr % BlockSize
           head == IF offset = 0 THEN 0 ELSE Min({BlockSize - offset, Len(data)})
           body == ((Len(data) - head) \div BlockSize) * BlockSize
           First(d0) == IF head = 0 THEN Nothing(d0)
                        ELSE blockdev_write_unaligned(d0, addr \div BlockSize, offset, data)
           Whole(d1) == IF body = 0 THEN Nothing(d1)
                        ELSE Write(d1, FirstWhole(addr), SubSeq(data, head + 1, head + body))
           Last(d2) == IF head + body = Len(data) THEN Nothing(d2)
                       ELSE blockdev_write_unaligned(d2, FirstWhole(addr) + body \div BlockSize, 0,
                                                     SubSeq(data, head + body + 1, Len(data)))
           Rest(d1) == UNION {IF r.written = body
                              THEN {[disk |-> s.disk, written |-> r.written + s.written,
                                     unnoticed |-> r.unnoticed \/ s.unnoticed] : s \in Last(r.disk)}
                              ELSE {r} : r \in Whole(d1)}
           tail == Len(data) - (head + body)
           p1 == SubSeq(data, 1, head)
           p2 == SubSeq(data, head + 1, head + body)
           p3 == SubSeq(data, head + body + 1, Len(data))
           p23 == SubSeq(data, head + 1, Len(data))
<1>1. BlockSize \in Nat /\ BlockSize > 1 /\ Len(data) \in Nat
  BY DiskAssumption
<1>2. /\ offset \in 0..BlockSize - 1
      /\ addr \div BlockSize \in Nat
      /\ (addr \div BlockSize) * BlockSize + offset = addr
  BY Blocks
<1>3. /\ head \in Nat
      /\ head <= Len(data)
      /\ head < Len(data) => FirstWhole(addr) * BlockSize = addr + head
  <2>1. CASE offset = 0
    BY <1>1, <2>1, FirstWholeStarts
  <2>2. CASE offset # 0
    <3>1. /\ head \in {BlockSize - offset, Len(data)}
          /\ head <= Len(data)
      <4>1. BlockSize - offset \in Int /\ Len(data) \in Int
        BY <1>1, <1>2
      <4>2. head = Min({BlockSize - offset, Len(data)})
        BY <2>2
      <4>3. QED
        BY <4>1, <4>2, Lesser
    <3>2. head < Len(data) => head = BlockSize - offset
      BY <1>1, <3>1
    <3>3. FirstWhole(addr) * BlockSize = addr + BlockSize - offset
      BY <2>2, FirstWholeStarts
    <3>4. head \in Nat
      BY <1>1, <1>2, <3>1
    <3>5. QED
      BY <1>1, <1>2, <3>1, <3>2, <3>3, <3>4
  <2>3. QED
    BY <2>1, <2>2
<1> HIDE DEF head
<1>4. PICK q \in Nat : /\ q = (Len(data) - head) \div BlockSize
                       /\ body = q * BlockSize
                       /\ body \in Nat
                       /\ head + body <= Len(data)
                       /\ Len(data) < head + body + BlockSize
                       /\ body \div BlockSize = q
  <2>1. Len(data) - head \in Nat
    BY <1>1, <1>3
  <2>2. PICK q \in Nat : q = (Len(data) - head) \div BlockSize
    BY <2>1, Blocks
  <2>3. PICK r \in 0..BlockSize - 1 : Len(data) - head = q * BlockSize + r
    BY <2>1, <2>2, Blocks
  <2>4. PICK b \in Nat : b = q * BlockSize /\ b = body
    BY <1>1, <2>2
  <2>5. b \div BlockSize = q
    BY <1>1, <2>4
  <2>6. head + b <= Len(data) /\ Len(data) < head + b + BlockSize
    BY <1>1, <1>3, <2>3, <2>4
  <2>7. QED
    BY <2>2, <2>4, <2>5, <2>6
<1> HIDE DEF body
<1>5. tail \in Nat /\ tail < BlockSize /\ head + body + tail = Len(data)
  BY <1>1, <1>3, <1>4
<1>p. /\ p1 \in Seq(Byte) /\ Len(p1) = head /\ \A i \in 1..head : p1[i] = data[i]
      /\ p2 \in Seq(Byte) /\ Len(p2) = body /\ \A i \in 1..body : p2[i] = data[head + i]
      /\ p3 \in Seq(Byte) /\ Len(p3) = tail /\ \A i \in 1..tail : p3[i] = data[head + body + i]
      /\ p23 \in Seq(Byte) /\ Len(p23) = body + tail
      /\ \A i \in 1..body + tail : p23[i] = data[head + i]
  <2> HIDE DEF tail
  <2>1. p1 \in Seq(Byte) /\ Len(p1) = head /\ \A i \in 1..head : p1[i] = data[i]
    <3>1. SubSeq(data, 0 + 1, 0 + head) = p1
      BY <1>3
    <3>2. \A i \in 1..head : 0 + i = i
      BY <1>3
    <3>3. QED
      BY <1>1, <1>3, <3>1, <3>2, PartOf
  <2>2. p2 \in Seq(Byte) /\ Len(p2) = body /\ \A i \in 1..body : p2[i] = data[head + i]
    BY <1>3, <1>4, PartOf
  <2>3. /\ p3 \in Seq(Byte) /\ Len(p3) = tail
        /\ \A i \in 1..tail : p3[i] = data[head + body + i]
    <3>1. PICK h \in Nat : h = head + body /\ h + tail = Len(data)
      BY <1>3, <1>4, <1>5
    <3>2. p3 = SubSeq(data, h + 1, h + tail) /\ h + tail <= Len(data)
      BY <1>1, <3>1
    <3> HIDE DEF p3
    <3>3. QED
      BY <1>5, <3>1, <3>2, PartOf
  <2>4. /\ p23 \in Seq(Byte) /\ Len(p23) = body + tail
        /\ \A i \in 1..body + tail : p23[i] = data[head + i]
    <3>1. PICK k \in Nat : k = body + tail /\ head + k = Len(data)
      BY <1>3, <1>4, <1>5
    <3>2. p23 = SubSeq(data, head + 1, head + k)
      BY <3>1
    <3>4. head + k <= Len(data)
      <4> HIDE DEF p23
      <4>1. QED
        BY <1>1, <3>1
    <3> HIDE DEF p23
    <3>3. QED
      BY <1>3, <3>1, <3>2, <3>4, PartOf
  <2>5. QED
    BY <2>1, <2>2, <2>3, <2>4
<1>c1. CutAt(data, head, p1, p23)
  <2> HIDE DEF p1, p23, tail
  <2>1. Len(data) = head + (body + tail)
    BY <1>3, <1>4, <1>5
  <2>2. QED
    BY <1>p, <2>1 DEF CutAt
<1>c2. CutAt(p23, body, p2, p3)
  <2> HIDE DEF p2, p3, p23, tail
  <2>1. ASSUME NEW i \in 1..body
        PROVE  p2[i] = p23[i]
    <3>1. i \in 1..body + tail
      BY <1>4, <1>5
    <3>2. QED
      BY <1>p, <3>1
  <2>2. ASSUME NEW i \in 1..tail
        PROVE  p3[i] = p23[body + i]
    <3>1. body + i \in 1..body + tail /\ head + (body + i) = head + body + i
      BY <1>3, <1>4, <1>5
    <3>2. QED
      BY <1>p, <3>1
  <2>3. QED
    BY <1>p, <2>1, <2>2 DEF CutAt
<1>6. ASSUME NEW r \in First(d)
      PROVE  Outcome(d, addr, p1, r)
  <2>1. CASE head = 0
    BY <1>p, <1>6, <2>1, NothingOutcome
  <2>2. CASE head # 0
    <3>1. head = Min({BlockSize - offset, Len(data)})
      BY <2>2 DEF head
    <3>2. r \in blockdev_write_unaligned(d, addr \div BlockSize, offset, data)
      BY <1>6, <2>2
    <3> HIDE DEF p1, offset
    <3>3. PICK lba \in Nat : lba = addr \div BlockSize
      BY <1>2
    <3>4. Outcome(d, lba * BlockSize + offset, p1, r)
      BY <1>2, <1>3, <1>p, <2>2, <3>1, <3>2, <3>3, UnalignedOutcome
    <3>5. QED
      BY <1>2, <3>3, <3>4
  <2>3. QED
    BY <2>1, <2>2
<1>7. ASSUME NEW d1 \in Disks, NEW r \in Whole(d1)
      PROVE  Outcome(d1, addr + head, p2, r)
  <2>0. addr + head \in Nat
    BY <1>3
  <2>1. CASE body = 0
    BY <1>p, <1>7, <2>0, <2>1, NothingOutcome
  <2>2. CASE body # 0
    <3>1. head < Len(data)
      BY <1>1, <1>3, <1>4, <2>2
    <3>2. FirstWhole(addr) \in Nat /\ FirstWhole(addr) * BlockSize = addr + head
      BY <1>3, <3>1, FirstWholeStarts
    <3>3. r \in Write(d1, FirstWhole(addr), p2)
      BY <1>7, <2>2
    <3>4. q # 0
      BY <1>1, <1>4, <2>2
    <3> HIDE DEF p2
    <3>5. Outcome(d1, FirstWhole(addr) * BlockSize, p2, r)
      BY <1>4, <1>p, <3>2, <3>3, <3>4, WriteOutcome
    <3>6. QED
      BY <3>2, <3>5
  <2>3. QED
    BY <2>1, <2>2
<1>8. ASSUME NEW d2 \in Disks, NEW r \in Last(d2)
      PROVE  Outcome(d2, (addr + head) + body, p3, r)
  <2>0. (addr + head) + body \in Nat
    BY <1>3, <1>4
  <2>1. CASE head + body = Len(data)
    BY <1>p, <1>8, <2>0, <2>1, NothingOutcome
  <2>2. CASE head + body # Len(data)
    <3>1. head < Len(data)
      BY <1>1, <1>3, <1>4, <2>2
    <3>2. FirstWhole(addr) \in Nat /\ FirstWhole(addr) * BlockSize = addr + head
      BY <1>3, <3>1, FirstWholeStarts
    <3>3. PICK lba \in Nat : /\ lba = FirstWhole(addr) + body \div BlockSize
                             /\ lba * BlockSize + 0 = (addr + head) + body
      <4>1. PICK f \in Nat : f = FirstWhole(addr) /\ f * BlockSize = addr + head
        BY <3>2
      <4>2. FirstWhole(addr) + body \div BlockSize = f + q
        BY <1>4, <4>1
      <4>3. (f + q) * BlockSize = f * BlockSize + q * BlockSize
        BY <1>1
      <4>4. f + q \in Nat
        BY <1>4
      <4>5. (f + q) * BlockSize = (addr + head) + body
        BY <1>4, <4>1, <4>3
      <4>6. (addr + head) + body \in Nat
        BY <1>3, <1>4
      <4>7. (f + q) * BlockSize + 0 = (addr + head) + body
        BY <4>5, <4>6
      <4>8. QED
        BY <4>2, <4>4, <4>7
    <3>4. r \in blockdev_write_unaligned(d2, lba, 0, p3)
      BY <1>8, <2>2, <3>3
    <3>5. tail # 0
      BY <1>1, <1>3, <1>4, <2>2
    <3> HIDE DEF p3, tail
    <3>6. tail = Min({BlockSize - 0, Len(p3)})
      <4>1. BlockSize - 0 \in Int /\ tail \in Int /\ tail < BlockSize - 0
        BY <1>1, <1>5
      <4>2. /\ Min({BlockSize - 0, tail}) \in {BlockSize - 0, tail}
            /\ Min({BlockSize - 0, tail}) <= tail
        BY <4>1, Lesser
      <4>3. Min({BlockSize - 0, tail}) = tail
        BY <4>1, <4>2
      <4>4. QED
        BY <1>p, <4>3
    <3>7. 0 \in 0..BlockSize - 1 /\ tail \in Nat /\ Len(p3) = tail /\ p3 \in Seq(Byte)
      BY <1>1, <1>5, <1>p
    <3>8. Outcome(d2, lba * BlockSize + 0, p3, r)
      BY <3>4, <3>5, <3>6, <3>7, UnalignedOutcome
    <3>9. QED
      BY <3>3, <3>8
  <2>3. QED
    BY <2>1, <2>2
<1>11. result \in UNION {IF r.written = head
              THEN {[disk |-> s.disk, written |-> r.written + s.written,
                     unnoticed |-> r.unnoticed \/ s.unnoticed] : s \in Rest(r.disk)}
              ELSE {r} : r \in First(d)}
  BY DEF blockdev_write_bytes, Then, head, body, First, Whole, Last
<1> HIDE DEF Last, Whole, First, tail, p1, p2, p3, p23
<1>9. /\ p1 \in Seq(Byte) /\ p2 \in Seq(Byte) /\ p3 \in Seq(Byte) /\ p23 \in Seq(Byte)
      /\ addr + head \in Nat
  <2>1. addr + head \in Nat
    BY <1>3
  <2>2. QED
    BY <1>p, <2>1
<1>10. ASSUME NEW d1 \in Disks, NEW t \in Rest(d1)
       PROVE  Outcome(d1, addr + head, p23, t)
  <2>1. PICK r \in Whole(d1) :
           t \in IF r.written = body
                 THEN {[disk |-> s.disk, written |-> r.written + s.written,
                        unnoticed |-> r.unnoticed \/ s.unnoticed] : s \in Last(r.disk)}
                 ELSE {r}
    BY <1>10
  <2>2. Outcome(d1, addr + head, p2, r) /\ r.disk \in Disks
    BY <1>7 DEF Outcome
  <2>3. CASE r.written = body
    <3>1. PICK s \in Last(r.disk) : t = [disk |-> s.disk, written |-> r.written + s.written,
                                         unnoticed |-> r.unnoticed \/ s.unnoticed]
      BY <2>1, <2>3
    <3>2. Outcome(r.disk, (addr + head) + body, p3, s)
      BY <1>8, <2>2
    <3>3. QED
      BY <1>4, <1>9, <1>c2, <2>2, <2>3, <3>1, <3>2, OutcomeGoesOn
  <2>4. CASE r.written # body
    <3>1. t = r
      BY <2>1, <2>4
    <3>2. QED
      BY <1>4, <1>9, <1>c2, <2>2, <2>4, <3>1, OutcomeStops
  <2>5. QED
    BY <2>3, <2>4
<1> HIDE DEF Rest
<1>12. PICK r \in First(d) :
          result \in IF r.written = head
                     THEN {[disk |-> s.disk, written |-> r.written + s.written,
                            unnoticed |-> r.unnoticed \/ s.unnoticed] : s \in Rest(r.disk)}
                     ELSE {r}
  BY <1>11
<1>13. Outcome(d, addr, p1, r) /\ r.disk \in Disks
  BY <1>6 DEF Outcome
<1>14. CASE r.written = head
  <2>1. PICK s \in Rest(r.disk) : result = [disk |-> s.disk, written |-> r.written + s.written,
                                            unnoticed |-> r.unnoticed \/ s.unnoticed]
    BY <1>12, <1>14
  <2>2. Outcome(r.disk, addr + head, p23, s)
    BY <1>10, <1>13
  <2>3. QED
    BY <1>3, <1>9, <1>c1, <1>13, <1>14, <2>1, <2>2, OutcomeGoesOn
<1>15. CASE r.written # head
  <2>1. result = r
    BY <1>12, <1>15
  <2>2. QED
    BY <1>3, <1>9, <1>c1, <1>13, <1>15, <2>1, OutcomeStops
<1>16. QED
  BY <1>14, <1>15

\* A filled buffer is a sequence.
LEMMA FilledIs ==
    ASSUME NEW n \in Nat, NEW pattern \in Seq(Byte), Len(pattern) = Word
    PROVE  /\ Filled(n, pattern) \in Seq(Byte)
           /\ Len(Filled(n, pattern)) = n
           /\ \A i \in 1..n : Filled(n, pattern)[i] = pattern[((i - 1) % Word) + 1]
<1>1. Word \in Nat /\ Word > 0
  BY DiskAssumption
<1>2. ASSUME NEW i \in 1..n
      PROVE  pattern[((i - 1) % Word) + 1] \in Byte
  <2>1. i - 1 \in Nat
    OBVIOUS
  <2>2. \A x \in Nat : x % Word \in 0..Word - 1
    BY <1>1
  <2>3. ((i - 1) % Word) + 1 \in 1..Len(pattern)
    BY <1>1, <2>1, <2>2
  <2>4. QED
    BY <2>3
<1>3. Filled(n, pattern) \in [1..n -> Byte]
  BY <1>2 DEF Filled
<1>4. QED
  BY <1>3 DEF Filled

\* A fill is a write of its repeated pattern, or nothing.
LEMMA FillBytes ==
    ASSUME NEW d \in Disks, NEW addr \in Nat, NEW n \in Nat,
           NEW pattern \in Seq(Byte), Len(pattern) = Word,
           NEW r \in blockdev_fill_write_bytes(d, addr, n, pattern)
    PROVE  Outcome(d, addr, Filled(n, pattern), r)
<1>1. Filled(n, pattern) \in Seq(Byte)
  BY FilledIs
<1>2. r \in blockdev_write_bytes(d, addr, Filled(n, pattern)) \union Nothing(d)
  BY DEF blockdev_fill_write_bytes
<1>3. QED
  BY <1>1, <1>2, WriteBytes, NothingOutcome

-----------------------------------------------------------------------------
(* What an image puts where.                                                *)

\* The offset o is in chunk i.
InChunk(img, i, o) == ChunkStart(img, i) <= o /\ o < ChunkStart(img, i + 1)

\* An offset is in one chunk only.
LEMMA OneChunk ==
    ASSUME NEW img \in SparseImages, NEW i \in 1..Len(img.chunks), NEW j \in 1..Len(img.chunks),
           NEW o \in Int, InChunk(img, i, o), InChunk(img, j, o)
    PROVE  i = j
<1> DEFINE L == Len(img.chunks)
<1>1. L \in Nat
  BY SparseType
<1>2. ASSUME NEW a \in 1..L, NEW b \in 1..L, a < b, InChunk(img, a, o), InChunk(img, b, o)
      PROVE  FALSE
  <2>1. a + 1 \in 1..L + 1 /\ b \in 1..L + 1 /\ a + 1 <= b
    BY <1>1, <1>2
  <2>2. ChunkStart(img, a + 1) <= ChunkStart(img, b)
    BY <2>1, ChunkStartsUp
  <2>3. ChunkStart(img, a + 1) \in Nat /\ ChunkStart(img, b) \in Nat
    BY <2>1, ChunkStarts
  <2>4. QED
    BY <1>2, <2>2, <2>3 DEF InChunk
<1>3. QED
  BY <1>1, <1>2

\* The byte of an image at an offset in one of its chunks.
HasByte(c, n) == (c.type = "raw" /\ n < Len(c.data)) \/ c.type = "fill"
ByteOf(c, n) == c.data[(IF c.type = "fill" THEN n % Word ELSE n) + 1]

\* ImageBytes at an offset that is in chunk i.
LEMMA InsideChunk ==
    ASSUME NEW img \in SparseImages, NEW i \in 1..Len(img.chunks), NEW o \in Int, InChunk(img, i, o)
    PROVE  /\ o \in DOMAIN ImageBytes(img) <=> HasByte(img.chunks[i], o - ChunkStart(img, i))
           /\ HasByte(img.chunks[i], o - ChunkStart(img, i)) =>
                 ImageBytes(img)[o] = ByteOf(img.chunks[i], o - ChunkStart(img, i))
<1> DEFINE Data(k) == {x \in ChunkStart(img, k)..ChunkStart(img, k + 1) - 1 :
                        \/ img.chunks[k].type = "raw"
                             /\ x - ChunkStart(img, k) < Len(img.chunks[k].data)
                        \/ img.chunks[k].type = "fill"}
           Of(x) == CHOOSE k \in DOMAIN img.chunks : x \in Data(k)
           At(x) == LET k == Of(x) n == x - ChunkStart(img, k)
                      IN img.chunks[k].data[
                            (IF img.chunks[k].type = "fill" THEN n % Word ELSE n) + 1]
           All == UNION {Data(k) : k \in DOMAIN img.chunks}
<1>1. DOMAIN img.chunks = 1..Len(img.chunks) /\ IsSparse(img)
  BY SparseType DEF SparseImages
<1>2. ImageBytes(img) = [x \in All |-> At(x)]
  BY <1>1 DEF ImageBytes
<1>3. \A k \in 1..Len(img.chunks) :
         o \in Data(k) <=> InChunk(img, k, o) /\ HasByte(img.chunks[k], o - ChunkStart(img, k))
  <2>1. SUFFICES ASSUME NEW k \in 1..Len(img.chunks)
                 PROVE  o \in Data(k) <=>
                          InChunk(img, k, o) /\ HasByte(img.chunks[k], o - ChunkStart(img, k))
    OBVIOUS
  <2>2. k \in 1..Len(img.chunks) + 1 /\ k + 1 \in 1..Len(img.chunks) + 1
    BY SparseType
  <2>3. ChunkStart(img, k) \in Nat /\ ChunkStart(img, k + 1) \in Nat
    BY <2>2, ChunkStarts
  <2>4. QED
    BY <2>3 DEF InChunk, HasByte
<1> HIDE DEF Data
<1>4. o \in All <=> HasByte(img.chunks[i], o - ChunkStart(img, i))
  <2>1. o \in All <=> \E k \in 1..Len(img.chunks) : o \in Data(k)
    BY <1>1
  <2>2. \A k \in 1..Len(img.chunks) : InChunk(img, k, o) => k = i
    BY OneChunk
  <2>3. QED
    BY <1>3, <2>1, <2>2
<1>5. ASSUME HasByte(img.chunks[i], o - ChunkStart(img, i))
      PROVE  ImageBytes(img)[o] = ByteOf(img.chunks[i], o - ChunkStart(img, i))
  <2>1. o \in Data(i)
    BY <1>3, <1>5
  <2>2. \A k \in 1..Len(img.chunks) : o \in Data(k) => k = i
    BY <1>3, OneChunk
  <2>3. Of(o) = i
    BY <1>1, <2>1, <2>2
  <2> HIDE DEF Of
  <2>4. At(o) = ByteOf(img.chunks[i], o - ChunkStart(img, i))
    BY <2>3 DEF ByteOf
  <2>5. o \in All
    BY <1>4, <1>5
  <2> HIDE DEF At, All
  <2>6. QED
    BY <1>2, <2>4, <2>5
<1> HIDE DEF All, At
<1>6. QED
  BY <1>2, <1>4, <1>5

\* An image has no byte after its last chunk, and none before its first.
LEMMA PastImage ==
    ASSUME NEW img \in SparseImages, NEW o \in Int,
           o < 0 \/ o >= ChunkStart(img, Len(img.chunks) + 1)
    PROVE  o \notin DOMAIN ImageBytes(img)
<1>1. DOMAIN img.chunks = 1..Len(img.chunks) /\ IsSparse(img) /\ Len(img.chunks) \in Nat
  BY SparseType DEF SparseImages
<1>2. ASSUME NEW k \in 1..Len(img.chunks), o \in ChunkStart(img, k)..ChunkStart(img, k + 1) - 1
      PROVE  FALSE
  <2>1. k \in 1..Len(img.chunks) + 1 /\ k + 1 \in 1..Len(img.chunks) + 1
         /\ Len(img.chunks) + 1 \in 1..Len(img.chunks) + 1 /\ k + 1 <= Len(img.chunks) + 1
    BY <1>1
  <2>2. /\ ChunkStart(img, k) \in Nat /\ ChunkStart(img, k + 1) \in Nat
        /\ ChunkStart(img, Len(img.chunks) + 1) \in Nat
    BY <2>1, ChunkStarts
  <2>3. ChunkStart(img, k + 1) <= ChunkStart(img, Len(img.chunks) + 1)
    BY <2>1, ChunkStartsUp
  <2>4. QED
    BY <1>2, <2>2, <2>3
<1>3. QED
  BY <1>1, <1>2 DEF ImageBytes

\* A promise over a disk, byte by byte.
LEMMA OverByte ==
    ASSUME NEW d \in Disks, NEW base, NEW room, NEW img, NEW a \in Bytes
    PROVE  /\ a \in Over(d, base, room, img).target
                 <=> (a < base + room /\ a - base \in DOMAIN ImageBytes(img))
           /\ Over(d, base, room, img).disk[a]
                 = IF a < base + room /\ a - base \in DOMAIN ImageBytes(img)
                   THEN ImageBytes(img)[a - base] ELSE d[a]
<1> DEFINE target == {b \in Bytes : b < base + room /\ b - base \in DOMAIN ImageBytes(img)}
           new == [b \in Bytes |-> IF b \in target THEN ImageBytes(img)[b - base] ELSE d[b]]
<1>1. DOMAIN d = Bytes
  BY DEF Disks
<1>2. Over(d, base, room, img).target = target /\ Over(d, base, room, img).disk = new
  BY <1>1 DEF Over
<1>3. a \in target <=> (a < base + room /\ a - base \in DOMAIN ImageBytes(img))
  OBVIOUS
<1> HIDE DEF target
<1>4. new[a] = IF a \in target THEN ImageBytes(img)[a - base] ELSE d[a]
  OBVIOUS
<1> HIDE DEF new
<1>5. QED
  BY <1>2, <1>3, <1>4

\* What is sure of it, and where its pieces start.
LEMMA OverParts ==
    ASSUME NEW d \in Disks, NEW base, NEW room, NEW img
    PROVE  /\ Over(d, base, room, img).sure = Bytes
           /\ IsSparse(img) => Over(d, base, room, img).cuts
                                 = {base + ChunkStart(img, i) : i \in DOMAIN img.chunks}
           /\ ~ IsSparse(img) => Over(d, base, room, img).cuts = {}
<1>1. DOMAIN d = Bytes
  BY DEF Disks
<1>2. QED
  BY <1>1 DEF Over

\* What a plain image promises is what writing all of it leaves.
LEMMA OverPlain ==
    ASSUME NEW d \in Disks, NEW addr \in Nat, NEW room \in Nat, NEW img, ~ IsSparse(img),
           img.plain \in Seq(Byte), Len(img.plain) <= room
    PROVE  LET promise == Over(d, addr, room, img)
           IN /\ \A a \in Bytes : promise.disk[a] = Patch(d, addr, img.plain)[a]
              /\ promise.sure = Bytes
              /\ promise.cuts = {}
              /\ \A b \in Bytes : b \in addr..addr + Len(img.plain) - 1 => b \in promise.target
<1> DEFINE len == Len(img.plain)
<1>1. /\ DOMAIN ImageBytes(img) = 0..len - 1
      /\ \A o \in 0..len - 1 : ImageBytes(img)[o] = img.plain[o + 1]
  BY DEF ImageBytes
<1>2. len \in Nat
  OBVIOUS
<1>3. ASSUME NEW a \in Bytes
      PROVE  /\ (a < addr + room /\ a - addr \in DOMAIN ImageBytes(img))
                  <=> (addr <= a /\ a < addr + len)
             /\ addr <= a /\ a < addr + len => ImageBytes(img)[a - addr] = img.plain[a - addr + 1]
  <2>1. a \in Nat
    BY BytesNat
  <2> HIDE DEF len
  <2>2. (a < addr + room /\ a - addr \in 0..len - 1) <=> (addr <= a /\ a < addr + len)
    BY <1>2, <2>1 DEF len
  <2>3. addr <= a /\ a < addr + len => a - addr \in 0..len - 1
    BY <1>2, <2>1
  <2>4. QED
    BY <1>1, <2>2, <2>3
<1> HIDE DEF len
<1>4. \A a \in Bytes : Over(d, addr, room, img).disk[a] = Patch(d, addr, img.plain)[a]
  <2>1. SUFFICES ASSUME NEW a \in Bytes
                 PROVE  Over(d, addr, room, img).disk[a] = Patch(d, addr, img.plain)[a]
    OBVIOUS
  <2>2. Patch(d, addr, img.plain)[a]
          = IF addr <= a /\ a < addr + len THEN img.plain[a - addr + 1] ELSE d[a]
    BY PatchIs DEF len
  <2>3. Over(d, addr, room, img).disk[a]
          = IF a < addr + room /\ a - addr \in DOMAIN ImageBytes(img)
            THEN ImageBytes(img)[a - addr] ELSE d[a]
    BY OverByte
  <2>4. QED
    BY <1>3, <2>2, <2>3
<1>5. \A b \in Bytes : b \in addr..addr + len - 1 => b \in Over(d, addr, room, img).target
  <2>1. \A b \in Bytes : b \in addr..addr + len - 1 => addr <= b /\ b < addr + len
    BY <1>2, BytesNat
  <2>2. QED
    BY <1>3, <2>1, OverByte
<1>6. Over(d, addr, room, img).sure = Bytes /\ Over(d, addr, room, img).cuts = {}
  BY OverParts
<1>7. QED
  BY <1>4, <1>5, <1>6 DEF len

-----------------------------------------------------------------------------
(* The inductive invariant.                                                 *)

\* The job of a sparse image knows where the image begins, and what was promised of it; with a
\* table in use that is behind the block of the table.
JobStart == ChunkStart(job.img, job.next)
JobInv ==
    job # Idle =>
        /\ job \in [pc : {"sparse"}, img : SparseImages, next : Nat,
                    addr : Nat, room : Nat, left : Nat]
        /\ job.next \in 1..Len(job.img.chunks) + 1
        /\ JobStart <= job.addr
        /\ want = Over(before, job.addr - JobStart, job.room + JobStart, job.img)
        /\ gpt # NoGpt => job.addr - JobStart >= BlockSize

\* Between two chunks of a sparse image the disk is as promised up to the next chunk and as it
\* was from there on, unless something failed unnoticed.
UpTo(m) == \A a \in Bytes : disk[a] = IF a < m THEN want.disk[a] ELSE before[a]
ProgressInv ==
    /\ StaysInside
    /\ job = Idle => OldOrNew /\ ChunksInOrder
    /\ job # Idle => unnoticed \/ UpTo(job.addr)

\* The variables besides the job and the promise.
TypeInv ==
    /\ disk \in Disks
    /\ before \in Disks
    /\ ready \in BOOLEAN
    /\ gpt = NoGpt \/ gpt \in (DOMAIN Layout) \X Attributes
    /\ answer \in {"okay", "fail"}
    /\ unnoticed \in BOOLEAN

DiskInv == TypeInv /\ JobInv /\ ProgressInv /\ SuccessMeansImage /\ TableCurrent

\* The disk has room for the table.
LEMMA FirstBytes == 0 \in Bytes /\ 1 \in Bytes /\ BlockSize \in Nat /\ BlockSize >= 2
<1>1. BlockSize \in Nat /\ BlockSize >= 2 /\ BlockCount \in Nat /\ BlockCount >= 1
  BY DiskAssumption
<1>2. BlockCount * BlockSize >= BlockSize
  BY <1>1
<1>3. Bytes = 0..BlockCount * BlockSize - 1
  BY DiskAssumption
<1>4. BlockCount * BlockSize \in Nat
  BY <1>1
<1>5. QED
  BY <1>1, <1>2, <1>3, <1>4

\* What GptInit finds.
LEMMA TableType ==
    ASSUME NEW d
    PROVE  /\ Table(d) = NoGpt \/ Table(d) \in (DOMAIN Layout) \X Attributes
           /\ Table(d) # NoGpt => Table(d) = <<d[0], d[1]>>
  BY DEF Table, NoGpt

\* It depends on the first two bytes only.
LEMMA TableSame ==
    ASSUME NEW d, NEW e, d[0] = e[0], d[1] = e[1]
    PROVE  Table(d) = Table(e)
  BY DEF Table

\* What is written behind the block of the table keeps the table.
LEMMA FarFromTable ==
    ASSUME NEW d, NEW e, NEW addr \in Nat, NEW n, addr >= BlockSize,
           \A a \in Bytes : e[a] = d[a] \/ Near(a, addr, n)
    PROVE  Table(e) = Table(d)
<1>1. /\ 0 \in 0..BlockSize - 1 /\ 1 \in 0..BlockSize - 1
      /\ 0 * BlockSize + 0 = 0 /\ 0 * BlockSize + 1 = 1
      /\ 1 * BlockSize = BlockSize
  BY FirstBytes
<1>2. 0 \div BlockSize = 0 /\ 1 \div BlockSize = 0
  BY <1>1, InBlock
<1>3. ASSUME NEW b \in addr..addr + n - 1
      PROVE  b \div BlockSize # 0
  <2>1. b \in Nat /\ ~ (b < 1 * BlockSize)
    BY <1>1, FirstBytes
  <2>2. ~ (b \div BlockSize < 1)
    BY <2>1, WholeBlocks
  <2>3. QED
    BY <2>2
<1>4. ~ Near(0, addr, n) /\ ~ Near(1, addr, n)
  BY <1>2, <1>3 DEF Near
<1>5. QED
  BY <1>4, FirstBytes, TableSame

\* The table a command works on is the one on the disk.
LEMMA LoadedCurrent ==
    ASSUME DiskInv
    PROVE  /\ Loaded = Table(disk)
           /\ Loaded = NoGpt \/ Loaded \in (DOMAIN Layout) \X Attributes
<1>1. Loaded = Table(disk)
  BY DEF DiskInv, TableCurrent, Loaded
<1>2. QED
  BY <1>1, TableType

-----------------------------------------------------------------------------
(* Commands, by what they do to the disk.                                   *)

\* The table a command keeps is that of the disk, if it leaves that as it was.
LEMMA TableKept ==
    ASSUME DiskInv, gpt' \in {gpt, NoGpt, Loaded},
           gpt' # NoGpt => Table(disk') = Table(disk)
    PROVE  TableCurrent' /\ (gpt' = NoGpt \/ gpt' \in (DOMAIN Layout) \X Attributes)
<1>1. gpt' # NoGpt => gpt' = Table(disk)
  BY LoadedCurrent DEF DiskInv, TableCurrent
<1>2. gpt' # NoGpt => gpt' = Table(disk')
  BY <1>1
<1>3. gpt' = NoGpt \/ gpt' \in (DOMAIN Layout) \X Attributes
  BY LoadedCurrent DEF DiskInv, TypeInv
<1>4. TableCurrent'
  BY <1>2 DEF TableCurrent, Table
<1>5. QED
  BY <1>3, <1>4

\* A command that ends with the disk as it was.
LEMMA CommandFails ==
    ASSUME DiskInv, NEW promise, Begin(promise), disk' = disk, answer' = "fail", job' = Idle,
           unnoticed' \in BOOLEAN, ready' \in BOOLEAN, gpt' \in {gpt, NoGpt, Loaded}
    PROVE  DiskInv'
<1>1. before' = disk /\ want' = promise /\ disk \in Disks
  BY DEF Begin, DiskInv, TypeInv
<1>2. TableCurrent' /\ (gpt' = NoGpt \/ gpt' \in (DOMAIN Layout) \X Attributes)
  BY TableKept
<1>3. TypeInv'
  BY <1>1, <1>2 DEF TypeInv
<1>4. ProgressInv'
  BY <1>1 DEF ProgressInv, StaysInside, OldOrNew, ChunksInOrder
<1>5. JobInv' /\ SuccessMeansImage'
  BY DEF JobInv, SuccessMeansImage, OkayMeansImage
<1>6. QED
  BY <1>2, <1>3, <1>4, <1>5 DEF DiskInv

\* A command that writes at once: in blocks of its target and behind a table it keeps; old or
\* new bytes, if nothing failed unnoticed; and all that is sure, if it answers OKAY too.
LEMMA CommandWrites ==
    ASSUME DiskInv, NEW promise, Begin(promise), job' = Idle, ready' \in BOOLEAN,
           disk' \in Disks, unnoticed' \in BOOLEAN, answer' \in {"okay", "fail"},
           gpt' \in {gpt, NoGpt, Loaded}, gpt' # NoGpt => Table(disk') = Table(disk),
           \A a \in Bytes : disk'[a] # disk[a] =>
               \E b \in promise.target : a \div BlockSize = b \div BlockSize,
           promise.cuts = {},
           ~ unnoticed' =>
               /\ \A a \in Bytes : disk'[a] \in {disk[a], promise.disk[a]}
               /\ answer' = "okay" => \A a \in promise.sure : disk'[a] = promise.disk[a]
    PROVE  DiskInv'
<1>1. before' = disk /\ want' = promise /\ disk \in Disks
  BY DEF Begin, DiskInv, TypeInv
<1>2. TableCurrent' /\ (gpt' = NoGpt \/ gpt' \in (DOMAIN Layout) \X Attributes)
  BY TableKept
<1>3. TypeInv'
  BY <1>1, <1>2 DEF TypeInv
<1>4. StaysInside'
  BY <1>1 DEF StaysInside
<1>5. OldOrNew' /\ ChunksInOrder'
  BY <1>1 DEF OldOrNew, ChunksInOrder
<1>6. SuccessMeansImage'
  BY <1>1 DEF SuccessMeansImage, OkayMeansImage
<1>7. JobInv' /\ ProgressInv'
  BY <1>4, <1>5 DEF JobInv, ProgressInv
<1>8. QED
  BY <1>2, <1>3, <1>6, <1>7 DEF DiskInv

\* A plain image.
LEMMA PlainStep ==
    ASSUME DiskInv, NEW addr \in Nat, NEW room \in Nat, NEW img, ~ IsSparse(img),
           img.plain \in Seq(Byte), Len(img.plain) <= room,
           Begin(Over(disk, addr, room, img)), WritePlain(addr, img.plain),
           ready' \in BOOLEAN, gpt' \in {NoGpt, Loaded}, gpt' # NoGpt => addr >= BlockSize
    PROVE  DiskInv'
<1> DEFINE promise == Over(disk, addr, room, img)
           len == Len(img.plain)
<1>1. disk \in Disks
  BY DEF DiskInv, TypeInv
<1>2. PICK r \in blockdev_write_bytes(disk, addr, img.plain) :
         /\ disk' = r.disk /\ unnoticed' = r.unnoticed
         /\ Respond(IF r.written = len THEN "okay" ELSE "fail")
  BY DEF WritePlain
<1>3. Outcome(disk, addr, img.plain, r)
  BY <1>1, WriteBytes
<1>4. /\ disk' \in Disks /\ unnoticed' \in BOOLEAN
      /\ \A a \in Bytes : disk'[a] = disk[a] \/ Near(a, addr, len)
      /\ ~ unnoticed' =>
           /\ \A a \in Bytes : disk'[a] = disk[a] \/ disk'[a] = Patch(disk, addr, img.plain)[a]
           /\ r.written = len => disk' = Patch(disk, addr, img.plain)
  BY <1>2, <1>3 DEF Outcome
<1>5. /\ job' = Idle
      /\ answer' \in {"okay", "fail"}
      /\ answer' = "okay" => r.written = len
  BY <1>2 DEF Respond
<1>6. /\ \A a \in Bytes : promise.disk[a] = Patch(disk, addr, img.plain)[a]
      /\ promise.sure = Bytes
      /\ promise.cuts = {}
      /\ \A b \in Bytes : b \in addr..addr + len - 1 => b \in promise.target
  BY <1>1, OverPlain
<1>7. Begin(promise) /\ len \in Nat
  OBVIOUS
<1> HIDE DEF promise, len
<1>8. ASSUME NEW a \in Bytes, disk'[a] # disk[a]
      PROVE  \E b \in promise.target : a \div BlockSize = b \div BlockSize
  <2>1. PICK b \in addr..addr + len - 1 : a \div BlockSize = b \div BlockSize
    BY <1>4, <1>8 DEF Near
  <2>2. b \in Nat
    BY <1>7
  <2>3. b \in Bytes
    BY <2>1, <2>2, SameBlock
  <2>4. QED
    BY <1>6, <2>1, <2>3
<1>9. gpt' # NoGpt => Table(disk') = Table(disk)
  BY <1>4, FarFromTable
<1>10. ASSUME ~ unnoticed'
       PROVE  /\ \A a \in Bytes : disk'[a] \in {disk[a], promise.disk[a]}
              /\ answer' = "okay" => \A a \in promise.sure : disk'[a] = promise.disk[a]
  BY <1>4, <1>5, <1>6, <1>10
<1>11. gpt' \in {gpt, NoGpt, Loaded}
  OBVIOUS
<1>12. QED
  BY <1>4, <1>5, <1>6, <1>7, <1>8, <1>9, <1>10, <1>11, CommandWrites

\* A sparse image, up to its first chunk.
LEMMA BeginSparseStep ==
    ASSUME DiskInv, NEW addr \in Nat, NEW room \in Nat, NEW img \in SparseImages,
           Begin(Over(disk, addr, room, img)), BeginSparse(addr, room, img),
           ready' \in BOOLEAN, gpt' \in {NoGpt, Loaded}, gpt' # NoGpt => addr >= BlockSize
    PROVE  DiskInv'
<1>1. CASE img.size < FileHeader \/ ~ img.hdr_ok
  <2>1. disk' = disk /\ answer' = "fail" /\ job' = Idle /\ unnoticed' = FALSE
    BY <1>1 DEF BeginSparse, Respond
  <2>2. QED
    BY <2>1, CommandFails
<1>2. CASE ~ (img.size < FileHeader \/ ~ img.hdr_ok)
  <2>1. /\ disk' = disk /\ answer' = answer /\ unnoticed' = FALSE
        /\ job' = [pc |-> "sparse", img |-> img, next |-> 1, addr |-> addr, room |-> room,
                   left |-> img.size - FileHeader]
    BY <1>2 DEF BeginSparse
  <2>2. before' = disk /\ want' = Over(disk, addr, room, img) /\ disk \in Disks
    BY DEF Begin, DiskInv, TypeInv
  <2>k. TableCurrent' /\ (gpt' = NoGpt \/ gpt' \in (DOMAIN Layout) \X Attributes)
    BY <2>1, TableKept
  <2>3. TypeInv'
    BY <2>1, <2>2, <2>k DEF DiskInv, TypeInv
  <2>4. job' # Idle
    BY <2>1 DEF Idle
  <2>5. /\ job'.img = img /\ job'.next = 1 /\ job'.addr = addr /\ job'.room = room
        /\ ChunkStart(img, 1) = 0
    BY <2>1, ChunkStarts
  <2>6. JobStart' = 0
    BY <2>5 DEF JobStart
  <2>7. img.size - FileHeader \in Nat /\ 1 \in 1..Len(img.chunks) + 1
    BY <1>2, SparseType, DiskAssumption
  <2>8. JobInv'
    <3>1. job' \in [pc : {"sparse"}, img : SparseImages, next : Nat,
                    addr : Nat, room : Nat, left : Nat]
      BY <2>1, <2>7
    <3>2. addr - 0 = addr /\ room + 0 = room /\ 0 <= addr
      OBVIOUS
    <3>3. want' = Over(before', job'.addr - JobStart', job'.room + JobStart', job'.img)
      BY <2>2, <2>5, <2>6, <3>2
    <3>4. gpt' # NoGpt => job'.addr - JobStart' >= BlockSize
      BY <2>5, <2>6
    <3>5. QED
      BY <2>5, <2>6, <2>7, <3>1, <3>2, <3>3, <3>4 DEF JobInv
  <2>9. UpTo(job.addr)'
    <3>1. SUFFICES ASSUME NEW a \in Bytes
                   PROVE  disk[a] = IF a < addr THEN Over(disk, addr, room, img).disk[a]
                                    ELSE disk[a]
      BY <2>1, <2>2, <2>5 DEF UpTo
    <3>2. a < addr => a - addr \notin DOMAIN ImageBytes(img)
      BY BytesNat, PastImage
    <3>3. QED
      BY <2>2, <3>2, OverByte
  <2>10. ProgressInv'
    BY <2>1, <2>2, <2>4, <2>9 DEF ProgressInv, StaysInside
  <2>11. SuccessMeansImage'
    BY <2>4 DEF SuccessMeansImage, OkayMeansImage
  <2>12. QED
    BY <2>k, <2>3, <2>8, <2>10, <2>11 DEF DiskInv
<1>3. QED
  BY <1>1, <1>2

\* What is promised of the bytes of chunk i.
LEMMA ChunkPromise ==
    ASSUME NEW d \in Disks, NEW img \in SparseImages, NEW i \in 1..Len(img.chunks),
           NEW base \in Nat, NEW room \in Nat, ChunkStart(img, i + 1) <= room,
           NEW a \in Bytes, NEW n \in Nat, a = base + ChunkStart(img, i) + n, n < ChunkSize(img, i)
    PROVE  /\ Over(d, base, room, img).disk[a]
                = IF HasByte(img.chunks[i], n) THEN ByteOf(img.chunks[i], n) ELSE d[a]
           /\ HasByte(img.chunks[i], n) => a \in Over(d, base, room, img).target
<1>1. i \in 1..Len(img.chunks) + 1 /\ i + 1 \in 1..Len(img.chunks) + 1
  BY SparseType
<1>2. ChunkStart(img, i) \in Nat /\ ChunkStart(img, i + 1) \in Nat /\ a \in Nat
  BY <1>1, ChunkStarts, BytesNat
<1>3. PICK o \in Int : o = a - base
  BY <1>2
<1>4. InChunk(img, i, o)
  <2>1. ChunkSize(img, i) \in Nat /\ ChunkStart(img, i + 1) = ChunkStart(img, i) + ChunkSize(img, i)
    BY ChunkSizeType, ChunkStarts
  <2>2. QED
    BY <1>2, <1>3, <2>1 DEF InChunk
<1>5. a < base + room /\ o - ChunkStart(img, i) = n
  BY <1>2, <1>3, <1>4 DEF InChunk
<1>6. /\ o \in DOMAIN ImageBytes(img) <=> HasByte(img.chunks[i], o - ChunkStart(img, i))
      /\ HasByte(img.chunks[i], o - ChunkStart(img, i)) =>
           ImageBytes(img)[o] = ByteOf(img.chunks[i], o - ChunkStart(img, i))
  BY <1>4, InsideChunk
<1>7. /\ a \in Over(d, base, room, img).target <=> o \in DOMAIN ImageBytes(img)
      /\ Over(d, base, room, img).disk[a]
            = IF o \in DOMAIN ImageBytes(img) THEN ImageBytes(img)[o] ELSE d[a]
  BY <1>3, <1>5, OverByte
<1>8. QED
  BY <1>5, <1>6, <1>7

\* The job of an image that has a chunk left.
LEMMA JobTypes ==
    ASSUME DiskInv, job # Idle, job.next <= Len(job.img.chunks)
    PROVE  /\ job.img \in SparseImages
           /\ job.next \in 1..Len(job.img.chunks)
           /\ job.img.chunks[job.next] \in ChunkRecords
           /\ ChunkSize(job.img, job.next) \in Nat
           /\ job.addr \in Nat /\ job.room \in Nat /\ job.left \in Nat
           /\ JobStart \in Nat /\ JobStart <= job.addr
           /\ ChunkStart(job.img, job.next + 1) = JobStart + ChunkSize(job.img, job.next)
           /\ disk \in Disks /\ before \in Disks
           /\ want = Over(before, job.addr - JobStart, job.room + JobStart, job.img)
           /\ unnoticed \/ UpTo(job.addr)
           /\ gpt # NoGpt => job.addr - JobStart >= BlockSize
<1>1. /\ job \in [pc : {"sparse"}, img : SparseImages, next : Nat,
                  addr : Nat, room : Nat, left : Nat]
      /\ job.next \in 1..Len(job.img.chunks) + 1
      /\ JobStart <= job.addr
      /\ want = Over(before, job.addr - JobStart, job.room + JobStart, job.img)
      /\ gpt # NoGpt => job.addr - JobStart >= BlockSize
  BY DEF DiskInv, JobInv
<1>2. /\ job.img \in SparseImages /\ job.next \in Nat
      /\ job.addr \in Nat /\ job.room \in Nat /\ job.left \in Nat
  BY <1>1
<1>3. job.next \in 1..Len(job.img.chunks)
  BY <1>1, <1>2, SparseType
<1>4. job.img.chunks[job.next] \in ChunkRecords /\ ChunkSize(job.img, job.next) \in Nat
  BY <1>2, <1>3, SparseType, ChunkSizeType
<1>5. JobStart \in Nat
  BY <1>1, <1>2, ChunkStarts DEF JobStart
<1>6. ChunkStart(job.img, job.next + 1) = JobStart + ChunkSize(job.img, job.next)
  BY <1>2, <1>3, ChunkStarts DEF JobStart
<1>7. disk \in Disks /\ before \in Disks /\ (unnoticed \/ UpTo(job.addr))
  BY DEF DiskInv, TypeInv, ProgressInv
<1>8. QED
  BY <1>1, <1>2, <1>3, <1>4, <1>5, <1>6, <1>7

\* The data of a chunk that passed the checks is what its size says.
LEMMA GoodChunk ==
    ASSUME DiskInv, job # Idle, job.next <= Len(job.img.chunks), ~ BadChunk(job)
    PROVE  LET c == job.img.chunks[job.next]
           IN /\ ChunkSize(job.img, job.next) <= job.room
              /\ ChunkHeader + Payload(job.img, job.next) <= job.left
              /\ Payload(job.img, job.next) \in Nat
              /\ c.data \in Seq(Byte)
              /\ c.type = "raw" => Len(c.data) = ChunkSize(job.img, job.next)
              /\ c.type = "fill" => Len(c.data) = Word
<1> DEFINE c == job.img.chunks[job.next]
           size == ChunkSize(job.img, job.next)
           pay == Payload(job.img, job.next)
<1>1. size \in Nat /\ job.room \in Nat /\ job.left \in Nat /\ c \in ChunkRecords
  BY JobTypes
<1>2. /\ ChunkHeader \in Nat /\ Word \in Nat
      /\ c.data \in Seq(Byte) /\ Len(c.data) \in Nat
      /\ c.total \in Nat
  <2>1. ChunkHeader \in Nat /\ Word \in Nat
    BY DiskAssumption
  <2> HIDE DEF c
  <2>2. c.data \in Seq(Byte) /\ Len(c.data) \in Nat /\ c.total \in Nat
    BY <1>1 DEF ChunkRecords
  <2>3. QED
    BY <2>1, <2>2
<1>3. /\ c.type = "raw" => pay = size
      /\ c.type = "fill" => pay = Word
      /\ pay \in Nat
  BY <1>1, <1>2 DEF Payload
<1>4. /\ ~ (job.left < ChunkHeader + pay)
      /\ ~ (job.room < size)
      /\ c.total = ChunkHeader + pay
  BY DEF BadChunk, TooBig
<1>5. c.total < ChunkHeader \/ c.total = ChunkHeader + Len(c.data)
  BY JobTypes, SparseType
<1> HIDE DEF c, size, pay
<1>6. Len(c.data) = pay
  BY <1>2, <1>3, <1>4, <1>5
<1>7. size <= job.room /\ ChunkHeader + pay <= job.left
  BY <1>1, <1>2, <1>3, <1>4
<1>8. QED
  BY <1>2, <1>3, <1>6, <1>7 DEF c, size, pay

\* All bytes up to the n-th of the chunk are new, all others old.
Advances(d, n) ==
    \A a \in Bytes : d[a] = IF a < job.addr + n THEN want.disk[a] ELSE before[a]

\* The bytes of the chunk are old or new, those before it new and those after it old.
PartWritten(d, n) ==
    \A a \in Bytes : /\ a < job.addr => d[a] = want.disk[a]
                     /\ a >= job.addr + n => d[a] = before[a]
                     /\ d[a] \in {before[a], want.disk[a]}

\* The image has the bytes of data for the chunk.
IsChunkData(data) ==
    /\ Len(data) = ChunkSize(job.img, job.next)
    /\ \A x \in 0..Len(data) - 1 :
          /\ HasByte(job.img.chunks[job.next], x)
          /\ ByteOf(job.img.chunks[job.next], x) = data[x + 1]

\* What is promised of those bytes.
LEMMA ChunkDataPromise ==
    ASSUME DiskInv, job # Idle, job.next <= Len(job.img.chunks), ~ BadChunk(job),
           NEW data \in Seq(Byte), IsChunkData(data),
           NEW a \in Bytes, job.addr <= a, a < job.addr + Len(data)
    PROVE  want.disk[a] = data[a - job.addr + 1] /\ a \in want.target
<1> DEFINE addr == job.addr
           base == job.addr - JobStart
<1>1. /\ addr \in Nat /\ JobStart \in Nat /\ base \in Nat /\ job.room \in Nat
      /\ before \in Disks /\ Len(data) \in Nat
      /\ job.img \in SparseImages /\ job.next \in 1..Len(job.img.chunks)
      /\ ChunkStart(job.img, job.next + 1) = JobStart + Len(data)
      /\ ChunkStart(job.img, job.next) = JobStart
      /\ Len(data) = ChunkSize(job.img, job.next)
  BY JobTypes DEF JobStart, IsChunkData
<1>2. /\ job.room + JobStart \in Nat
      /\ ChunkStart(job.img, job.next + 1) <= job.room + JobStart
  <2>1. ChunkSize(job.img, job.next) <= job.room /\ ChunkSize(job.img, job.next) \in Nat
    BY GoodChunk, JobTypes
  <2>2. ChunkStart(job.img, job.next + 1) = JobStart + ChunkSize(job.img, job.next)
    BY <1>1
  <2>3. QED
    BY <1>1, <2>1, <2>2
<1>3. a \in Nat
  BY BytesNat
<1> DEFINE x == a - addr
           img == job.img
           i == job.next
           room == job.room + JobStart
<1>4. want = Over(before, base, room, img)
  BY JobTypes
<1>5. /\ x \in Nat /\ x \in 0..Len(data) - 1 /\ x < ChunkSize(img, i)
      /\ a = base + ChunkStart(img, i) + x
  <2>1. addr <= a /\ a < addr + Len(data)
    OBVIOUS
  <2>2. base + ChunkStart(img, i) = addr
    BY <1>1
  <2> HIDE DEF addr
  <2>3. x \in Nat /\ x < Len(data) /\ a = addr + x
    BY <1>1, <1>3, <2>1
  <2>4. Len(data) = ChunkSize(img, i)
    BY <1>1
  <2> HIDE DEF base, img, i, x
  <2>5. QED
    BY <1>1, <2>2, <2>3, <2>4
<1>6. HasByte(img.chunks[i], x) /\ ByteOf(img.chunks[i], x) = data[x + 1]
  BY <1>5 DEF IsChunkData
<1>7. /\ ChunkStart(img, i + 1) <= room /\ room \in Nat /\ base \in Nat
      /\ img \in SparseImages /\ i \in 1..Len(img.chunks) /\ before \in Disks
  BY <1>1, <1>2
<1> HIDE DEF base, img, i, room, x
<1>8. /\ Over(before, base, room, img).disk[a]
           = IF HasByte(img.chunks[i], x) THEN ByteOf(img.chunks[i], x) ELSE before[a]
      /\ HasByte(img.chunks[i], x) => a \in Over(before, base, room, img).target
  BY <1>5, <1>7, ChunkPromise
<1>9. want.disk[a] = data[x + 1] /\ a \in want.target
  BY <1>4, <1>6, <1>8
<1>10. QED
  BY <1>9 DEF x

\* Writing all of a chunk takes the disk on to the next one.
LEMMA ChunkAdvances ==
    ASSUME DiskInv, job # Idle, job.next <= Len(job.img.chunks), ~ BadChunk(job), UpTo(job.addr),
           NEW data \in Seq(Byte), IsChunkData(data)
    PROVE  Advances(Patch(disk, job.addr, data), Len(data))
<1>1. job.addr \in Nat /\ disk \in Disks /\ Len(data) \in Nat
  BY JobTypes
<1>2. SUFFICES ASSUME NEW a \in Bytes
               PROVE  Patch(disk, job.addr, data)[a]
                        = IF a < job.addr + Len(data) THEN want.disk[a] ELSE before[a]
  BY DEF Advances
<1>3. PICK addr \in Nat : addr = job.addr
  BY <1>1
<1>4. a \in Nat
  BY BytesNat
<1>5. Patch(disk, addr, data)[a]
        = IF addr <= a /\ a < addr + Len(data) THEN data[a - addr + 1] ELSE disk[a]
  BY <1>1, PatchIs
<1>6. disk[a] = IF a < addr THEN want.disk[a] ELSE before[a]
  BY <1>3 DEF UpTo
<1>7. addr <= a /\ a < addr + Len(data) => want.disk[a] = data[a - addr + 1]
  BY <1>3, ChunkDataPromise
<1>8. QED
  BY <1>1, <1>3, <1>4, <1>5, <1>6, <1>7

\* A chunk without data leaves its bytes as they were, and that is what is promised of them.
LEMMA ChunkSkipped ==
    ASSUME DiskInv, job # Idle, job.next <= Len(job.img.chunks), ~ BadChunk(job), UpTo(job.addr),
           job.img.chunks[job.next].type \notin {"raw", "fill"}
    PROVE  Advances(disk, ChunkSize(job.img, job.next))
<1> DEFINE addr == job.addr
           base == job.addr - JobStart
           c == job.img.chunks[job.next]
           size == ChunkSize(job.img, job.next)
<1>1. /\ addr \in Nat /\ JobStart \in Nat /\ base \in Nat /\ job.room \in Nat
      /\ disk \in Disks /\ before \in Disks /\ size \in Nat
      /\ job.img \in SparseImages /\ job.next \in 1..Len(job.img.chunks)
      /\ ChunkStart(job.img, job.next + 1) = JobStart + size
      /\ ChunkStart(job.img, job.next) = JobStart
  BY JobTypes DEF JobStart
<1>2. /\ job.room + JobStart \in Nat
      /\ ChunkStart(job.img, job.next + 1) <= job.room + JobStart
  <2>1. ChunkSize(job.img, job.next) <= job.room /\ ChunkSize(job.img, job.next) \in Nat
    BY GoodChunk, JobTypes
  <2>2. ChunkStart(job.img, job.next + 1) = JobStart + ChunkSize(job.img, job.next)
    BY <1>1
  <2>3. QED
    BY <1>1, <2>1, <2>2
<1>3. SUFFICES ASSUME NEW a \in Bytes
               PROVE  disk[a] = IF a < addr + size THEN want.disk[a] ELSE before[a]
  BY DEF Advances
<1>4. a \in Nat
  BY BytesNat
<1>5. disk[a] = IF a < addr THEN want.disk[a] ELSE before[a]
  BY JobTypes DEF UpTo
<1>6. CASE addr <= a /\ a < addr + size
  <2> DEFINE x == a - addr
             img == job.img
             i == job.next
             room == job.room + JobStart
  <2>1. want = Over(before, base, room, img)
    BY JobTypes
  <2>2. x \in Nat /\ x < ChunkSize(img, i) /\ a = base + ChunkStart(img, i) + x
    <3> HIDE DEF addr
    <3>1. x \in Nat /\ x < size /\ a = addr + x
      BY <1>1, <1>4, <1>6
    <3>2. base + ChunkStart(img, i) = addr
      BY <1>1 DEF addr
    <3>3. QED
      BY <1>1, <3>1, <3>2
  <2>3. ~ HasByte(img.chunks[i], x)
    BY DEF HasByte
  <2>4. /\ ChunkStart(img, i + 1) <= room /\ room \in Nat /\ base \in Nat
        /\ img \in SparseImages /\ i \in 1..Len(img.chunks) /\ before \in Disks
    BY <1>1, <1>2
  <2> HIDE DEF base, x, img, i, room
  <2>5. Over(before, base, room, img).disk[a]
          = IF HasByte(img.chunks[i], x) THEN ByteOf(img.chunks[i], x) ELSE before[a]
    BY <2>2, <2>4, ChunkPromise
  <2>6. want.disk[a] = before[a]
    BY <2>1, <2>3, <2>5
  <2>7. QED
    BY <1>1, <1>4, <1>5, <1>6, <2>6
<1>7. CASE ~ (addr <= a /\ a < addr + size)
  BY <1>1, <1>4, <1>5, <1>7
<1>8. QED
  BY <1>6, <1>7

\* Writing data of a chunk, or nothing, whatever fails.
LEMMA ChunkDataResult ==
    ASSUME DiskInv, job # Idle, job.next <= Len(job.img.chunks), ~ BadChunk(job),
           NEW data \in Seq(Byte), IsChunkData(data),
           NEW r, Outcome(disk, job.addr, data, r)
    PROVE  /\ r.disk \in Disks /\ r.unnoticed \in BOOLEAN
           /\ \A a \in Bytes : r.disk[a] # disk[a] =>
                 \E b \in want.target : a \div BlockSize = b \div BlockSize
           /\ gpt # NoGpt => Table(r.disk) = Table(disk)
           /\ ~ unnoticed /\ ~ r.unnoticed =>
                 /\ PartWritten(r.disk, Len(data))
                 /\ r.written = Len(data) => Advances(r.disk, Len(data))
<1>1. /\ job.addr \in Nat /\ disk \in Disks /\ before \in Disks /\ Len(data) \in Nat
      /\ gpt # NoGpt => job.addr >= BlockSize
  <2>1. gpt # NoGpt => job.addr - JobStart >= BlockSize
    BY JobTypes
  <2>2. job.addr \in Nat /\ JobStart \in Nat /\ BlockSize \in Nat
    BY JobTypes, DiskAssumption
  <2>3. gpt # NoGpt => job.addr >= BlockSize
    BY <2>1, <2>2
  <2>4. disk \in Disks /\ before \in Disks /\ Len(data) \in Nat
    BY JobTypes
  <2>5. QED
    BY <2>2, <2>3, <2>4
<1>2. PICK addr \in Nat : addr = job.addr
  BY <1>1
<1>3. /\ r.disk \in Disks /\ r.unnoticed \in BOOLEAN
      /\ \A a \in Bytes : r.disk[a] = disk[a] \/ Near(a, addr, Len(data))
      /\ ~ r.unnoticed =>
           /\ \A a \in Bytes : r.disk[a] = disk[a] \/ r.disk[a] = Patch(disk, addr, data)[a]
           /\ r.written = Len(data) => r.disk = Patch(disk, addr, data)
  BY <1>2 DEF Outcome
<1>4. ASSUME NEW a \in Bytes, r.disk[a] # disk[a]
      PROVE  \E b \in want.target : a \div BlockSize = b \div BlockSize
  <2>1. PICK b \in addr..addr + Len(data) - 1 : a \div BlockSize = b \div BlockSize
    BY <1>3, <1>4 DEF Near
  <2>2. b \in Nat /\ addr <= b /\ b < addr + Len(data)
    BY <1>1
  <2>3. b \in Bytes
    BY <2>1, <2>2, SameBlock
  <2>4. b \in want.target
    BY <1>2, <2>2, <2>3, ChunkDataPromise
  <2>5. QED
    BY <2>1, <2>4
<1>5. gpt # NoGpt => Table(r.disk) = Table(disk)
  BY <1>1, <1>2, <1>3, FarFromTable
<1>6. ASSUME ~ unnoticed, ~ r.unnoticed
      PROVE  /\ PartWritten(r.disk, Len(data))
             /\ r.written = Len(data) => Advances(r.disk, Len(data))
  <2>1. UpTo(job.addr)
    BY <1>6, JobTypes
  <2>2. Advances(Patch(disk, job.addr, data), Len(data))
    BY <2>1, ChunkAdvances
  <2>3. ASSUME NEW a \in Bytes
        PROVE  /\ a < job.addr => r.disk[a] = want.disk[a]
               /\ a >= job.addr + Len(data) => r.disk[a] = before[a]
               /\ r.disk[a] \in {before[a], want.disk[a]}
    <3>1. a \in Nat
      BY BytesNat
    <3>2. disk[a] = IF a < addr THEN want.disk[a] ELSE before[a]
      BY <1>2, <2>1 DEF UpTo
    <3>3. Patch(disk, addr, data)[a]
            = IF a < addr + Len(data) THEN want.disk[a] ELSE before[a]
      BY <1>2, <2>2 DEF Advances
    <3>4. r.disk[a] = disk[a] \/ r.disk[a] = Patch(disk, addr, data)[a]
      BY <1>3, <1>6
    <3>5. QED
      BY <1>1, <1>2, <3>1, <3>2, <3>3, <3>4
  <2>4. r.written = Len(data) => Advances(r.disk, Len(data))
    BY <1>2, <1>3, <1>6, <2>2
  <2>5. QED
    BY <2>3, <2>4 DEF PartWritten
<1>7. QED
  BY <1>3, <1>4, <1>5, <1>6

\* Writing a chunk, whatever fails.
LEMMA ChunkResult ==
    ASSUME DiskInv, job # Idle, job.next <= Len(job.img.chunks), ~ BadChunk(job),
           NEW r \in ChunkResults(job)
    PROVE  /\ r.disk \in Disks /\ r.unnoticed \in BOOLEAN
           /\ \A a \in Bytes : r.disk[a] # disk[a] =>
                 \E b \in want.target : a \div BlockSize = b \div BlockSize
           /\ gpt # NoGpt => Table(r.disk) = Table(disk)
           /\ ~ unnoticed /\ ~ r.unnoticed =>
                 /\ PartWritten(r.disk, ChunkSize(job.img, job.next))
                 /\ r.ok => Advances(r.disk, ChunkSize(job.img, job.next))
<1> DEFINE c == job.img.chunks[job.next]
           size == ChunkSize(job.img, job.next)
<1>1. job.addr \in Nat /\ disk \in Disks /\ size \in Nat /\ c.data \in Seq(Byte)
  BY JobTypes, GoodChunk
<1>2. ASSUME NEW data \in Seq(Byte), IsChunkData(data),
             NEW s, Outcome(disk, job.addr, data, s),
             r = [disk |-> s.disk, ok |-> s.written = size, unnoticed |-> s.unnoticed]
      PROVE  /\ r.disk \in Disks /\ r.unnoticed \in BOOLEAN
             /\ \A a \in Bytes : r.disk[a] # disk[a] =>
                   \E b \in want.target : a \div BlockSize = b \div BlockSize
             /\ gpt # NoGpt => Table(r.disk) = Table(disk)
             /\ ~ unnoticed /\ ~ r.unnoticed =>
                   PartWritten(r.disk, size) /\ (r.ok => Advances(r.disk, size))
  <2>1. Len(data) = size
    BY <1>2 DEF IsChunkData
  <2>2. r.disk = s.disk /\ r.unnoticed = s.unnoticed /\ r.ok = (s.written = size)
    BY <1>2
  <2> HIDE DEF size
  <2>3. /\ s.disk \in Disks /\ s.unnoticed \in BOOLEAN
        /\ \A a \in Bytes : s.disk[a] # disk[a] =>
              \E b \in want.target : a \div BlockSize = b \div BlockSize
        /\ gpt # NoGpt => Table(s.disk) = Table(disk)
        /\ ~ unnoticed /\ ~ s.unnoticed =>
              /\ PartWritten(s.disk, size)
              /\ s.written = size => Advances(s.disk, size)
    BY <1>2, <2>1, ChunkDataResult
  <2>4. QED
    BY <2>2, <2>3
<1>3. CASE c.type = "raw"
  <2>1. Len(c.data) = size
    BY <1>3, GoodChunk
  <2>2. IsChunkData(c.data)
    BY <1>3, <2>1 DEF IsChunkData, HasByte, ByteOf
  <2>3. PICK s \in blockdev_write_bytes(disk, job.addr, c.data) :
           r = [disk |-> s.disk, ok |-> s.written = size, unnoticed |-> s.unnoticed]
    BY <1>3 DEF ChunkResults
  <2> HIDE DEF c, size
  <2>4. Outcome(disk, job.addr, c.data, s)
    BY <1>1, WriteBytes
  <2>5. QED
    BY <1>1, <1>2, <2>2, <2>3, <2>4 DEF size
<1>4. CASE c.type = "fill"
  <2> DEFINE data == Filled(size, c.data)
  <2>1. Len(c.data) = Word
    BY <1>4, GoodChunk
  <2>2. /\ data \in Seq(Byte) /\ Len(data) = size
        /\ \A i \in 1..size : data[i] = c.data[((i - 1) % Word) + 1]
    BY <1>1, <2>1, FilledIs
  <2>3. \A x \in 0..Len(data) - 1 : HasByte(c, x) /\ ByteOf(c, x) = data[x + 1]
    <3>1. SUFFICES ASSUME NEW x \in 0..Len(data) - 1
                   PROVE  HasByte(c, x) /\ ByteOf(c, x) = data[x + 1]
      OBVIOUS
    <3>2. x + 1 \in 1..size /\ (x + 1) - 1 = x
      BY <1>1, <2>2
    <3>3. data[x + 1] = c.data[(x % Word) + 1]
      BY <2>2, <3>2
    <3> HIDE DEF data
    <3>4. QED
      BY <1>4, <3>3 DEF HasByte, ByteOf
  <2>4. IsChunkData(data)
    <3> HIDE DEF data
    <3>1. QED
      BY <2>2, <2>3 DEF IsChunkData
  <2>5. PICK s \in blockdev_fill_write_bytes(disk, job.addr, size, c.data) :
           r = [disk |-> s.disk, ok |-> s.written = size, unnoticed |-> s.unnoticed]
    BY <1>4 DEF ChunkResults
  <2>6. Outcome(disk, job.addr, data, s)
    <3> HIDE DEF c, size
    <3>1. QED
      BY <1>1, <2>1, FillBytes
  <2> HIDE DEF data
  <2>7. QED
    BY <1>2, <2>2, <2>4, <2>5, <2>6
<1>5. CASE c.type \notin {"raw", "fill"}
  <2>1. r = [disk |-> disk, ok |-> TRUE, unnoticed |-> FALSE]
    BY <1>5 DEF ChunkResults
  <2>2. r.disk = disk /\ r.unnoticed = FALSE
    BY <2>1
  <2>3. ASSUME ~ unnoticed
        PROVE  PartWritten(disk, size) /\ Advances(disk, size)
    <3>1. UpTo(job.addr)
      BY <2>3, JobTypes
    <3>2. Advances(disk, size)
      BY <1>5, <3>1, ChunkSkipped
    <3> HIDE DEF size
    <3>3. PartWritten(disk, size)
      <4>1. ASSUME NEW a \in Bytes
            PROVE  /\ a < job.addr => disk[a] = want.disk[a]
                   /\ a >= job.addr + size => disk[a] = before[a]
                   /\ disk[a] \in {before[a], want.disk[a]}
        <5>1. a \in Nat
          BY BytesNat
        <5>2. /\ disk[a] = IF a < job.addr THEN want.disk[a] ELSE before[a]
              /\ disk[a] = IF a < job.addr + size THEN want.disk[a] ELSE before[a]
          BY <3>1, <3>2 DEF UpTo, Advances
        <5>3. QED
          BY <1>1, <5>1, <5>2
      <4>2. QED
        BY <4>1 DEF PartWritten
    <3>4. QED
      BY <3>2, <3>3
  <2> HIDE DEF size
  <2>4. QED
    BY <1>1, <2>2, <2>3 DEF size
<1>6. QED
  BY <1>3, <1>4, <1>5

\* A chunk that fails leaves all chunks before it complete and those after it alone.
LEMMA CutsBetween ==
    ASSUME DiskInv, job # Idle, job.next <= Len(job.img.chunks), NEW cut \in want.cuts
    PROVE  /\ cut \in Int
           /\ cut <= job.addr \/ cut >= job.addr + ChunkSize(job.img, job.next)
<1> DEFINE img == job.img
           size == ChunkSize(job.img, job.next)
           base == job.addr - JobStart
<1>1. /\ img \in SparseImages /\ job.next \in 1..Len(img.chunks) /\ size \in Nat
      /\ job.addr \in Nat /\ JobStart \in Nat /\ before \in Disks
      /\ ChunkStart(img, job.next + 1) = JobStart + size
      /\ ChunkStart(img, job.next) = JobStart
      /\ want = Over(before, base, job.room + JobStart, img)
  BY JobTypes DEF JobStart
<1>2. IsSparse(img) /\ DOMAIN img.chunks = 1..Len(img.chunks) /\ Len(img.chunks) \in Nat
  BY <1>1, SparseType DEF SparseImages
<1> HIDE DEF img, size, base
<1>3. PICK i \in 1..Len(img.chunks) : cut = base + ChunkStart(img, i)
  <2>1. want.cuts = {base + ChunkStart(img, i) : i \in DOMAIN img.chunks}
    BY <1>1, <1>2, OverParts
  <2>2. QED
    BY <1>2, <2>1
<1>4. ChunkStart(img, i) \in Nat /\ base \in Int /\ base + JobStart = job.addr
  BY <1>1, <1>2, ChunkStarts DEF base
<1>5. CASE i <= job.next
  <2>1. ChunkStart(img, i) <= JobStart
    BY <1>1, <1>2, <1>5, ChunkStartsUp
  <2>2. QED
    BY <1>1, <1>3, <1>4, <2>1 DEF size, img
<1>6. CASE i > job.next
  <2>1. job.next + 1 <= i /\ job.next + 1 \in 1..Len(img.chunks) + 1 /\ i \in 1..Len(img.chunks) + 1
    BY <1>1, <1>2, <1>6
  <2>2. JobStart + size <= ChunkStart(img, i)
    BY <1>1, <2>1, ChunkStartsUp
  <2>3. cut >= job.addr + size
    BY <1>1, <1>3, <1>4, <2>2
  <2>4. QED
    BY <1>3, <1>4, <2>3 DEF size, img
<1>7. QED
  BY <1>1, <1>5, <1>6

\* write_sparse_image, one chunk.
LEMMA WriteChunkStep ==
    ASSUME DiskInv, WriteChunk
    PROVE  DiskInv'
<1> DEFINE i == job.next
           img == job.img
           size == ChunkSize(img, i)
<1>1. /\ job # Idle /\ job.next <= Len(job.img.chunks)
      /\ ready' = ready /\ gpt' = gpt /\ before' = before /\ want' = want
  BY DEF WriteChunk
<1>2. /\ TypeInv /\ TableCurrent /\ StaysInside /\ (unnoticed \/ UpTo(job.addr))
      /\ job.addr \in Nat /\ job.room \in Nat /\ job.left \in Nat /\ JobStart \in Nat
      /\ size \in Nat /\ img \in SparseImages /\ i \in 1..Len(img.chunks)
  BY <1>1, JobTypes DEF DiskInv, ProgressInv
<1>3. ASSUME disk' \in Disks, unnoticed' \in BOOLEAN, job' = Idle, answer' = "fail",
             gpt # NoGpt => Table(disk') = Table(disk), StaysInside',
             ~ unnoticed' => PartWritten(disk', size)
      PROVE  DiskInv'
  <2>1. TypeInv' /\ JobInv' /\ SuccessMeansImage'
    BY <1>1, <1>2, <1>3 DEF TypeInv, JobInv, SuccessMeansImage, OkayMeansImage
  <2>2. TableCurrent'
    BY <1>1, <1>2, <1>3 DEF TableCurrent, Table
  <2>3. OldOrNew'
    BY <1>1, <1>3 DEF OldOrNew, PartWritten
  <2>4. ChunksInOrder'
    <3>1. SUFFICES ASSUME ~ unnoticed', NEW cut \in want.cuts, NEW b \in Bytes,
                          b >= cut, disk'[b] # before[b], NEW a \in Bytes, a < cut
                   PROVE  disk'[a] = want.disk[a]
      BY <1>1 DEF ChunksInOrder
    <3>2. PartWritten(disk', size)
      BY <1>3, <3>1
    <3>3. cut \in Int /\ (cut <= job.addr \/ cut >= job.addr + size)
      BY <1>1, CutsBetween
    <3> HIDE DEF size
    <3>4. a \in Nat /\ b \in Nat
      BY BytesNat
    <3>5. CASE cut <= job.addr
      <4>1. a < job.addr
        BY <1>2, <3>1, <3>3, <3>4, <3>5
      <4>2. QED
        BY <3>2, <4>1 DEF PartWritten
    <3>6. CASE cut >= job.addr + size
      <4>1. b >= job.addr + size
        BY <1>2, <3>1, <3>3, <3>4, <3>6
      <4>2. QED
        BY <3>1, <3>2, <4>1 DEF PartWritten
    <3>7. QED
      BY <3>3, <3>5, <3>6
  <2>5. ProgressInv'
    BY <1>3, <2>3, <2>4 DEF ProgressInv
  <2>6. QED
    BY <2>1, <2>2, <2>5 DEF DiskInv
<1>4. CASE BadChunk(job)
  <2>1. disk' = disk /\ unnoticed' = unnoticed /\ job' = Idle /\ answer' = "fail"
    BY <1>4 DEF WriteChunk, Respond
  <2>2. disk \in Disks /\ unnoticed \in BOOLEAN
    BY <1>2 DEF TypeInv
  <2>3. StaysInside'
    BY <1>1, <1>2, <2>1 DEF StaysInside
  <2>4. ~ unnoticed => PartWritten(disk, size)
    <3>1. SUFFICES ASSUME UpTo(job.addr)
                   PROVE  PartWritten(disk, size)
      BY <1>2
    <3> HIDE DEF size
    <3>2. ASSUME NEW a \in Bytes
          PROVE  /\ a < job.addr => disk[a] = want.disk[a]
                 /\ a >= job.addr + size => disk[a] = before[a]
                 /\ disk[a] \in {before[a], want.disk[a]}
      <4>1. a \in Nat /\ disk[a] = IF a < job.addr THEN want.disk[a] ELSE before[a]
        BY <3>1, BytesNat DEF UpTo
      <4>2. QED
        BY <1>2, <4>1
    <3>3. QED
      BY <3>2 DEF PartWritten
  <2>5. QED
    BY <1>3, <2>1, <2>2, <2>3, <2>4
<1>5. CASE ~ BadChunk(job)
  <2>1. PICK r \in ChunkResults(job) :
           /\ disk' = r.disk
           /\ unnoticed' = (unnoticed \/ r.unnoticed)
           /\ IF r.ok THEN job' = Advanced(job) /\ UNCHANGED answer ELSE Respond("fail")
    BY <1>5 DEF WriteChunk
  <2>2. /\ disk' \in Disks /\ r.unnoticed \in BOOLEAN
        /\ \A a \in Bytes : disk'[a] # disk[a] =>
              \E b \in want.target : a \div BlockSize = b \div BlockSize
        /\ gpt # NoGpt => Table(disk') = Table(disk)
        /\ ~ unnoticed /\ ~ r.unnoticed =>
              PartWritten(disk', size) /\ (r.ok => Advances(disk', size))
    BY <1>1, <1>5, <2>1, ChunkResult
  <2>3. unnoticed' \in BOOLEAN
    BY <1>2, <2>1, <2>2 DEF TypeInv
  <2>4. StaysInside'
    BY <1>1, <1>2, <2>2 DEF StaysInside
  <2>5. ~ unnoticed' => PartWritten(disk', size) /\ (r.ok => Advances(disk', size))
    BY <2>1, <2>2
  <2>6. CASE ~ r.ok
    <3>1. job' = Idle /\ answer' = "fail"
      BY <2>1, <2>6 DEF Respond
    <3>2. QED
      BY <1>3, <2>2, <2>3, <2>4, <2>5, <3>1
  <2>7. CASE r.ok
    <3>1. job' = Advanced(job) /\ answer' = answer
      BY <2>1, <2>7
    <3>2. job \in [pc : {"sparse"}, img : SparseImages, next : Nat,
                   addr : Nat, room : Nat, left : Nat]
      BY <1>1 DEF DiskInv, JobInv
    <3>3. /\ size <= job.room
          /\ ChunkHeader + Payload(img, i) <= job.left
          /\ Payload(img, i) \in Nat /\ ChunkHeader \in Nat
      BY <1>1, <1>5, GoodChunk, DiskAssumption
    <3>4. job' = [job EXCEPT !.next = @ + 1, !.left = @ - ChunkHeader - Payload(img, i),
                             !.addr = @ + size, !.room = @ - size]
      BY <3>1 DEF Advanced
    <3> HIDE DEF size
    <3>5. /\ job'.img = img /\ job'.next = i + 1 /\ job'.addr = job.addr + size
          /\ job'.room = job.room - size /\ job'.left = job.left - ChunkHeader - Payload(img, i)
          /\ job'.pc = "sparse"
      BY <3>2, <3>4
    <3>6. job' # Idle
      BY <3>5 DEF Idle
    <3>7. job' \in [pc : {"sparse"}, img : SparseImages, next : Nat,
                    addr : Nat, room : Nat, left : Nat]
      <4>1. /\ job.addr + size \in Nat /\ job.room - size \in Nat /\ i + 1 \in Nat
            /\ job.left - ChunkHeader - Payload(img, i) \in Nat
        <5>1. i \in Nat
          BY <1>2, SparseType
        <5>2. PICK p \in Nat : p = Payload(img, i)
          BY <3>3
        <5>3. job.left - ChunkHeader - p \in Nat
          BY <1>2, <3>3, <5>2
        <5>4. job.addr + size \in Nat /\ job.room - size \in Nat
          BY <1>2, <3>3
        <5>5. QED
          BY <5>1, <5>2, <5>3, <5>4
      <4>2. QED
        BY <3>2, <3>4, <4>1
    <3>8. JobStart' = JobStart + size
      BY <1>1, <3>5, JobTypes DEF JobStart, size
    <3>9. /\ job'.addr - JobStart' = job.addr - JobStart
          /\ job'.room + JobStart' = job.room + JobStart
          /\ job'.next \in 1..Len(job'.img.chunks) + 1
          /\ JobStart' <= job'.addr
      <4>1. JobStart <= job.addr
        BY <1>1, JobTypes
      <4>2. Len(img.chunks) \in Nat
        BY <1>2, SparseType
      <4>3. \A x, y, z \in Nat : (x + z) - (y + z) = x - y /\ (x - z) + (y + z) = x + y
        OBVIOUS
      <4>4. /\ job'.addr - JobStart' = job.addr - JobStart
            /\ job'.room + JobStart' = job.room + JobStart
        <5>1. (job.addr + size) - (JobStart + size) = job.addr - JobStart
          BY <1>2, <4>3
        <5>2. (job.room - size) + (JobStart + size) = job.room + JobStart
          BY <1>2, <4>3
        <5>3. QED
          BY <3>5, <3>8, <5>1, <5>2
      <4>5. i + 1 \in 1..Len(img.chunks) + 1
        BY <1>2, <4>2
      <4>6. JobStart' <= job'.addr
        BY <1>2, <3>5, <3>8, <4>1
      <4>7. QED
        BY <3>5, <4>4, <4>5, <4>6
    <3>10. JobInv'
      <4>1. want' = Over(before', job'.addr - JobStart', job'.room + JobStart', job'.img)
        BY <1>1, <3>5, <3>9, JobTypes
      <4>2. gpt' # NoGpt => job'.addr - JobStart' >= BlockSize
        BY <1>1, <3>9, JobTypes
      <4>3. QED
        BY <3>7, <3>9, <4>1, <4>2 DEF JobInv
    <3>11. ProgressInv'
      <4>1. ~ unnoticed' => Advances(disk', size)
        BY <2>5, <2>7 DEF size
      <4>2. ~ unnoticed' => UpTo(job.addr)'
        BY <1>1, <3>5, <4>1 DEF UpTo, Advances
      <4>3. QED
        BY <2>3, <2>4, <3>6, <4>2 DEF ProgressInv
    <3>12. TypeInv' /\ SuccessMeansImage'
      BY <1>1, <1>2, <2>2, <2>3, <3>1, <3>6 DEF TypeInv, SuccessMeansImage, OkayMeansImage
    <3>13. TableCurrent'
      BY <1>1, <1>2, <2>2 DEF TableCurrent, Table
    <3>14. QED
      BY <3>10, <3>11, <3>12, <3>13 DEF DiskInv
  <2>8. QED
    BY <2>6, <2>7
<1>6. QED
  BY <1>4, <1>5

\* The addresses where chunks start are numbers.
LEMMA CutsAre ==
    ASSUME DiskInv, job # Idle, NEW cut \in want.cuts
    PROVE  cut \in Int
<1> DEFINE img == job.img
           base == job.addr - JobStart
<1>1. /\ job \in [pc : {"sparse"}, img : SparseImages, next : Nat,
                  addr : Nat, room : Nat, left : Nat]
      /\ job.next \in 1..Len(img.chunks) + 1
      /\ want = Over(before, base, job.room + JobStart, img)
      /\ before \in Disks
  BY DEF DiskInv, JobInv, TypeInv
<1>2. img \in SparseImages /\ job.addr \in Nat
  BY <1>1
<1>3. IsSparse(img) /\ DOMAIN img.chunks = 1..Len(img.chunks) /\ Len(img.chunks) \in Nat
  BY <1>2, SparseType DEF SparseImages
<1>4. JobStart \in Nat
  BY <1>1, <1>2, ChunkStarts DEF JobStart
<1>5. base \in Int
  BY <1>2, <1>4
<1> HIDE DEF img, base
<1>6. want.cuts = {base + ChunkStart(img, k) : k \in DOMAIN img.chunks}
  BY <1>1, <1>3, OverParts
<1>7. PICK k \in 1..Len(img.chunks) : cut = base + ChunkStart(img, k)
  BY <1>3, <1>6
<1>8. ChunkStart(img, k) \in Nat
  <2>1. k \in 1..Len(img.chunks) + 1
    BY <1>3
  <2>2. QED
    BY <1>2, <2>1, ChunkStarts
<1>9. QED
  BY <1>5, <1>7, <1>8

\* Between two chunks the disk is as it may be.
LEMMA BetweenChunks ==
    ASSUME DiskInv, job # Idle
    PROVE  OldOrNew /\ ChunksInOrder
<1>1. SUFFICES ASSUME ~ unnoticed
               PROVE  OldOrNew /\ ChunksInOrder
  BY DEF OldOrNew, ChunksInOrder
<1>2. UpTo(job.addr)
  BY <1>1 DEF DiskInv, ProgressInv
<1>3. PICK m \in Nat : m = job.addr
  BY DEF DiskInv, JobInv
<1>4. \A a \in Bytes : disk[a] = IF a < m THEN want.disk[a] ELSE before[a]
  BY <1>2, <1>3 DEF UpTo
<1>5. OldOrNew
  BY <1>4 DEF OldOrNew
<1>6. ChunksInOrder
  <2>1. SUFFICES ASSUME NEW cut \in want.cuts, NEW b \in Bytes, b >= cut, disk[b] # before[b],
                        NEW a \in Bytes, a < cut
                 PROVE  disk[a] = want.disk[a]
    BY DEF ChunksInOrder
  <2>2. cut \in Int /\ a \in Nat /\ b \in Nat
    BY CutsAre, BytesNat
  <2>3. b < m
    BY <1>4, <2>1
  <2>4. a < m
    BY <2>1, <2>2, <2>3
  <2>5. QED
    BY <1>4, <2>4
<1>7. QED
  BY <1>5, <1>6

\* write_sparse_image after its last chunk.
LEMMA SparseEndsStep ==
    ASSUME DiskInv, SparseEnds
    PROVE  DiskInv'
<1> DEFINE img == job.img
           base == job.addr - JobStart
           room == job.room + JobStart
<1>1. /\ job # Idle /\ job.next > Len(img.chunks) /\ disk' = disk /\ ready' = ready /\ gpt' = gpt
      /\ unnoticed' = unnoticed
      /\ before' = before /\ want' = want /\ job' = Idle /\ answer' = "okay"
  BY DEF SparseEnds, Respond
<1>2. /\ job \in [pc : {"sparse"}, img : SparseImages, next : Nat,
                  addr : Nat, room : Nat, left : Nat]
      /\ job.next \in 1..Len(img.chunks) + 1
      /\ JobStart <= job.addr
      /\ want = Over(before, base, room, img)
      /\ unnoticed \/ UpTo(job.addr)
      /\ before \in Disks
  BY <1>1 DEF DiskInv, JobInv, ProgressInv, TypeInv
<1>3. img \in SparseImages /\ job.addr \in Nat /\ job.next \in Nat
  BY <1>2
<1>4. job.next = Len(img.chunks) + 1
  BY <1>1, <1>2, <1>3, SparseType
<1>5. JobStart = ChunkStart(img, Len(img.chunks) + 1) /\ JobStart \in Nat
  BY <1>2, <1>3, <1>4, ChunkStarts DEF JobStart
<1>6. want.sure = Bytes
  BY <1>2, OverParts
<1>7. ASSUME ~ unnoticed, NEW a \in Bytes
      PROVE  disk[a] = want.disk[a]
  <2>1. a \in Nat
    BY BytesNat
  <2>2. disk[a] = IF a < job.addr THEN want.disk[a] ELSE before[a]
    BY <1>2, <1>7 DEF UpTo
  <2>3. CASE a >= job.addr
    <3>1. a - base \in Int /\ a - base >= JobStart
      BY <1>2, <1>3, <1>5, <2>1, <2>3
    <3>2. a - base \notin DOMAIN ImageBytes(img)
      BY <1>3, <1>5, <3>1, PastImage
    <3>3. Over(before, base, room, img).disk[a] = before[a]
      BY <1>2, <3>2, OverByte
    <3>4. QED
      BY <1>2, <1>3, <2>1, <2>2, <2>3, <3>3
  <2>4. QED
    BY <1>3, <2>1, <2>2, <2>3
<1>8. SuccessMeansImage'
  BY <1>1, <1>6, <1>7 DEF SuccessMeansImage, OkayMeansImage
<1>9. TypeInv' /\ JobInv' /\ TableCurrent'
  BY <1>1 DEF DiskInv, TypeInv, JobInv, TableCurrent
<1>10. ProgressInv'
  <2>1. OldOrNew /\ ChunksInOrder /\ StaysInside
    BY <1>1, BetweenChunks DEF DiskInv, ProgressInv
  <2>2. OldOrNew' /\ ChunksInOrder' /\ StaysInside'
    BY <1>1, <2>1 DEF OldOrNew, ChunksInOrder, StaysInside
  <2>3. QED
    BY <1>1, <2>2 DEF ProgressInv
<1>11. QED
  BY <1>8, <1>9, <1>10 DEF DiskInv

\* Where a partition is.
LEMMA PartitionPlace ==
    ASSUME NEW g, NEW name, g = NoGpt \/ g \in (DOMAIN Layout) \X Attributes, HasPartition(g, name)
    PROVE  PartStart(g, name) \in Nat /\ PartStart(g, name) >= BlockSize /\ PartSize(g, name) \in Nat
<1>1. g[1] \in DOMAIN Layout /\ name \in DOMAIN Layout[g[1]]
  BY DEF HasPartition
<1>2. PICK s \in Nat, z \in Nat : /\ s = Layout[g[1]][name].start /\ s >= 1
                                  /\ z = Layout[g[1]][name].size
  BY <1>1, DiskAssumption
<1>3. s * BlockSize \in Nat /\ s * BlockSize >= BlockSize /\ z * BlockSize \in Nat
  BY <1>2, FirstBytes
<1>4. QED
  BY <1>2, <1>3, FirstBytes DEF PartStart, PartSize

\* The two kinds of image.
LEMMA PlainType ==
    ASSUME NEW img \in Images, ~ IsSparse(img)
    PROVE  img.plain \in Seq(Byte)
<1>1. img \notin [hdr_ok : BOOLEAN, blk : Nat, size : Nat, chunks : Seq(ChunkRecords)]
  BY DEF IsSparse
<1>2. img \in [plain : Seq(Byte)]
  BY <1>1, DiskAssumption
<1>3. QED
  BY <1>2

\* gpt_write_partition
LEMMA PartitionStep ==
    ASSUME DiskInv, NEW name, NEW offset \in Nat, NEW img, NEW data_len \in Nat,
           \/ img \in SparseImages
           \/ ~ IsSparse(img) /\ img.plain \in Seq(Byte) /\ data_len = Len(img.plain),
           Begin(InPartition(disk, name, offset, img)), ready' \in BOOLEAN, gpt' = Loaded,
           gpt_write_partition(Loaded, name, offset, img, data_len)
    PROVE  DiskInv'
<1> DEFINE start == PartStart(Loaded, name)
           size == PartSize(Loaded, name)
<1>1. CASE ~ HasPartition(Loaded, name) \/ size < offset + data_len
  <2>1. disk' = disk /\ answer' = "fail" /\ job' = Idle /\ unnoticed' = FALSE
    BY <1>1 DEF gpt_write_partition, Refused, Respond
  <2>2. QED
    BY <2>1, CommandFails
<1>2. CASE HasPartition(Loaded, name) /\ ~ (size < offset + data_len)
  <2>1. start \in Nat /\ start >= BlockSize /\ size \in Nat
    BY <1>2, LoadedCurrent, PartitionPlace
  <2>2. PICK addr \in Nat, room \in Nat : addr = start + offset /\ room = size - offset
    BY <1>2, <2>1
  <2>3. addr >= BlockSize /\ data_len <= room
    BY <1>2, <2>1, <2>2, FirstBytes
  <2>4. Begin(Over(disk, addr, room, img))
    BY <1>2, <2>2, LoadedCurrent DEF InPartition
  <2>5. IF IsSparse(img) THEN BeginSparse(addr, room, img) ELSE WritePlain(addr, img.plain)
    BY <1>2, <2>2 DEF gpt_write_partition
  <2>6. CASE img \in SparseImages
    <3>1. BeginSparse(addr, room, img)
      BY <2>5, <2>6 DEF SparseImages
    <3>2. QED
      BY <2>3, <2>4, <2>6, <3>1, BeginSparseStep
  <2>7. CASE ~ IsSparse(img) /\ img.plain \in Seq(Byte) /\ data_len = Len(img.plain)
    BY <2>3, <2>4, <2>5, <2>7, PlainStep
  <2>8. QED
    BY <2>6, <2>7
<1>3. QED
  BY <1>1, <1>2

-----------------------------------------------------------------------------
(* One lemma per command.                                                   *)

\* fastboot_do_disk_gpt_init fails.
LEMMA GptFailsStep ==
    ASSUME DiskInv, NEW promise, Begin(promise), GptFails
    PROVE  DiskInv'
<1>1. /\ disk' = disk /\ answer' = "fail" /\ job' = Idle /\ unnoticed' = FALSE
      /\ gpt' = gpt /\ ready' \in BOOLEAN
  BY DEF GptFails, DiskFails, Refused, Respond, DiskInv, TypeInv
<1>2. QED
  BY <1>1, CommandFails

\* A command that fails with its table loaded.
LEMMA RefusedStep ==
    ASSUME DiskInv, NEW promise, Begin(promise), Refused, ready' \in BOOLEAN,
           gpt' \in {gpt, NoGpt, Loaded}
    PROVE  DiskInv'
<1>1. disk' = disk /\ answer' = "fail" /\ job' = Idle /\ unnoticed' = FALSE
  BY DEF Refused, Respond
<1>2. QED
  BY <1>1, CommandFails

\* flash:<partition>
LEMMA WriteStep ==
    ASSUME DiskInv, NEW name \in Names, NEW img \in Images, fastboot_write(name, img)
    PROVE  DiskInv'
<1>1. Begin(InPartition(disk, name, 0, img))
  BY DEF fastboot_write
<1>2. CASE GptFails
  BY <1>1, <1>2, GptFailsStep
<1>3. CASE /\ GptReady /\ gpt' = Loaded
           /\ gpt_write_partition(Loaded, name, 0, img, DataLen(img))
  <2>1. ready' \in BOOLEAN
    BY <1>3 DEF GptReady
  <2>2. CASE IsSparse(img)
    <3>1. img \in SparseImages
      BY <2>2 DEF SparseImages
    <3>2. DataLen(img) \in Nat
      BY <2>2, <3>1, SparseType DEF DataLen
    <3>3. QED
      BY <1>1, <1>3, <2>1, <3>1, <3>2, PartitionStep
  <2>3. CASE ~ IsSparse(img)
    <3>1. img.plain \in Seq(Byte)
      BY <2>3, PlainType
    <3>2. DataLen(img) \in Nat /\ DataLen(img) = Len(img.plain)
      BY <2>3, <3>1 DEF DataLen
    <3>3. QED
      BY <1>1, <1>3, <2>1, <2>3, <3>1, <3>2, PartitionStep
  <2>4. QED
    BY <2>2, <2>3
<1>4. QED
  BY <1>2, <1>3 DEF fastboot_write

\* flash:raw-sector:<block>: the table may be overwritten, but none is kept.
LEMMA WriteRawStep ==
    ASSUME DiskInv, NEW start_block \in 0..BlockCount, NEW img \in Images,
           fastboot_write_raw(start_block, img)
    PROVE  DiskInv'
<1> DEFINE addr == start_block * BlockSize
           room == (BlockCount - start_block) * BlockSize
<1>1. addr \in Nat /\ room \in Nat
  <2>1. BlockCount \in Nat /\ BlockSize \in Nat
    BY DiskAssumption
  <2>2. start_block \in Nat /\ BlockCount - start_block \in Nat
    BY <2>1
  <2>3. QED
    BY <2>1, <2>2
<1>2. Begin(Over(disk, addr, room, img))
  BY DEF fastboot_write_raw
<1>3. CASE gpt # NoGpt /\ gpt' = AfterSave(gpt) /\ Refused /\ UNCHANGED ready
  <2>1. gpt' = NoGpt /\ ready' \in BOOLEAN
    BY <1>3 DEF AfterSave, DiskInv, TypeInv
  <2>2. QED
    BY <1>2, <1>3, <2>1, RefusedStep
<1>4. CASE DiskFails
  BY <1>2, <1>4, GptFailsStep DEF GptFails
<1>5. CASE /\ ready' = TRUE
           /\ gpt' = (IF gpt = NoGpt THEN NoGpt ELSE AfterSave(gpt))
           /\ IF start_block >= BlockCount THEN Refused
              ELSE IF IsSparse(img) THEN BeginSparse(addr, room, img)
              ELSE IF DataLen(img) > room THEN Refused
              ELSE WritePlain(addr, img.plain)
  <2>1. gpt' = NoGpt /\ ready' \in BOOLEAN
    BY <1>5 DEF AfterSave
  <2>2. CASE Refused
    BY <1>2, <2>1, <2>2, RefusedStep
  <2>3. CASE IsSparse(img) /\ BeginSparse(addr, room, img)
    <3>1. img \in SparseImages
      BY <2>3 DEF SparseImages
    <3> HIDE DEF addr, room
    <3>2. QED
      BY <1>1, <1>2, <2>1, <2>3, <3>1, BeginSparseStep
  <2>4. CASE ~ IsSparse(img) /\ ~ (DataLen(img) > room) /\ WritePlain(addr, img.plain)
    <3>1. img.plain \in Seq(Byte)
      BY <2>4, PlainType
    <3>2. Len(img.plain) <= room
      <4> HIDE DEF room
      <4>1. QED
        BY <1>1, <2>4, <3>1 DEF DataLen
    <3> HIDE DEF addr, room
    <3>3. QED
      BY <1>1, <1>2, <2>1, <2>4, <3>1, <3>2, PlainStep
  <2>5. QED
    BY <1>5, <2>2, <2>3, <2>4
<1>6. QED
  BY <1>3, <1>4, <1>5 DEF fastboot_write_raw

\* Commands that write into the misc partition.
LEMMA MiscStep ==
    ASSUME DiskInv, NEW w \in MiscWrites, WriteMisc(w)
    PROVE  DiskInv'
<1>1. Begin(InPartition(disk, "misc", w.offset, w))
  BY DEF WriteMisc
<1>2. w \in [offset : Nat, plain : Seq(Byte)]
  BY DiskAssumption
<1>3. w.offset \in Nat /\ w.plain \in Seq(Byte) /\ Len(w.plain) \in Nat /\ ~ IsSparse(w)
  BY <1>2 DEF IsSparse
<1>4. CASE GptFails
  BY <1>1, <1>4, GptFailsStep
<1>5. CASE GptReady /\ gpt' = Loaded /\ Refused
  BY <1>1, <1>5, RefusedStep DEF GptReady
<1>6. CASE GptReady /\ gpt' = Loaded
           /\ gpt_write_partition(Loaded, "misc", w.offset, w, Len(w.plain))
  <2>1. ready' \in BOOLEAN
    BY <1>6 DEF GptReady
  <2>2. QED
    BY <1>1, <1>3, <1>6, <2>1, PartitionStep
<1>7. QED
  BY <1>4, <1>5, <1>6 DEF WriteMisc

\* Commands that only read.
LEMMA ReadOnlyStep ==
    ASSUME DiskInv, ReadOnly
    PROVE  DiskInv'
<1> DEFINE promise == Unchanged(disk)
<1>1. Begin(promise)
  BY DEF ReadOnly
<1>2. CASE GptFails
  BY <1>1, <1>2, GptFailsStep
<1>3. CASE /\ GptReady /\ gpt' = Loaded /\ (\E a \in {"okay", "fail"} : Respond(a))
           /\ unnoticed' = FALSE /\ UNCHANGED disk
  <2>1. /\ ready' \in BOOLEAN /\ job' = Idle /\ answer' \in {"okay", "fail"} /\ disk' = disk
        /\ disk \in Disks /\ unnoticed' \in BOOLEAN
    BY <1>3 DEF GptReady, Respond, DiskInv, TypeInv
  <2>2. gpt' \in {gpt, NoGpt, Loaded}
    BY <1>3
  <2>3. promise.disk = disk /\ promise.cuts = {} /\ promise.sure = DOMAIN disk
    BY DEF Unchanged
  <2> HIDE DEF promise
  <2>4. QED
    BY <1>1, <2>1, <2>2, <2>3, CommandWrites
<1>4. QED
  BY <1>2, <1>3 DEF ReadOnly

\* Sequences of one byte and of two.
LEMMA ShortSeqs ==
    ASSUME NEW S, NEW x \in S, NEW y \in S
    PROVE  /\ <<x>> \in Seq(S) /\ Len(<<x>>) = 1 /\ <<x>>[1] = x
           /\ <<x, y>> \in Seq(S) /\ Len(<<x, y>>) = 2 /\ <<x, y>>[1] = x /\ <<x, y>>[2] = y
  OBVIOUS

\* set_active, oem set-priority and oem set-successful.
LEMMA SetAttributesStep ==
    ASSUME DiskInv, NEW attr \in Attributes, SetAttributes(attr)
    PROVE  DiskInv'
<1> DEFINE promise == [disk |-> Patch(disk, 1, <<attr>>), sure |-> Bytes,
                       target |-> {1}, cuts |-> {}]
           g == <<Loaded[1], attr>>
<1>1. Begin(promise)
  BY DEF SetAttributes
<1>2. CASE GptFails
  BY <1>1, <1>2, GptFailsStep
<1>3. CASE GptReady /\ gpt' = Loaded /\ Refused
  BY <1>1, <1>3, RefusedStep DEF GptReady
<1>4. CASE /\ GptReady
           /\ gpt' = AfterSave(g)
           /\ \/ disk' = Patch(disk, 0, g) /\ Respond("okay") /\ unnoticed' = FALSE
              \/ disk' \in {disk, Patch(disk, 0, g)} /\ Respond("fail") /\ unnoticed' = FALSE
              \/ disk' = disk /\ Respond("okay") /\ unnoticed' = TRUE
  <2>1. /\ ready' \in BOOLEAN /\ job' = Idle /\ answer' \in {"okay", "fail"}
        /\ disk \in Disks /\ gpt' = NoGpt /\ unnoticed' \in BOOLEAN
        /\ disk' = disk \/ disk' = Patch(disk, 0, g)
        /\ ~ unnoticed' /\ answer' = "okay" => disk' = Patch(disk, 0, g)
    BY <1>4 DEF GptReady, Respond, DiskInv, TypeInv, AfterSave
  <2>2. Loaded[1] = disk[0] /\ Loaded[1] \in Byte /\ attr \in Byte
    <3>1. Loaded # NoGpt /\ Loaded = Table(disk) /\ Loaded \in (DOMAIN Layout) \X Attributes
      BY <1>4, LoadedCurrent DEF GptReady
    <3>2. QED
      BY <3>1, TableType, DiskAssumption
  <2>3. g \in Seq(Byte) /\ Len(g) = 2 /\ g[1] = disk[0] /\ g[2] = attr
    BY <2>2, ShortSeqs
  <2>4. /\ promise.sure = Bytes /\ promise.target = {1} /\ promise.cuts = {}
        /\ \A a \in Bytes : promise.disk[a] = IF a = 1 THEN attr ELSE disk[a]
    <3>1. <<attr>> \in Seq(Byte) /\ Len(<<attr>>) = 1 /\ <<attr>>[1] = attr
      BY <2>2, ShortSeqs
    <3>2. \A a \in Bytes : Patch(disk, 1, <<attr>>)[a]
            = IF 1 <= a /\ a < 1 + 1 THEN <<attr>>[a - 1 + 1] ELSE disk[a]
      BY <2>1, <3>1, PatchIs
    <3>3. \A a \in Bytes : 1 <= a /\ a < 1 + 1 <=> a = 1
      BY BytesNat
    <3>4. QED
      BY <3>1, <3>2, <3>3
  <2> HIDE DEF promise, g
  <2>5. /\ Patch(disk, 0, g) \in Disks
        /\ \A a \in Bytes : Patch(disk, 0, g)[a] = IF a = 1 THEN attr ELSE disk[a]
    <3>1. /\ Patch(disk, 0, g) \in Disks
          /\ \A a \in Bytes : Patch(disk, 0, g)[a]
               = IF 0 <= a /\ a < 0 + 2 THEN g[a - 0 + 1] ELSE disk[a]
      BY <2>1, <2>3, PatchIs
    <3>2. \A a \in Bytes : a \in Nat
      BY BytesNat
    <3>3. QED
      BY <2>3, <3>1, <3>2
  <2>6. disk' \in Disks /\ \A a \in Bytes : disk'[a] \in {disk[a], promise.disk[a]}
    BY <2>1, <2>4, <2>5
  <2>7. ASSUME NEW a \in Bytes, disk'[a] # disk[a]
        PROVE  \E b \in promise.target : a \div BlockSize = b \div BlockSize
    <3>1. a = 1
      BY <2>1, <2>5, <2>7
    <3>2. QED
      BY <2>4, <3>1
  <2>8. ~ unnoticed' /\ answer' = "okay" => \A a \in promise.sure : disk'[a] = promise.disk[a]
    BY <2>1, <2>4, <2>5
  <2>9. gpt' \in {gpt, NoGpt, Loaded} /\ (gpt' # NoGpt => Table(disk') = Table(disk))
    BY <2>1
  <2>10. QED
    BY <1>1, <2>1, <2>4, <2>6, <2>7, <2>8, <2>9, CommandWrites
<1>5. QED
  BY <1>2, <1>3, <1>4 DEF SetAttributes

\* A buffer filled with the pattern of erased bytes.
LEMMA ErasedBuffer ==
    ASSUME NEW n \in Nat
    PROVE  /\ ErasePattern \in Seq(Byte) /\ Len(ErasePattern) = Word
           /\ Filled(n, ErasePattern) \in Seq(Byte)
           /\ Len(Filled(n, ErasePattern)) = n
           /\ \A i \in 1..n : Filled(n, ErasePattern)[i] = "e"
<1>1. Word \in Nat /\ Word > 0 /\ "e" \in Byte
  BY DiskAssumption
<1>2. /\ ErasePattern \in Seq(Byte) /\ Len(ErasePattern) = Word
      /\ \A i \in 1..Word : ErasePattern[i] = "e"
  <2>1. ErasePattern \in [1..Word -> Byte]
    BY <1>1 DEF ErasePattern
  <2>2. QED
    BY <1>1, <2>1 DEF ErasePattern
<1>3. /\ Filled(n, ErasePattern) \in Seq(Byte)
      /\ Len(Filled(n, ErasePattern)) = n
      /\ \A i \in 1..n : Filled(n, ErasePattern)[i] = ErasePattern[((i - 1) % Word) + 1]
  BY <1>2, FilledIs
<1>4. \A i \in 1..n : ((i - 1) % Word) + 1 \in 1..Word
  <2>1. \A w \in Nat, x \in Nat : w > 0 => x % w \in 0..w - 1
    OBVIOUS
  <2>2. QED
    BY <1>1, <2>1
<1>5. QED
  BY <1>2, <1>3, <1>4

\* Erasing any blocks of a range, byte by byte.
LEMMA Trimming ==
    ASSUME NEW d \in Disks, NEW start \in Nat, NEW size \in Nat, NEW blocks
    PROVE  LET t == PatchBlocks(d, start, Filled(size, ErasePattern), blocks)
           IN /\ t \in Disks
              /\ \A a \in Bytes : t[a] = d[a] \/ (start <= a /\ a < start + size /\ t[a] = "e")
<1> DEFINE data == Filled(size, ErasePattern)
<1>1. data \in Seq(Byte) /\ Len(data) = size /\ \A i \in 1..size : data[i] = "e"
  BY ErasedBuffer
<1>2. DOMAIN d = Bytes /\ "e" \in Byte
  BY DiskAssumption DEF Disks
<1> HIDE DEF data
<1>3. ASSUME NEW a \in Bytes, a \in start..start + Len(data) - 1
      PROVE  start <= a /\ a < start + size /\ data[a - start + 1] = "e"
  <2>1. a \in Nat
    BY BytesNat
  <2>2. start <= a /\ a < start + size /\ a - start + 1 \in 1..size
    BY <1>1, <1>3, <2>1
  <2>3. QED
    BY <1>1, <2>2
<1>4. \A a \in Bytes : d[a] \in Byte
  BY DEF Disks
<1> DEFINE t == PatchBlocks(d, start, data, blocks)
<1>5. t = [a \in Bytes |-> IF a \in start..start + Len(data) - 1
                              /\ (a - start) \div BlockSize \in blocks
                           THEN data[a - start + 1] ELSE d[a]]
  BY <1>2 DEF PatchBlocks
<1>6. ASSUME NEW a \in Bytes
      PROVE  t[a] \in Byte /\ (t[a] = d[a] \/ (start <= a /\ a < start + size /\ t[a] = "e"))
  <2>1. CASE a \in start..start + Len(data) - 1 /\ (a - start) \div BlockSize \in blocks
    <3>1. t[a] = data[a - start + 1]
      BY <1>5, <2>1
    <3> HIDE DEF t
    <3>2. QED
      BY <1>2, <1>3, <2>1, <3>1
  <2>2. CASE ~ (a \in start..start + Len(data) - 1 /\ (a - start) \div BlockSize \in blocks)
    <3>1. t[a] = d[a]
      BY <1>5, <2>2
    <3> HIDE DEF t
    <3>2. QED
      BY <1>4, <3>1
  <2>3. QED
    BY <2>1, <2>2
<1>7. t \in Disks
  BY <1>5, <1>6 DEF Disks
<1> HIDE DEF t
<1>8. QED
  BY <1>6, <1>7 DEF t, data

\* What erasing promises of a partition.
LEMMA ErasedIs ==
    ASSUME NEW d \in Disks, NEW name, HasPartition(Table(d), name),
           NEW start \in Nat, start = PartStart(Table(d), name),
           NEW size \in Nat, size = PartSize(Table(d), name)
    PROVE  /\ Erased(d, name).sure = Bytes \ {a \in start..start + size - 1 : a >= start + EraseMax}
           /\ Erased(d, name).target = start..start + size - 1
           /\ Erased(d, name).cuts = {}
           /\ \A a \in Bytes : Erased(d, name).disk[a]
                 = IF start <= a /\ a < start + size THEN "e" ELSE d[a]
<1>1. DOMAIN d = Bytes
  BY DEF Disks
<1>2. \A a \in Bytes : a \in start..start + size - 1 <=> (start <= a /\ a < start + size)
  BY BytesNat
<1> DEFINE new == [a \in Bytes |-> IF a \in start..start + size - 1 THEN "e" ELSE d[a]]
<1>3. /\ Erased(d, name).sure = Bytes \ {a \in start..start + size - 1 : a >= start + EraseMax}
      /\ Erased(d, name).target = start..start + size - 1
      /\ Erased(d, name).cuts = {}
      /\ Erased(d, name).disk = new
  BY <1>1 DEF Erased
<1>4. \A a \in Bytes : new[a] = IF start <= a /\ a < start + size THEN "e" ELSE d[a]
  BY <1>2
<1> HIDE DEF new
<1>5. QED
  BY <1>3, <1>4

\* Filling the start of a partition, of which any blocks may be erased.
LEMMA FillErasedStep ==
    ASSUME NEW d \in Disks, NEW start \in Nat, NEW size \in Nat, NEW filled \in Nat,
           filled <= size, filled = size \/ filled = EraseMax,
           NEW promise, \A a \in Bytes : promise.disk[a]
                                          = IF start <= a /\ a < start + size THEN "e" ELSE disk[a],
           promise.sure = Bytes \ {a \in start..start + size - 1 : a >= start + EraseMax},
           disk \in Disks,
           \A a \in Bytes : d[a] = disk[a] \/ (start <= a /\ a < start + size /\ d[a] = "e"),
           FillErased(d, start, filled)
    PROVE  /\ disk' \in Disks /\ unnoticed' \in BOOLEAN
           /\ job' = Idle /\ answer' \in {"okay", "fail"}
           /\ \A a \in Bytes : disk'[a] = disk[a] \/ Near(a, start, size)
           /\ ~ unnoticed' =>
                /\ \A a \in Bytes : disk'[a] \in {disk[a], promise.disk[a]}
                /\ answer' = "okay" => \A a \in promise.sure : disk'[a] = promise.disk[a]
<1> DEFINE data == Filled(filled, ErasePattern)
<1>1. PICK r \in blockdev_fill_write_bytes(d, start, filled, ErasePattern) :
         /\ disk' = r.disk /\ unnoticed' = r.unnoticed
         /\ Respond(IF r.written = filled THEN "okay" ELSE "fail")
  BY DEF FillErased
<1>2. /\ ErasePattern \in Seq(Byte) /\ Len(ErasePattern) = Word
      /\ data \in Seq(Byte) /\ Len(data) = filled /\ \A i \in 1..filled : data[i] = "e"
  BY ErasedBuffer
<1>3. Outcome(d, start, data, r)
  BY <1>2, FillBytes
<1> HIDE DEF data
<1>4. /\ r.disk \in Disks /\ r.unnoticed \in BOOLEAN
      /\ \A a \in Bytes : r.disk[a] = d[a] \/ Near(a, start, filled)
      /\ ~ r.unnoticed =>
           /\ \A a \in Bytes : r.disk[a] = d[a] \/ r.disk[a] = Patch(d, start, data)[a]
           /\ r.written = filled => r.disk = Patch(d, start, data)
  BY <1>2, <1>3 DEF Outcome
<1>5. ASSUME NEW a \in Bytes
      PROVE  Patch(d, start, data)[a] = IF start <= a /\ a < start + filled THEN "e" ELSE d[a]
  <2>1. Patch(d, start, data)[a]
          = IF start <= a /\ a < start + filled THEN data[a - start + 1] ELSE d[a]
    <3>1. \A x \in Bytes : Patch(d, start, data)[x]
            = IF start <= x /\ x < start + Len(data) THEN data[x - start + 1] ELSE d[x]
      BY <1>2, PatchIs
    <3>2. QED
      BY <1>2, <3>1
  <2>2. a \in Nat
    BY BytesNat
  <2>3. start <= a /\ a < start + filled => a - start + 1 \in 1..filled
    BY <2>2
  <2>4. QED
    BY <1>2, <2>1, <2>3
<1>6. ASSUME NEW a \in Bytes
      PROVE  disk'[a] = disk[a] \/ Near(a, start, size)
  <2>1. Near(a, start, filled) => Near(a, start, size)
    <3>1. \A b \in start..start + filled - 1 : b \in start..start + size - 1
      OBVIOUS
    <3>2. QED
      BY <3>1 DEF Near
  <2>2. start <= a /\ a < start + size => Near(a, start, size)
    <3>1. start <= a /\ a < start + size => a \in start..start + size - 1
      BY BytesNat
    <3>2. QED
      BY <3>1 DEF Near
  <2>3. QED
    BY <1>1, <1>4, <2>1, <2>2
<1>7. ASSUME ~ unnoticed', NEW a \in Bytes
      PROVE  disk'[a] \in {disk[a], promise.disk[a]}
  <2>1. disk'[a] = d[a] \/ disk'[a] = Patch(d, start, data)[a]
    BY <1>1, <1>4, <1>7
  <2>2. a \in Nat /\ (a < start + filled => a < start + size)
    BY BytesNat
  <2>3. d[a] \in {disk[a], promise.disk[a]}
    OBVIOUS
  <2>4. Patch(d, start, data)[a] \in {d[a], promise.disk[a]}
    BY <1>5, <2>2
  <2>5. QED
    BY <2>1, <2>3, <2>4
<1>8. ASSUME ~ unnoticed', answer' = "okay", NEW a \in promise.sure
      PROVE  disk'[a] = promise.disk[a]
  <2>1. a \in Bytes /\ ~ (a \in start..start + size - 1 /\ a >= start + EraseMax)
    OBVIOUS
  <2>2. a \in Nat /\ EraseMax \in Nat
    BY <2>1, BytesNat, DiskAssumption
  <2>3. disk' = Patch(d, start, data)
    BY <1>1, <1>4, <1>8 DEF Respond
  <2>4. disk'[a] = IF start <= a /\ a < start + filled THEN "e" ELSE d[a]
    BY <1>5, <2>1, <2>3
  <2>5. start <= a /\ a < start + size => a < start + filled
    BY <2>1, <2>2
  <2>6. a < start + filled => a < start + size
    BY <2>2
  <2>7. d[a] = disk[a] \/ (start <= a /\ a < start + size)
    BY <2>1
  <2>8. QED
    BY <2>1, <2>4, <2>5, <2>6, <2>7
<1>9. QED
  BY <1>1, <1>4, <1>6, <1>7, <1>8 DEF Respond

\* erase:<partition>, by the device or by writing the start of it.
LEMMA EraseStep ==
    ASSUME DiskInv, NEW name \in Names, fastboot_erase(name)
    PROVE  DiskInv'
<1> DEFINE start == PartStart(Loaded, name)
           size == PartSize(Loaded, name)
           all == 0..size \div BlockSize - 1
           Trimmed(blocks) == PatchBlocks(disk, start, Filled(size, ErasePattern), blocks)
<1>1. Begin(Erased(disk, name))
  BY DEF fastboot_erase
<1>2. CASE GptFails
  BY <1>1, <1>2, GptFailsStep
<1>3. CASE GptReady /\ gpt' = Loaded /\ ~ HasPartition(Loaded, name) /\ Refused
  BY <1>1, <1>3, RefusedStep DEF GptReady
<1>4. CASE /\ GptReady /\ gpt' = Loaded /\ HasPartition(Loaded, name)
           /\ \/ \E d \in {disk, Trimmed(all)} : FillErased(d, start, Min({size, EraseMax}))
              \/ /\ \E blocks \in SUBSET all : disk' = Trimmed(blocks)
                 /\ unnoticed' = TRUE
                 /\ Respond("okay")
  <2>1. ready' \in BOOLEAN /\ gpt' \in {gpt, NoGpt, Loaded} /\ disk \in Disks
    BY <1>4 DEF GptReady, DiskInv, TypeInv
  <2>2. start \in Nat /\ start >= BlockSize /\ size \in Nat /\ Loaded = Table(disk)
    BY <1>4, LoadedCurrent, PartitionPlace
  <2>3. PICK promise : promise = Erased(disk, name)
    OBVIOUS
  <2>4. /\ promise.sure = Bytes \ {a \in start..start + size - 1 : a >= start + EraseMax}
        /\ promise.target = start..start + size - 1
        /\ promise.cuts = {}
        /\ \A a \in Bytes : promise.disk[a] = IF start <= a /\ a < start + size THEN "e" ELSE disk[a]
    BY <1>4, <2>1, <2>2, <2>3, ErasedIs
  <2>5. \A blocks : /\ Trimmed(blocks) \in Disks
                    /\ \A a \in Bytes : Trimmed(blocks)[a] = disk[a]
                          \/ (start <= a /\ a < start + size /\ Trimmed(blocks)[a] = "e")
    BY <2>1, <2>2, Trimming
  <2> HIDE DEF start, size, all, Trimmed
  <2>6. /\ disk' \in Disks /\ unnoticed' \in BOOLEAN
        /\ job' = Idle /\ answer' \in {"okay", "fail"}
        /\ \A a \in Bytes : disk'[a] = disk[a] \/ Near(a, start, size)
        /\ ~ unnoticed' =>
             /\ \A a \in Bytes : disk'[a] \in {disk[a], promise.disk[a]}
             /\ answer' = "okay" => \A a \in promise.sure : disk'[a] = promise.disk[a]
    <3>1. CASE \E d \in {disk, Trimmed(all)} : FillErased(d, start, Min({size, EraseMax}))
      <4>1. PICK d \in {disk, Trimmed(all)} : FillErased(d, start, Min({size, EraseMax}))
        BY <3>1
      <4>2. EraseMax \in Nat
        BY DiskAssumption
      <4>3. PICK filled : filled = Min({size, EraseMax})
        OBVIOUS
      <4>4. filled \in {size, EraseMax} /\ filled <= size
        BY <2>2, <4>2, <4>3, Lesser
      <4>5. filled \in Nat /\ (filled = size \/ filled = EraseMax)
        BY <2>2, <4>2, <4>4
      <4>6. FillErased(d, start, filled)
        BY <4>1, <4>3
      <4>7. /\ d \in Disks
            /\ \A a \in Bytes : d[a] = disk[a] \/ (start <= a /\ a < start + size /\ d[a] = "e")
        BY <2>1, <2>5, <4>1
      <4>8. QED
        BY <2>1, <2>2, <2>4, <4>4, <4>5, <4>6, <4>7, FillErasedStep
    <3>2. CASE (\E blocks \in SUBSET all : disk' = Trimmed(blocks)) /\ unnoticed' = TRUE
               /\ Respond("okay")
      <4>1. disk' \in Disks /\ job' = Idle /\ answer' = "okay"
        BY <2>5, <3>2 DEF Respond
      <4>2. \A a \in Bytes : disk'[a] = disk[a] \/ (start <= a /\ a < start + size)
        BY <2>5, <3>2
      <4>3. ASSUME NEW a \in Bytes
            PROVE  start <= a /\ a < start + size => Near(a, start, size)
        <5>1. start <= a /\ a < start + size => a \in start..start + size - 1
          BY <2>2, BytesNat
        <5>2. QED
          BY <5>1 DEF Near
      <4>4. QED
        BY <3>2, <4>1, <4>2, <4>3
    <3>3. QED
      BY <1>4, <3>1, <3>2
  <2>7. ASSUME NEW a \in Bytes, disk'[a] # disk[a]
        PROVE  \E b \in promise.target : a \div BlockSize = b \div BlockSize
    BY <2>4, <2>6, <2>7 DEF Near
  <2>8. Table(disk') = Table(disk)
    BY <2>2, <2>6, FarFromTable
  <2>9. QED
    BY <1>1, <2>1, <2>3, <2>4, <2>6, <2>7, <2>8, CommandWrites
<1>5. QED
  BY <1>2, <1>3, <1>4 DEF fastboot_erase, gpt_erase_partition

-----------------------------------------------------------------------------
(* The theorems about the disk.                                             *)

\* At the start nothing is promised, kept or under way.
LEMMA DiskInitInv == DiskInit => DiskInv
<1>1. SUFFICES ASSUME DiskInit
               PROVE  DiskInv
  OBVIOUS
<1>2. /\ disk = FirstDisk /\ before = FirstDisk /\ FirstDisk \in Disks
      /\ want.disk = FirstDisk /\ want.sure = Bytes /\ want.cuts = {}
  BY <1>1, DiskAssumption DEF DiskInit, Unchanged, Disks
<1>3. TypeInv
  BY <1>1, <1>2 DEF DiskInit, TypeInv
<1>4. ProgressInv
  BY <1>1, <1>2 DEF DiskInit, ProgressInv, StaysInside, OldOrNew, ChunksInOrder
<1>5. QED
  BY <1>1, <1>2, <1>3, <1>4 DEF DiskInit, DiskInv, JobInv, SuccessMeansImage, OkayMeansImage,
                                TableCurrent

\* Every command, and every chunk of a sparse image, keeps the invariant.
LEMMA DiskNextInv == DiskInv /\ [DiskNext]_diskVars => DiskInv'
<1>1. SUFFICES ASSUME DiskInv, [DiskNext]_diskVars
               PROVE  DiskInv'
  OBVIOUS
<1>2. ASSUME NEW name \in Names, NEW img \in Images, fastboot_write(name, img)
      PROVE  DiskInv'
  BY <1>1, <1>2, WriteStep
<1>3. ASSUME NEW block \in 0..BlockCount, NEW img \in Images, fastboot_write_raw(block, img)
      PROVE  DiskInv'
  BY <1>1, <1>3, WriteRawStep
<1>4. ASSUME NEW name \in Names, fastboot_erase(name)
      PROVE  DiskInv'
  BY <1>1, <1>4, EraseStep
<1>5. ASSUME NEW attr \in Attributes, SetAttributes(attr)
      PROVE  DiskInv'
  BY <1>1, <1>5, SetAttributesStep
<1>6. ASSUME NEW w \in MiscWrites, WriteMisc(w)
      PROVE  DiskInv'
  BY <1>1, <1>6, MiscStep
<1>7. CASE ReadOnly
  BY <1>1, <1>7, ReadOnlyStep
<1>8. CASE WriteChunk
  BY <1>1, <1>8, WriteChunkStep
<1>9. CASE SparseEnds
  BY <1>1, <1>9, SparseEndsStep
<1>10. CASE UNCHANGED diskVars
  BY <1>1, <1>10 DEF diskVars, DiskInv, TypeInv, JobInv, JobStart, ProgressInv, UpTo, StaysInside,
                     OldOrNew, ChunksInOrder, SuccessMeansImage, OkayMeansImage,
                     TableCurrent
<1>11. QED
  BY <1>1, <1>2, <1>3, <1>4, <1>5, <1>6, <1>7, <1>8, <1>9, <1>10 DEF DiskNext

\* What the invariant says of the properties that are checked.
LEMMA DiskInvMeans ==
    ASSUME DiskInv
    PROVE  WritesInOrder /\ SuccessMeansImage /\ TableCurrent
<1>1. DiskTypeOK
  BY DEF DiskInv, TypeInv, JobInv, DiskTypeOK, Disks
<1>2. StaysInside /\ OldOrNew /\ ChunksInOrder
  BY BetweenChunks DEF DiskInv, ProgressInv
<1>3. QED
  BY <1>1, <1>2 DEF DiskInv, WritesInOrder

\* DiskInv holds in every state: for every disk, partition layout and image, whichever blocks
\* of a transfer that fails are written, and whichever failure goes unnoticed.
THEOREM DiskInvariant == DiskSpec => []DiskInv
  BY DiskInitInv, DiskNextInv, PTL DEF DiskSpec

\* blockdev_write_bytes and write_sparse_image stay in the blocks of what they are to write,
\* whatever fails and whether it is noticed or not; and unless a failure goes unnoticed no byte
\* is ever torn and the chunks of an image are begun one after the other: whatever the alignment,
\* the block size and the chunks (WritesInOrder).
THEOREM DiskWritesInOrder == DiskSpec => []WritesInOrder
  BY DiskInvariant, DiskInvMeans, PTL

\* A command that answers OKAY has put all it promises on the disk, where the table on the disk
\* has it, and changed no other byte, unless a driver claimed a transfer it did not make or
\* gpt_erase_partition took a failed erase for a success (SuccessMeansImage).
THEOREM DiskSuccess == DiskSpec => []SuccessMeansImage
  BY DiskInvariant, DiskInvMeans, PTL

\* The table kept in fb->gpt between commands is the one on the disk (TableCurrent), also when a
\* write fails or is lost unnoticed: a raw write drops it first, and a partition write cannot
\* reach it.
THEOREM DiskTable == DiskSpec => []TableCurrent
  BY DiskInvariant, DiskInvMeans, PTL
=============================================================================
