----------------------------- MODULE LcfsMount -----------------------------
(***************************************************************************)
(* The mount orchestration of libcomposefs (src/libcomposefs/lcfs-mount.c):*)
(* lcfs_mount_image / lcfs_mount_fd validate the options, check the        *)
(* fs-verity digest, read the EROFS header, bind the image to a loop       *)
(* device, mount EROFS on a temporary or caller-supplied directory, stack  *)
(* an overlayfs on it at the mount point (new mount API, falling back to   *)
(* mount(2) with a "::" then a ":" lowerdir) and detach the EROFS mount.   *)
(*                                                                         *)
(* Each process of Procs is one concurrent call.  They share the kernel's  *)
(* loop devices (bound with LO_FLAGS_AUTOCLEAR: a device unbinds itself    *)
(* when its last holder goes) and the directories.  A syscall that only    *)
(* touches a private fd (the fsconfig sequence of one fs context) is part  *)
(* of one step; a syscall that changes shared state is a step of its own.  *)
(* Any errno the code merely passes up is "EIO"; such failures are only    *)
(* possible when Faults is TRUE.                                           *)
(***************************************************************************)
EXTENDS Naturals, FiniteSets, Sequences

CONSTANTS
    Procs,      \* concurrent lcfs_mount_* calls
    Loops,      \* loop devices the kernel can hand out
    Options,    \* set of possible option records (struct lcfs_mount_options_s)
    Images,     \* set of possible image files
    Kernels,    \* set of possible kernel feature records
    Faults,     \* may a syscall fail for reasons the code only passes up?
    SharedUserDir, \* do calls given an image_mountdir all get the same one?
    None

Errnos == {"EINVAL", "ENOSYS", "ENOTSUP", "EWRONGVERITY", "ENOMEM", "EBUSY", "EIO"}
Results == {"OK"} \cup Errnos

\* An errno the environment may produce on any fallible syscall.
Fault == IF Faults THEN {"EIO"} ELSE {}

\* Directories by name: a call's mkdtemp'd /tmp/.composefs.XXXXXX, and
\* options->image_mountdir, one per call or one for all.
DirNames == {"tmp", "user"} \X (Procs \cup {None})
TmpDir(p) == <<"tmp", p>>
UserDir(p) == IF SharedUserDir THEN <<"user", None>> ELSE <<"user", p>>
MountStates == {"none", "attached", "pinned"}   \* pinned: detached, kept by the overlay

VARIABLES
    pc,         \* program point of each call
    opts,       \* its options
    img,        \* the image file its fd refers to
    kernel,     \* the running kernel's features (fixed)
    err,        \* the local errint_t err / res of the current function
    result,     \* the value returned (0 as "OK", else errno)
    devnr,      \* loop device number from LOOP_CTL_GET_FREE
    loopfd,     \* is the call's fd on /dev/loopN open?
    created,    \* created_tmpdir
    erofs,      \* the EROFS mount made by the call
    ovl,        \* the overlay mounted at the mount point by the call
    attempt,    \* legacy overlay mount: 1 with "::" datadirs, 2 with ":"
    loopBound,  \* loop device -> call whose image it is bound to
    dirExists,  \* directory -> exists
    stacked     \* directory -> the calls whose EROFS mounts are attached
                \* there, bottom first; its path resolves to the last

vars == <<pc, opts, img, kernel, err, result, devnr, loopfd, created, erofs,
          ovl, attempt, loopBound, dirExists, stacked>>

Pcs == {"validate", "open", "verity", "header", "getfree", "configure",
        "imagemount", "erofs", "closeloop", "ovl", "legacy", "cleanup", "done"}

ImageMount(p) == IF opts[p].userdir THEN UserDir(p) ELSE TmpDir(p)

\* The call whose EROFS mount a lookup of directory d reaches, or None.
TopMount(d) == IF stacked[d] = <<>> THEN None ELSE stacked[d][Len(stacked[d])]

-----------------------------------------------------------------------------
(* Loop devices.                                                           *)

\* The flags set by setup_loopback: read-only, direct-io, autoclear.
AutoClearFlagless == FALSE
AutoClear == TRUE

\* Call q holds loop device l through its fd or through its EROFS mount.
Holds(q, l, fds, mnts) == devnr[q] = l /\ (fds[q] \/ mnts[q].at # "none")

\* After a release, the kernel unbinds every autoclear device nobody holds.
ReleaseLoops(fds, mnts) ==
    loopBound' = [l \in Loops |->
                    IF AutoClear /\ \A q \in Procs : ~Holds(q, l, fds, mnts)
                    THEN None ELSE loopBound[l]]

-----------------------------------------------------------------------------

\* syscall_fsopen, syscall_fsconfig, syscall_fsmount, syscall_move_mount:
\* they fail with ENOSYS where the build or the running kernel lacks the
\* new mount API.
NewMountApi(k) == k.newApi

\* syscall_mount_setattr: built only with HAVE_MOUNT_ATTR_IDMAP, else the
\* idmap step of lcfs_mount_erofs returns ENOTSUP.
MountSetattr(k) == k.setattr

Goto(p, label) == pc' = [pc EXCEPT ![p] = label]

\* Returning from lcfs_mount_image / lcfs_mount_fd.  The image fd opened by
\* lcfs_mount_image is closed on every return path after the open (line 704).
Return(p, e) == /\ result' = [result EXCEPT ![p] = e]
                /\ Goto(p, "done")

\* lcfs_validate_mount_options: flags within LCFS_MOUNT_FLAGS_MASK, at
\* least one objdir, upperdir iff workdir and idmap_fd >= 0 under IDMAP are
\* summarised by o.valid; the digest must parse.
OptionsValid(o) == o.valid /\ o.digest # "bad"

Validate(p) ==
    /\ pc[p] = "validate"
    /\ IF OptionsValid(opts[p])
       THEN Goto(p, IF opts[p].api = "image" THEN "open" ELSE "verity")
            /\ UNCHANGED result
       ELSE Return(p, "EINVAL")
    /\ UNCHANGED <<err, devnr, loopfd, created, erofs, ovl, attempt, loopBound, dirExists, stacked>>

\* lcfs_mount_image: open(path, O_RDONLY).
OpenImage(p) ==
    /\ pc[p] = "open"
    /\ \/ Goto(p, "verity") /\ UNCHANGED result
       \/ \E e \in Fault : Return(p, e)
    /\ UNCHANGED <<err, devnr, loopfd, created, erofs, ovl, attempt, loopBound, dirExists, stacked>>

\* lcfs_validate_verity_fd: with an expected digest, measure the file's
\* fs-verity digest (fails if verity is not enabled) and compare.
ValidateVerity(p) ==
    /\ pc[p] = "verity"
    /\ LET want == opts[p].digest
           have == img[p].verity
       IN \/ /\ want = "none" \/ want = have
             /\ Goto(p, "header") /\ UNCHANGED result
          \/ want # "none" /\ have = "none" /\ Return(p, "EIO")
          \/ want # "none" /\ have \notin {"none", want} /\ Return(p, "EWRONGVERITY")
    /\ UNCHANGED <<err, devnr, loopfd, created, erofs, ovl, attempt, loopBound, dirExists, stacked>>

\* lcfs_mount: pread the header; a short read or a wrong magic is EINVAL.
ReadHeader(p) ==
    /\ pc[p] = "header"
    /\ \/ img[p].header = "erofs" /\ Goto(p, "getfree") /\ UNCHANGED result
       \/ img[p].header \in {"short", "badmagic"} /\ Return(p, "EINVAL")
       \/ \E e \in Fault : Return(p, e)
    /\ UNCHANGED <<err, devnr, loopfd, created, erofs, ovl, attempt, loopBound, dirExists, stacked>>

\* setup_loopback, first half: open /dev/loop-control, LOOP_CTL_GET_FREE,
\* close.  The device number is only a hint: nothing reserves it.
LoopGetFree(p) ==
    /\ pc[p] = "getfree"
    /\ \/ \E l \in Loops :
            /\ loopBound[l] = None
            /\ devnr' = [devnr EXCEPT ![p] = l]
            /\ Goto(p, "configure") /\ UNCHANGED result
       \/ /\ Faults \/ \A l \in Loops : loopBound[l] # None
          /\ Return(p, "EIO") /\ UNCHANGED devnr
    /\ UNCHANGED <<err, loopfd, created, erofs, ovl, attempt, loopBound, dirExists, stacked>>

\* The kernel's answer to open(/dev/loopN) + LOOP_CONFIGURE.
ConfigureAnswers(l) ==
    IF loopBound[l] = None THEN {"OK"} \cup Fault ELSE {"EBUSY"} \cup Fault

\* A variant that ignores the ioctl's failure and carries on with loopfd.
LoopConfigureFailedIgnored(p, e) ==
    /\ e # "OK"
    /\ loopfd' = [loopfd EXCEPT ![p] = TRUE]
    /\ Goto(p, "imagemount")
    /\ UNCHANGED <<result, loopBound>>

\* LOOP_CONFIGURE failed: close(loopfd), return -errsv.
LoopConfigureFailed(p, e) ==
    /\ e # "OK"
    /\ Return(p, e)
    /\ UNCHANGED <<loopfd, loopBound>>

LoopConfigure(p) ==
    /\ pc[p] = "configure"
    /\ \E e \in ConfigureAnswers(devnr[p]) :
          \/ LoopConfigureFailed(p, e)
          \/ /\ e = "OK"
             /\ loopBound' = [loopBound EXCEPT ![devnr[p]] = p]
             /\ loopfd' = [loopfd EXCEPT ![p] = TRUE]
             /\ Goto(p, "imagemount") /\ UNCHANGED result
    /\ UNCHANGED <<err, devnr, created, erofs, ovl, attempt, dirExists, stacked>>


\* lcfs_mount_erofs_ovl: the caller's image_mountdir, or mkdtemp.  If
\* mkdtemp fails the loop fd is closed and the device autoclears.
ImageMountDir(p) ==
    /\ pc[p] = "imagemount"
    /\ \/ opts[p].userdir /\ Goto(p, "erofs")
          /\ UNCHANGED <<result, loopfd, created, loopBound, dirExists>>
       \/ /\ ~opts[p].userdir
          /\ dirExists' = [dirExists EXCEPT ![TmpDir(p)] = TRUE]
          /\ created' = [created EXCEPT ![p] = TRUE]
          /\ Goto(p, "erofs")
          /\ UNCHANGED <<result, loopfd, loopBound>>
       \/ /\ ~opts[p].userdir /\ Faults
          /\ loopfd' = [loopfd EXCEPT ![p] = FALSE]
          /\ ReleaseLoops(loopfd', erofs)
          /\ Return(p, "EIO")
          /\ UNCHANGED <<created, dirExists>>
    /\ UNCHANGED <<err, devnr, erofs, ovl, attempt, stacked>>

-----------------------------------------------------------------------------
(* lcfs_mount_erofs(loopname, imagemount, image_flags, state).  The fs     *)
(* context and the detached mount are private fds closed on every error    *)
(* path (cleanup_fd), so a failure leaves no mount behind.  The mount      *)
(* reads whatever image /dev/loopN is bound to at that moment.             *)

\* A variant that records the loop device where the image belongs.
ErofsMountedDevice(p, idmapped) == [at |-> "attached", img |-> devnr[p], idmap |-> idmapped]

\* move_mount onto imagemount: the mount shows what /dev/loopN, opened by
\* name, is bound to now.
ErofsMounted(p, idmapped) == [at |-> "attached", img |-> loopBound[devnr[p]], idmap |-> idmapped]

\* The idmap step: skipped without IDMAP; without HAVE_MOUNT_ATTR_IDMAP or
\* mount_setattr in the kernel it gives ENOTSUP; else the syscall's answer.
SetattrAnswers(p) ==
    IF ~opts[p].idmap THEN {"skip"}
    ELSE IF ~MountSetattr(kernel) THEN {"ENOTSUP"}
    ELSE {"OK"} \cup Fault

\* A variant that drops mount_setattr's "if (res < 0) return -errno".
SetattrFailedUnchecked(a) == a = "ENOTSUP"

SetattrFailed(a) == a \notin {"skip", "OK"}

\* fsopen("erofs") worked: fsconfig source/ro/noacl, CMD_CREATE, fsmount,
\* mount_setattr(MOUNT_ATTR_IDMAP) if IDMAP, move_mount onto imagemount.
ErofsNewApi(p) ==
    \/ \E e \in Fault : err' = [err EXCEPT ![p] = e] /\ UNCHANGED erofs
    \/ \E a \in SetattrAnswers(p) :
          IF SetattrFailed(a)
          THEN err' = [err EXCEPT ![p] = a] /\ UNCHANGED erofs
          ELSE /\ err' = [err EXCEPT ![p] = "OK"]
               /\ erofs' = [erofs EXCEPT ![p] = ErofsMounted(p, a = "OK")]

\* A variant of the fallback that forgets that idmapped mounts need the new API.
ErofsLegacyNoIdmapCheck(p) ==
    \/ \E e \in Fault : err' = [err EXCEPT ![p] = e] /\ UNCHANGED erofs
    \/ /\ err' = [err EXCEPT ![p] = "OK"]
       /\ erofs' = [erofs EXCEPT ![p] = ErofsMounted(p, FALSE)]

\* fsopen gave ENOSYS: idmapped mounts are refused, else mount(2).
ErofsLegacy(p) ==
    \/ opts[p].idmap /\ err' = [err EXCEPT ![p] = "ENOTSUP"] /\ UNCHANGED erofs
    \/ ~opts[p].idmap /\ \E e \in Fault : err' = [err EXCEPT ![p] = e] /\ UNCHANGED erofs
    \/ /\ ~opts[p].idmap
       /\ err' = [err EXCEPT ![p] = "OK"]
       /\ erofs' = [erofs EXCEPT ![p] = ErofsMounted(p, FALSE)]

MountErofs(p) ==
    /\ pc[p] = "erofs"
    /\ IF NewMountApi(kernel) THEN ErofsNewApi(p) ELSE ErofsLegacy(p)
    /\ stacked' = IF erofs'[p] # erofs[p]
                  THEN [stacked EXCEPT ![ImageMount(p)] = Append(@, p)] ELSE stacked
    /\ Goto(p, "closeloop")
    /\ UNCHANGED <<result, devnr, loopfd, created, ovl, attempt, loopBound, dirExists>>

\* A variant that does not check lcfs_mount_erofs's result.
ErofsFailedUnchecked(e) == FALSE

ErofsFailed(e) == e # "OK"

\* close(loopfd); on error rmdir(imagemount) and return.  The rmdir is not
\* conditional on created_tmpdir; it fails (EBUSY) only on a mount point.
CloseLoop(p) ==
    /\ pc[p] = "closeloop"
    /\ loopfd' = [loopfd EXCEPT ![p] = FALSE]
    /\ ReleaseLoops(loopfd', erofs)
    /\ IF ErofsFailed(err[p])
       THEN /\ dirExists' = [dirExists EXCEPT ![ImageMount(p)] = stacked[ImageMount(p)] # <<>>]
            /\ Return(p, err[p])
       ELSE Goto(p, "ovl") /\ UNCHANGED <<result, dirExists, stacked>>
    /\ UNCHANGED <<err, devnr, created, erofs, ovl, attempt, stacked>>

-----------------------------------------------------------------------------
(* The overlay.                                                            *)

\* The overlay; its lower layer is whatever the image mount directory's
\* path resolves to when lowerdir+ or mount(2) looks it up.
Mounted(verity, dataOnly, lower) == [verity |-> verity, dataOnly |-> dataOnly, lower |-> lower]

\* A variant where a failed "verity=require" is ignored even under REQUIRE_VERITY.
OvlVerityRefusedIgnored(o, k) == FALSE

\* fsconfig "verity"="require" fails on this kernel and REQUIRE_VERITY is set.
OvlVerityRefused(o, k) == o.require /\ ~k.ovlVerity

\* lcfs_mount_ovl: new mount API.  -ENOSYS (no fsopen, an overlay that does
\* not validate keys, EINVAL from lowerdir+ on kernels before 6.7) sends the
\* caller to lcfs_mount_ovl_legacy.  Other errors end the mount.  Verity is
\* requested under REQUIRE_VERITY or TRY_VERITY; VOLATILE's failure is ignored.
MountOvl(p) ==
    /\ pc[p] = "ovl"
    /\ LET o == opts[p]
           k == kernel
           newApi == NewMountApi(k) /\ k.ovlValidates
       IN \/ /\ ~newApi \/ (~OvlVerityRefused(o, k) /\ ~k.ovlAppend)
             /\ Goto(p, "legacy") /\ UNCHANGED <<err, ovl>>
          \/ /\ newApi
             /\ \E e \in Fault : err' = [err EXCEPT ![p] = e]
             /\ Goto(p, "cleanup") /\ UNCHANGED ovl
          \/ /\ newApi /\ OvlVerityRefused(o, k)
             /\ err' = [err EXCEPT ![p] = "EINVAL"]
             /\ Goto(p, "cleanup") /\ UNCHANGED ovl
          \/ /\ newApi /\ ~OvlVerityRefused(o, k) /\ k.ovlAppend
             /\ err' = [err EXCEPT ![p] = "OK"]
             /\ ovl' = [ovl EXCEPT ![p] = Mounted((o.require \/ o.try) /\ k.ovlVerity, TRUE, TopMount(ImageMount(p)))]
             /\ Goto(p, "cleanup")
    /\ UNCHANGED <<result, devnr, loopfd, created, erofs, attempt, loopBound, dirExists, stacked>>

\* Variants of the retry test: retrying on any error, retrying forever.
LegacyRetryAnyError(e, a) == a = 1
LegacyRetryUnbounded(e, a) == e = "EINVAL"

\* Retry with the ":" lowerdir when the "::" one gave EINVAL.
LegacyRetry(e, a) == e = "EINVAL" /\ a = 1

\* The kernel's answer to mount(2) of "overlay" with the given lowerdir.  It
\* rejects "::" without data-only layer support and "verity=require"
\* (added under REQUIRE_VERITY only; TRY_VERITY is ignored) without verity.
LegacyAnswers(p) ==
    LET dataOnly == attempt[p] = 1
        rejected == (dataOnly /\ ~kernel.dataLower)
                    \/ (opts[p].require /\ ~kernel.ovlVerity)
    IN IF rejected THEN {"EINVAL"} \cup Fault ELSE {"OK"} \cup Fault

\* lcfs_mount_ovl_legacy.  Before the first mount the two lowerdir strings
\* and the escaped upperdir/workdir are allocated (ENOMEM on failure).
MountOvlLegacy(p) ==
    /\ pc[p] = "legacy"
    /\ \/ /\ attempt[p] = 1 /\ Faults
          /\ err' = [err EXCEPT ![p] = "ENOMEM"]
          /\ Goto(p, "cleanup") /\ UNCHANGED <<ovl, attempt>>
       \/ \E e \in LegacyAnswers(p) :
            \/ /\ e = "OK"
               /\ err' = [err EXCEPT ![p] = "OK"]
               /\ ovl' = [ovl EXCEPT ![p] = Mounted(opts[p].require, attempt[p] = 1, TopMount(ImageMount(p)))]
               /\ Goto(p, "cleanup") /\ UNCHANGED attempt
            \/ /\ e # "OK" /\ LegacyRetry(e, attempt[p])
               /\ attempt' = [attempt EXCEPT ![p] = 2]
               /\ UNCHANGED <<err, ovl, pc>>
            \/ /\ e # "OK" /\ ~LegacyRetry(e, attempt[p])
               /\ err' = [err EXCEPT ![p] = e]
               /\ Goto(p, "cleanup") /\ UNCHANGED <<ovl, attempt>>
    /\ UNCHANGED <<result, devnr, loopfd, created, erofs, loopBound, dirExists, stacked>>

\* lcfs_mount_erofs_ovl's tail: umount2(imagemount, MNT_DETACH) detaches
\* the mount the path resolves to (an overlay on it keeps it, and so its
\* loop device, alive; with nothing mounted umount2 fails, unchecked),
\* rmdir the directory if it was created, return err.
Cleanup(p) ==
    /\ pc[p] = "cleanup"
    /\ LET d == ImageMount(p)
           top == TopMount(d)
           popped == IF top = None THEN stacked
                     ELSE [stacked EXCEPT ![d] = SubSeq(@, 1, Len(@) - 1)]
       IN /\ stacked' = popped
          /\ erofs' = IF top = None THEN erofs
                      ELSE [erofs EXCEPT ![top].at =
                              IF \E r \in Procs : ovl[r] # None /\ ovl[r].lower = top
                              THEN "pinned" ELSE "none"]
          /\ dirExists' = IF created[p] /\ popped[d] = <<>>
                          THEN [dirExists EXCEPT ![d] = FALSE] ELSE dirExists
    /\ ReleaseLoops(loopfd, erofs')
    /\ Return(p, err[p])
    /\ UNCHANGED <<err, devnr, loopfd, created, ovl, attempt>>

-----------------------------------------------------------------------------

Init ==
    /\ pc = [p \in Procs |-> "validate"]
    /\ opts \in [Procs -> Options]
    /\ img \in [Procs -> Images]
    /\ kernel \in Kernels
    /\ err = [p \in Procs |-> "OK"]
    /\ result = [p \in Procs |-> "OK"]
    /\ devnr = [p \in Procs |-> None]
    /\ loopfd = [p \in Procs |-> FALSE]
    /\ created = [p \in Procs |-> FALSE]
    /\ erofs = [p \in Procs |-> [at |-> "none", img |-> None, idmap |-> FALSE]]
    /\ ovl = [p \in Procs |-> None]
    /\ attempt = [p \in Procs |-> 1]
    /\ loopBound = [l \in Loops |-> None]
    /\ dirExists = [d \in DirNames |-> d[1] = "user"]
    /\ stacked = [d \in DirNames |-> <<>>]

\* A step of call p; its inputs and the kernel never change.
Step(p) ==
    /\ UNCHANGED <<opts, img, kernel>>
    /\ \/ Validate(p) \/ OpenImage(p) \/ ValidateVerity(p) \/ ReadHeader(p)
       \/ LoopGetFree(p) \/ LoopConfigure(p) \/ ImageMountDir(p)
       \/ MountErofs(p) \/ CloseLoop(p) \/ MountOvl(p) \/ MountOvlLegacy(p)
       \/ Cleanup(p)

\* Every call has returned; the system stays put.
Terminated == /\ \A p \in Procs : pc[p] = "done"
              /\ UNCHANGED vars

Next == (\E p \in Procs : Step(p)) \/ Terminated

\* Each call is a thread running to completion: every syscall returns.
Fairness == \A p \in Procs : WF_vars(Step(p))

Spec == Init /\ [][Next]_vars /\ Fairness

-----------------------------------------------------------------------------

TypeOK ==
    /\ pc \in [Procs -> Pcs]
    /\ err \in [Procs -> Results]
    /\ result \in [Procs -> Results]
    /\ devnr \in [Procs -> Loops \cup {None}]
    /\ loopfd \in [Procs -> BOOLEAN]
    /\ created \in [Procs -> BOOLEAN]
    /\ erofs \in [Procs -> [at : MountStates, img : Procs \cup {None}, idmap : BOOLEAN]]
    /\ ovl \in [Procs -> {None} \cup [verity : BOOLEAN, dataOnly : BOOLEAN, lower : Procs \cup {None}]]
    /\ attempt \in [Procs -> {1, 2}]
    /\ loopBound \in [Loops -> Procs \cup {None}]
    /\ dirExists \in [DirNames -> BOOLEAN]
    /\ stacked \in [DirNames -> Seq(Procs)]

-----------------------------------------------------------------------------
(* Properties.                                                             *)

\* The EROFS mount a call makes shows its own image, even when another call
\* got the same free device number from LOOP_CTL_GET_FREE and bound it
\* first (setup_loopback's GET_FREE / LOOP_CONFIGURE window), and even
\* though the mount opens the device by name, not through loopfd.
ImageIsolation ==
    \A p \in Procs : erofs[p].at # "none" => erofs[p].img = p

\* When a call has returned it holds no loop fd and no attached EROFS
\* mount, its mkdtemp directory is gone, and a loop device still bound to
\* its image is one kept alive by its overlay: every error path of
\* lcfs_mount_erofs_ovl and setup_loopback releases what it acquired.
NoLeakAtReturn ==
    \A p \in Procs : pc[p] = "done" =>
        /\ ~loopfd[p]
        /\ erofs[p].at # "attached"
        /\ ~dirExists[TmpDir(p)]
        /\ \A l \in Loops : loopBound[l] = p => ovl[p] # None

\* lcfs_mount_* returns 0 exactly when an overlay is mounted at the mount
\* point, and that overlay sits on a live EROFS mount of the call's image.
ResultMatchesMount ==
    \A p \in Procs : pc[p] = "done" =>
        /\ (result[p] = "OK") <=> (ovl[p] # None)
        /\ ovl[p] # None => /\ ovl[p].lower = p
                            /\ erofs[p].at = "pinned"
                            /\ loopBound[devnr[p]] = p

\* Under LCFS_MOUNT_FLAGS_REQUIRE_VERITY no overlay is mounted without
\* verity=require, whichever of the new-API and legacy paths mounted it.
VerityHonoured ==
    \A p \in Procs : ovl[p] # None /\ opts[p].require => ovl[p].verity

\* The object directories become ordinary lower layers (":" instead of
\* "::", visible in the merged tree) only on a kernel without data-only
\* layers: lcfs_mount_ovl_legacy's retry must not fire for other errors.
DataOnlyFallback ==
    \A p \in Procs : ovl[p] # None /\ ~ovl[p].dataOnly => ~kernel.dataLower

\* Under LCFS_MOUNT_FLAGS_IDMAP an EROFS mount, on either the new-API or
\* the mount(2) fallback path of lcfs_mount_erofs, is idmapped.
IdmapHonoured ==
    \A p \in Procs : erofs[p].at # "none" /\ opts[p].idmap => erofs[p].idmap

\* A directory the caller passed as image_mountdir still exists when the
\* call is over: the code only creates and removes its own mkdtemp
\* directory (created_tmpdir).
UserDirPreserved ==
    \A p \in Procs : opts[p].userdir => dirExists[UserDir(p)]

\* Every call returns: the legacy retry loop runs at most twice.
Termination == <>(\A p \in Procs : pc[p] = "done")

-----------------------------------------------------------------------------
(* Refinement of MountAbstract.  A call's overlay, as the abstract spec    *)
(* sees it, is the one at its mount point, showing the image bound to the  *)
(* loop device under it, now; its result is the value it returned.  Every  *)
(* other step is a stutter of the abstract spec.                           *)

AbsMount ==
    [p \in Procs |->
        IF ovl[p] = None THEN None
        ELSE LET q == ovl[p].lower
             IN [img |-> IF q = None THEN None ELSE loopBound[devnr[q]],
                 verity |-> ovl[p].verity,
                 idmap |-> q # None /\ erofs[q].idmap, dataOnly |-> ovl[p].dataOnly]]

AbsResult == [p \in Procs |-> IF pc[p] = "done" THEN result[p] ELSE None]

Abs == INSTANCE MountAbstract WITH mount <- AbsMount, result <- AbsResult

\* The mount calls implement MountAbstract: through every fallback chain,
\* fault and interleaving of lcfs_mount_erofs_ovl, an overlay appears at
\* most once, of the call's own image (the loop device under it is never
\* unbound or rebound while it stands), with the requested idmap, verity
\* and data-only layers; the call returns 0 exactly when it mounted; and
\* every call returns.
MountSpec == Abs!ASpec

=============================================================================
