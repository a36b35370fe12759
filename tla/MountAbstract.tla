---------------------------- MODULE MountAbstract ----------------------------
(***************************************************************************)
(* What a call of lcfs_mount_image / lcfs_mount_fd promises its caller,   *)
(* without loop devices, temporary directories or fallback paths: each    *)
(* call at most once makes an overlay mount of its own image appear, with *)
(* the idmap it asked for, verity when it required it, and its objdirs as *)
(* data-only layers unless the kernel has none; then it returns 0 if and  *)
(* only if it mounted, and an errno otherwise.  The mount, once there,    *)
(* does not change.  Every call returns.                                  *)
(***************************************************************************)
CONSTANTS
    Procs,      \* the calls
    Options,    \* their possible options
    Kernels,    \* the possible kernels
    Errnos,     \* the errnos a call may return
    None

VARIABLES
    opts,       \* each call's options
    kernel,     \* the running kernel
    mount,      \* each call's overlay mount, or None
    result      \* each call's return value, None while it runs

avars == <<opts, kernel, mount, result>>

\* The overlays call p may mount: of its own image p, idmapped as asked,
\* with verity if REQUIRE_VERITY, objdirs visible only without data-only
\* layer support.
Allowed(p) ==
    {m \in [img : {p}, verity : BOOLEAN, idmap : BOOLEAN, dataOnly : BOOLEAN] :
        /\ m.idmap = opts[p].idmap
        /\ opts[p].require => m.verity
        /\ ~m.dataOnly => ~kernel.dataLower}

AInit ==
    /\ opts \in [Procs -> Options]
    /\ kernel \in Kernels
    /\ mount = [p \in Procs |-> None]
    /\ result = [p \in Procs |-> None]

\* The overlay of a running call appears at its mount point.
MountImage(p) ==
    /\ result[p] = None /\ mount[p] = None
    /\ \E m \in Allowed(p) : mount' = [mount EXCEPT ![p] = m]
    /\ UNCHANGED <<opts, kernel, result>>

\* The call returns 0 with its overlay mounted, or an errno without.
ReturnResult(p) ==
    /\ result[p] = None
    /\ result' = [result EXCEPT ![p] = "OK"]
    /\ mount[p] # None
    /\ UNCHANGED <<opts, kernel, mount>>

ReturnError(p) ==
    /\ result[p] = None /\ mount[p] = None
    /\ \E e \in Errnos : result' = [result EXCEPT ![p] = e]
    /\ UNCHANGED <<opts, kernel, mount>>

ANext == \E p \in Procs : MountImage(p) \/ ReturnResult(p) \/ ReturnError(p)

ASpec ==
    /\ AInit /\ [][ANext]_avars
    /\ \A p \in Procs : WF_avars(ReturnResult(p) \/ ReturnError(p))

=============================================================================
