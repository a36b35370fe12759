# TLA+ models of composefs: mounting and the image reader

This directory has TLA+ models of the code under `src/`: the mount orchestrator `src/libcomposefs/lcfs-mount.c` and the fuzz harness `src/fuzzing/main.c`. Each model is checked with TLC. `PROJECT.json` lists the components, the runs, the mutants, and the source lines that each definition translates.

## 1. Inventory

### Components

| Component | Source | State it keeps | Operations |
|---|---|---|---|
| Mount orchestration | `lcfs-mount.c` `lcfs_mount_image`, `lcfs_mount_fd`, `lcfs_mount`, `lcfs_mount_erofs_ovl` | `struct lcfs_mount_state_s` (options, fd, expected digest), local `loopfd`, `imagemount`, `created_tmpdir`, `err` | validate options; open image; verify the fs-verity digest; read the header; set up the loopback; choose or create the image mount dir; mount EROFS; close loopfd; mount the overlay; detach EROFS; rmdir; return |
| Loop device setup | `setup_loopback` | none of its own; the kernel's loop devices (bound / free, holders) | `LOOP_CTL_GET_FREE`, `open`, `LOOP_CONFIGURE` with `LO_FLAGS_AUTOCLEAR` |
| EROFS mount | `lcfs_mount_erofs` | private fs-context fd and detached-mount fd (`cleanup_fd`) | new API: fsopen/fsconfig/fsmount/mount_setattr/move_mount; fallback: `mount(2)` |
| Overlay mount, new API | `lcfs_mount_ovl` | private fs context | probe with the "unsupported" key; source, metacopy, redirect_dir; verity; volatile; lowerdir+, datadir+, upperdir, workdir; create; fsmount; move_mount; EINVAL becomes ENOSYS |
| Overlay mount, legacy | `lcfs_mount_ovl_legacy`, `compute_lower`, `escape_mount_option[_to]` | two lowerdir strings, escaped upper/work dirs, `lowerdir_target` | build the strings, then `mount(2)`; retry once with ":" after EINVAL |
| Fuzz harness | `src/fuzzing/main.c` | `test_context_s.recursion_left`, the reader context | create a context from the bytes, probe inodes 0..3, look up a name, walk the tree recursively to depth 4 |
| Image reader (not under `src/`) | `kernel/lcfs-reader.h`, used by the harness | the `Context` (validated header) | get inode, get dir, iterate, lookup, xattrs, payload path (spec §4) |
| fs-verity measurement, digest parsing, image writer, tools | not under `src/` | | used only through their results |

### How the parts interact

A mount call is a sequential thread. Several calls may run at once, in one process or in many, and they share kernel state:

- **Loop devices.** `LOOP_CTL_GET_FREE` names a free device but does not reserve it. `LOOP_CONFIGURE` binds it and fails with EBUSY if another call bound it first. `LO_FLAGS_AUTOCLEAR` unbinds the device when its last holder goes. The holders are the call's `loopfd` and the EROFS mount. After `umount2(MNT_DETACH)`, the EROFS mount lives on only while the overlay on top of it exists.
- **Directories.** Each call has its own mkdtemp directory, or the `image_mountdir` the caller supplied. Nothing stops two calls from being given the same `image_mountdir`. Their EROFS mounts then stack on it, and every later use of the path reaches the topmost mount: the overlay's lowerdir lookup and `umount2`.
- **The kernel's feature set.** This decides which branch each call takes. The new mount API may be missing (ENOSYS from `fsopen`). Overlayfs may not validate new-API keys, or may lack `lowerdir+` (before 6.7), data-only layers "::" (before 6.5), verity, or `mount_setattr`.

The harness calls into the reader: `lcfs_get_ino_index`, `lcfs_get_dir`, `lcfs_iterate_dir` with the `iter_cb` callback, `lcfs_lookup`, `lcfs_get_xattrs`, and `lcfs_dup_payload_path`. `iter_cb` re-enters `lcfs_iterate_dir`.

### What is hard

- **Interleavings on the loop devices.** These are the GET_FREE / CONFIGURE window, and autoclear racing a concurrent bind.
- **Partial failure.** A mount call has about 25 failure points. Each must release exactly what was acquired before it: the loop fd, the binding, the EROFS mount, and the temporary directory. It must not release what it never acquired.
- **Fallback chains.** The new API falls back to legacy through EINVAL→ENOSYS, sometimes after the fs context is half configured. Legacy retries from "::" to ":". REQUIRE_VERITY and IDMAP must hold on every chain.
- **String encoding at a tight bound.** `compute_lower` allocates for the exact worst case, and the escaping must match the kernel's parser.
- **Adversarial images (harness).** The directory graph may contain cycles. Only the recursion counter bounds the walk.

### What makes each part correct

- Mounting: no leak on any return path; the result is 0 exactly when an overlay is mounted over a live EROFS mount of the call's own image; REQUIRE_VERITY and IDMAP are never silently dropped; objdirs become visible layers only where the kernel has no data-only layers; every call returns; caller-owned directories are left alone.
- Option string: fits its buffers; parses back to exactly the caller's layers and directories.
- Harness: the input reaches the reader whole; the walk stays within the depth bound, restores `recursion_left`, visits every entry path within the bound, and ends; every directory handle is freed.

The hazards behind these properties are listed, each at its source line, under `hazards` in `PROJECT.json`.

## 2. Plan

In order of importance:

1. **`LcfsMount`** (done): the whole mount call as a per-call step machine, plus the shared loop devices and directories. It composes loop setup, the EROFS mount, and both overlay paths.
2. **`MountOptions`** (done): the character-level model of the legacy option string, checked against the overlayfs parser.
3. **`FuzzTraversal`** (done): the harness's `main`, `create_ctx`, `safe_write`, `LLVMFuzzerTestOneInput` and `iter_cb` over every small, possibly cyclic, image. The reader calls in it are modelled from the spec.
4. **`MountAbstract`** (done): what a mount call promises. `LcfsMount` is checked to refine it through `INSTANCE ... WITH`.
5. **Binary-search lookup** (not planned): the spec states only its contract, and the reader's code is not in the repository (see section 6).

## 3. Modules and how they map to the code

### `LcfsMount` (and `MC_LcfsMount`)

Each call `p ∈ Procs` has a program point `pc[p]`, one per code region:

| Action | Code |
|---|---|
| `Validate` | `lcfs_validate_mount_options` (all of 181-209) and the dispatch in `lcfs_mount_fd` / `lcfs_mount_image` |
| `OpenImage` | `open(path)` in `lcfs_mount_image` |
| `ValidateVerity` | `lcfs_validate_verity_fd` |
| `ReadHeader` | `pread` + magic check in `lcfs_mount` |
| `LoopGetFree` | `setup_loopback` up to `LOOP_CTL_GET_FREE` |
| `LoopConfigure` | `open(/dev/loopN)` + `LOOP_CONFIGURE` and its error path |
| `ImageMountDir` | `image_mountdir` or `mkdtemp`, with the close on failure |
| `MountErofs` | `lcfs_mount_erofs`, all of it: the new API, or the mount(2) fallback |
| `CloseLoop` | `close(loopfd)`, and on error `rmdir(imagemount)` and return |
| `MountOvl` | `lcfs_mount_ovl`; its ENOSYS leads to `MountOvlLegacy` |
| `MountOvlLegacy` | `lcfs_mount_ovl_legacy` including the `goto retry` |
| `Cleanup` | `umount2(MNT_DETACH)` of the topmost mount at the directory, `rmdir` if `created_tmpdir` and nothing is still mounted there, return |

Shared variables:

- `loopBound`: device → the call whose image it holds.
- `dirExists`: the directories, named `TmpDir(p)` or `UserDir(p)`. With the constant `SharedUserDir`, every call's `UserDir` is the same directory.
- `stacked`: for each directory, the calls whose EROFS mounts are attached there, bottom first. `TopMount(d)` is the call a path lookup of `d` reaches.

Per-call variables:

- `devnr`, `loopfd`, `created`, `err`, `result`, `attempt`.
- `erofs`: where the EROFS mount is attached, and the image it shows.
- `ovl`: the mounted overlay, with its verity and data-only flags and its lower layer: the call whose EROFS mount the lowerdir path resolved to.

An EROFS mount's `idmap` is the outcome of the `mount_setattr` step (`SetattrAnswers`, lines 542-556). It is TRUE only when that call ran and succeeded. So `IdmapHonoured` checks both paths: the error check after `mount_setattr` on the new API (line 551), and the ENOTSUP refusal in the `mount(2)` fallback (line 569).

`ReleaseLoops` is the kernel's autoclear. It runs in every step that drops a holder.

An fs context, or a detached mount fd, is private to its call until `move_mount`, and `cleanup_fd` closes it on every error path. Therefore each of `lcfs_mount_erofs` and `lcfs_mount_ovl` is a single step, whose outcome the kernel's features and the possible faults choose.

### `MountOptions` (and `MC_MountOptions`)

- Paths are sequences of one-character strings. `EscapeMountOptionTo`, `ComputeLower`, `LowerAlloc`, `EscapeAlloc` and `Format` translate the C functions.
- The actions are `Compute` (lines 306-336), `FormatOptions` (the asprintf), `Retry` (`goto retry`) and `Return`.
- `Split` and `Unescape` are the reference: the kernel's `ovl_next_opt`, the split of `ovl_parse_param_split_lowerdirs`, and `ovl_unescape`.

### `FuzzTraversal` (and `MC_FuzzTraversal`)

One thread runs the harness. Its program point `pc` follows the code:

| Action | Code (`src/fuzzing/main.c`) |
|---|---|
| `NextInput`, `Exit` | `main`'s loop (176-196): take an input, or skip it when `read_file` fails; the model stops after `MaxInputs` |
| `Open` | `create_ctx` 95-97: `open(O_TMPFILE)`; the test `fd < -1` never catches -1 |
| `Write` | one pass of `safe_write`'s loop (77-85): a short write, EINTR/EAGAIN, or a failure that makes `create_ctx` return NULL |
| `CreateCtx` | `safe_write` returns, `lcfs_create_ctx("/proc/self/fd/N")`, `close` (99-112) |
| `Probe` | the probes of 132-146, read-only, each handle freed at once |
| `Root` | root inode, `recursion_left = max_recursion`, root handle, lookup, outer `lcfs_iterate_dir` (148-163) |
| `Visit` | `lcfs_iterate_dir` calls `iter_cb` on the next entry (39-62); it may recurse |
| `Return` | a `lcfs_iterate_dir` is past its last entry; back in `iter_cb`, `recursion_left++` (63-65) |
| `Cleanup` | `lcfs_destroy_ctx`, return 0 (165-168) |

The nested calls `lcfs_iterate_dir → iter_cb → lcfs_iterate_dir` are an explicit call stack, `stack`: one frame per active `lcfs_iterate_dir`, with its directory and the index of its current entry.

An image (`Images`) is what the reader shows of the file, modelled from the spec:
- which inodes are directories;
- each directory's entries in stored order, naming inode indexes, possibly out of range or forming cycles;
- which inodes have an xattr block that fails to list.

The other variables are:
- `visited`: the entry paths `iter_cb` was called on;
- `handles`: the directory handles allocated and not freed, each named by its input and entry path;
- `written`, `interrupts`: `safe_write`'s state.

`Reachable` is the reference: a RECURSIVE definition of the entry paths a walk bounded by `max_recursion` reaches.

### `MountAbstract`, and the refinement

`MountAbstract` is what a mount call promises, without loop devices, directories or fallbacks. Its actions:

- `MountImage(p)`: an overlay of call `p`'s own image appears, once, at most. It has the requested idmap, has verity under REQUIRE_VERITY, and shows the objdirs as visible layers only on a kernel without data-only layers.
- `ReturnResult(p)` and `ReturnError(p)`: the call returns 0 when mounted, an errno when not.
- Weak fairness: every call returns.

`LcfsMount` maps onto it in `AbsMount` and `AbsResult`:
- a call's abstract mount is its `ovl`, showing the image bound now to the loop device under its lower layer, with that EROFS mount's idmap;
- its abstract result is the result it returned, or None while it runs.

`MountSpec == Abs!ASpec` is checked as a PROPERTY. It fails if a step changes a standing overlay, or if a call returns 0 without one. Its mutant, `ErofsFailedUnchecked`, carries on after a failed EROFS mount (line 615). `Holds`, the kernel's rule for what keeps an autoclear device bound (an open fd or a mount), is environment, not code, and has no mutant.

## 4. Runs

| Run | Checks | Shows |
|---|---|---|
| `mount_single` | TypeOK, NoLeakAtReturn, ResultMatchesMount, VerityHonoured, DataOnlyFallback, IdmapHonoured, MountSpec | One call, over all 192 option records × 9 images × every consistent kernel feature set, with transient faults: every path releases what it took, the result matches the mount, and verity, idmap and data-only layers are honoured (163k states). `MountSpec` checks the same as a refinement, with every call returning. |
| `mount_concurrent` | ImageIsolation, NoLeakAtReturn, ResultMatchesMount, MountSpec | Two calls on two loop devices, including both picking the same free device. The loser gets EBUSY and never mounts the winner's image, and nothing leaks. Both calls refine `MountAbstract`: the device under each overlay stays bound to its image for as long as the model runs. |
| `mount_terminates` | Termination | Every call returns on every kernel without faults. Faults are off here because fairness would otherwise force a transient error out of a retry loop. |
| `mount_userdir` (violation) | UserDirPreserved | The caller's `image_mountdir` is removed when the EROFS mount fails (line 616). |
| `mount_shareddir` (violation) | ResultMatchesMount | Two calls given the same `image_mountdir`, without faults. One call's `umount2` detaches the other's EROFS mount (line 627). That call returns 0 while its own EROFS mount stays attached with no overlay over it. |
| `options_comma` | TypeOK, BuffersFit, OptionsRoundTrip | Inputs: paths of 1-2 characters over {a, ','} and 1-2 objdirs. For all of them, the strings fit their buffers and parse back exactly, for "::" and after the retry with ":" (130k states). |
| `options_special` (violation) | OptionsRoundTrip | A path containing `:` or `\` is parsed into other layers. |
| `fuzz_walk` | TypeOK, RecursionBalanced, WalkComplete | All 784 images of two inodes with up to two entries per directory (cycles, self-loops, out-of-range entries, failing xattr lists), inputs of 0-2 bytes, short, interrupted and failing writes. The walk stays within `max_recursion` and gets its full depth back after each subtree. It visits exactly the reference's entry paths (46k states). |
| `fuzz_terminates` | HarnessExits | Every input is finished and `main` returns. Faults are off, so fairness cannot end a stuck loop through an error. |
| `fuzz_leak` (violation) | NoHandleLeak | The root's and `iter_cb`'s directory handles are never freed (lines 155, 59). |

### Bounds

- **Shared directory.** `mount_shareddir` uses the concurrent bounds, both calls with `image_mountdir`, and no faults. The shortest trace interleaves the two calls between one call's EROFS mount and its cleanup.
- **Loop devices.** One loop device is enough for a single call. Two calls with two devices cover every case: both pick the same device, they pick different devices, and none is free.
- **Options, images, kernels.** Each option or image field that the code branches on takes every value it can have. The kernel feature sets are every combination consistent with kernel history: `ovlValidates ⇒ newApi`, `ovlAppend ⇒ ovlValidates ∧ dataLower`, `setattr ⇒ newApi`.
- **Images (harness).** Two inodes give self-loops, two-cycles, an out-of-range entry and a non-directory. Two entries per directory give a directory visited after a deep subtree, which tests the restore of `recursion_left`. `max_recursion` is the code's 4, so walks are five levels deep.
- **Inputs (harness).** Inputs of 0, 1 and 2 bytes, with one EINTR, give the empty input, a single write, and a short write followed by the rest.
- **Paths.** Paths of length 2 hold a comma next to another character or to a separator. Two objdirs exercise the separators between objdirs.

### Fairness

Weak fairness per call: each call is a thread that runs to completion, and every syscall returns. No fairness is assumed between kernel answers. The harness is one thread, so it runs under weak fairness of its next-state relation. `MountAbstract` asks weak fairness of each call's return.

## 5. Findings

1. **Caller's directory removed** (`lcfs-mount.c:616`). When `lcfs_mount_erofs` fails, `rmdir(imagemount)` runs even if `imagemount` is the caller's `image_mountdir`. TLC's trace: a call with `image_mountdir`, on a kernel without the new mount API, whose `mount(2)` fallback fails. Any other failure of `lcfs_mount_erofs` has the same effect, such as ENOTSUP under IDMAP without the new API.
2. **Only commas are escaped** (`lcfs-mount.c:152`). On the legacy path, paths with `:` or `\` produce a different set of layers or directories than the new-API path, which passes paths verbatim. TLC's trace shows the worst case: under REQUIRE_VERITY, an image mount dir and objdir of a single `\` give `lowerdir=\::\,verity=require`. The trailing backslash escapes the comma, so `verity=require` becomes part of the lowerdir value and the legacy mount asks for no verity. Such a path usually does not exist, so the mount most often fails with ENOENT. `VerityHonoured` cannot see this case, because `LcfsMount` takes the legacy string's verity from the flag.
3. **Directory handles leaked by the harness** (`main.c:155`, `main.c:59`). The probe loop frees what `lcfs_get_dir` returns (line 144). The root's handle and every handle `iter_cb` gets are never freed. Every input with a directory root leaks, and the endless honggfuzz loop accumulates the leaks. The spec calls directory handles borrowed views owned by the context. The harness's own free at line 144 shows that in this code the caller owns them.
4. **A shared `image_mountdir` mixes calls** (`lcfs-mount.c:627`). The EROFS mount, the overlay's lowerdir and `umount2(MNT_DETACH)` each name the directory by path, and so reach whatever is mounted on top. When two calls share an `image_mountdir`, one call's cleanup detaches the other's EROFS mount, and one call's overlay can be built on the other's image. The code and the spec are silent on whether `image_mountdir` may be shared. This is a gap in the contract, not a bug in either call alone.

## 6. Not modelled

- **The syscall wrappers.** Only when each one is available is modelled. `NewMountApi` stands for `syscall_fsopen`, `syscall_fsmount`, `syscall_fsconfig` and `syscall_move_mount` (lines 59-116), which fail together with ENOSYS. `MountSetattr` stands for `syscall_mount_setattr` (lines 118-133). Kernel answers are abstracted to OK, the specific errnos the code tests for, and EIO for every other errno.
- **Mount flags with no property.** `readonly`, `volatile`, the noacl option and MS_SILENT are formatting only.
- **`digest_to_raw` and `lcfs_fd_measure_fsverity`.** They are not under `src/`, and the spec does not describe them, so digests are symbolic. The hazard at line 221 depends on the lengths `digest_to_raw` can return: for example, whether an empty digest string gives length 0 and so skips the check. No model of that would come from this repository.
- **The image reader.** It is not under `src/`. Only what the harness's control depends on is modelled, from the spec. Name validation is left out: an entry with an invalid name is skipped, as if it were absent. Binary-search lookup, xattr values and payload paths are left out too: the harness only reads them, and their algorithms are not in the repository, so a model of them would check an invented algorithm.
- **The harness's inputs as bytes.** The 8-byte inode probe and the input used as a lookup name are read-only, and are one step.
- **The writer and the tools.**
- **The xattr blocks `iter_cb` opens.** `lcfs_get_xattrs` (`main.c:47`) is never followed by a free. The spec calls xattr handles borrowed views that the context owns, and the reader's code is not in the repository. So unlike the directory handles, which the harness itself frees at line 144, no leak of them can be argued from this code.
- **What remains unmapped.** Includes, macros, `struct lcfs_mount_state_s` and `struct loop_config`, and the empty `LLVMFuzzerInitialize`. Everything in `src/` that changes state is an action or helper of a module.
