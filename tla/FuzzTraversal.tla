--------------------------- MODULE FuzzTraversal ---------------------------
(***************************************************************************)
(* The fuzz harness src/fuzzing/main.c: main's loop over inputs,          *)
(* create_ctx and safe_write (the input is written to an O_TMPFILE and    *)
(* opened as an image through /proc/self/fd/N), the inode probes of       *)
(* LLVMFuzzerTestOneInput, and the walk of the image's directory tree by   *)
(* lcfs_iterate_dir and iter_cb, bounded by recursion_left.                *)
(*                                                                         *)
(* The nested calls lcfs_iterate_dir -> iter_cb -> lcfs_iterate_dir are an *)
(* explicit call stack: a frame per active lcfs_iterate_dir, holding the  *)
(* directory inode and the index of the entry being visited.               *)
(*                                                                         *)
(* The reader (kernel/lcfs-reader.h, not under src/) is modelled from the *)
(* spec: an image is a graph of inodes, some of them directories whose    *)
(* ordered entries name inode indexes, possibly out of range and possibly *)
(* forming cycles; an inode's xattr block may fail to list.               *)
(***************************************************************************)
EXTENDS Naturals, Sequences, FiniteSets

CONSTANTS
    NInodes,        \* inodes in an image: indexes 0 .. NInodes-1
    MaxRecursion,   \* max_recursion of LLVMFuzzerTestOneInput
    MaxLen,         \* longest input
    MaxInterrupts,  \* bound on write(2) interrupted by EINTR/EAGAIN per input
    MaxInputs,      \* inputs main takes before the model stops it
    Images,         \* the images lcfs_create_ctx may make of a file
    Faults,         \* whether open(2) and write(2) may fail
    None

Inodes == 0 .. NInodes - 1
\* An entry's inode index; NInodes stands for any index out of range.
Refs == 0 .. NInodes
LCFS_ROOT_INODE == 0

\* The reader's view of an image: the directory inodes, each inode's
\* entries in stored order, and the inodes whose xattr list fails.
ImageType == [dirs : SUBSET Inodes, entries : [Inodes -> Seq(Refs)], badXattrs : SUBSET Inodes]

Frame == [ino : Inodes, cursor : Nat]

VARIABLES
    pc,
    inputs,         \* inputs main has taken
    len,            \* the current input's length
    fd,             \* create_ctx's fd: "ok" or -1 ("fail")
    written,        \* safe_write's written: bytes in the temporary file
    interrupts,     \* EINTR/EAGAIN seen by this safe_write
    ctx,            \* the context lcfs_create_ctx returned, or None
    recursionLeft,  \* test_ctx.recursion_left
    stack,          \* the active lcfs_iterate_dir calls, outermost first
    visited,        \* entry paths iter_cb was called on in this walk
    handles         \* directory handles lcfs_get_dir allocated and not freed,
                    \* each named by its input and the entry path it was got for

vars == <<pc, inputs, len, fd, written, interrupts, ctx, recursionLeft, stack, visited, handles>>

-----------------------------------------------------------------------------
(* The reader, from the spec.                                              *)

\* lcfs_get_ino_index: an index below the inode count.
InoValid(r) == r \in Inodes

\* lcfs_get_xattrs then lcfs_list_xattrs: fails on a bad xattr block.
XattrsListed(img, r) == r \notin img.badXattrs

\* lcfs_get_dir: succeeds on a directory inode, allocating a handle.
IsDir(img, r) == r \in img.dirs

\* lcfs_iterate_dir: after the callback returns, iteration moves to the
\* next entry.
IterateNext(f) == [f EXCEPT !.cursor = @ + 1]

-----------------------------------------------------------------------------
(* The harness.                                                            *)

\* The condition of iter_cb's recursion, with recursion_left >= 0.
DescendAtZero(img, r, left) == IsDir(img, r) /\ left >= 0

\* The condition of iter_cb's recursion, with recursion_left > 1.
DescendOffByOne(img, r, left) == IsDir(img, r) /\ left > 1

\* iter_cb, line 60: recurse into a directory while recursion_left > 0.
Descend(img, r, left) == IsDir(img, r) /\ left > 0

\* safe_write's loop: write until written = count.
WriteLoopDone(w, n) == w = n

\* safe_write's update of written with the count write(2) returned dropped.
WriteDiscarded(n, w) == n

\* safe_write, line 84: written += w.
WriteAdvanced(n, w) == n + w

\* main, lines 176-196: take the next input, or stop after MaxInputs
\* (the honggfuzz loop never stops; FUZZING_RUN_SINGLE stops after argv).
NextInput ==
    /\ pc = "main" /\ inputs < MaxInputs
    /\ inputs' = inputs + 1
    /\ \/ pc' = "main" /\ UNCHANGED len         \* read_file failed: continue
       \/ pc' = "open" /\ len' \in 0 .. MaxLen
    /\ UNCHANGED <<fd, written, interrupts, ctx, recursionLeft, stack, visited, handles>>

Exit ==
    /\ pc = "main" /\ inputs = MaxInputs
    /\ pc' = "exit"
    /\ UNCHANGED <<inputs, len, fd, written, interrupts, ctx, recursionLeft, stack, visited, handles>>

\* create_ctx, lines 95-97: open(O_TMPFILE) returns -1 on failure, so the
\* test fd < -1 never holds and the call goes on to safe_write.
Open ==
    /\ pc = "open"
    /\ fd' \in IF Faults THEN {"ok", "fail"} ELSE {"ok"}
    /\ written' = 0 /\ interrupts' = 0
    /\ pc' = "write"
    /\ UNCHANGED <<inputs, len, ctx, recursionLeft, stack, visited, handles>>

\* One pass of safe_write's loop (lines 77-85): write(2) writes some of
\* the rest, is interrupted and retried, or fails.  On failure create_ctx
\* closes fd and returns NULL, and the input is done (lines 99-101, 129).
Write ==
    /\ pc = "write" /\ ~WriteLoopDone(written, len)
    /\ \/ /\ fd = "ok"
          /\ \E w \in 1 .. (len - written) : written' = WriteAdvanced(written, w)
          /\ UNCHANGED <<pc, interrupts>>
       \/ /\ fd = "ok" /\ interrupts < MaxInterrupts
          /\ interrupts' = interrupts + 1
          /\ UNCHANGED <<pc, written>>
       \/ /\ fd = "fail" \/ Faults
          /\ pc' = "main"
          /\ UNCHANGED <<written, interrupts>>
    /\ UNCHANGED <<inputs, len, fd, ctx, recursionLeft, stack, visited, handles>>

\* safe_write returns written, then lines 104-111: lcfs_create_ctx on
\* /proc/self/fd/N, close(fd).  For fd -1 the path does not exist; an
\* empty file is a truncated image.
CreateCtx ==
    /\ pc = "write" /\ WriteLoopDone(written, len)
    /\ \/ ctx' = None /\ pc' = "main"
       \/ fd = "ok" /\ written > 0 /\ ctx' \in Images /\ pc' = "probe"
    /\ UNCHANGED <<inputs, len, fd, written, interrupts, recursionLeft, stack, visited, handles>>

\* Lines 132-146: lcfs_get_ino_index on the input's first 8 bytes, then
\* on inodes 0..3, each directory handle freed right after lcfs_get_dir.
Probe ==
    /\ pc = "probe"
    /\ pc' = "root"
    /\ UNCHANGED <<inputs, len, fd, written, interrupts, ctx, recursionLeft, stack, visited, handles>>

\* Lines 148-163: the root inode and its directory handle, the lookup of
\* the input as a name (read-only), and the outer lcfs_iterate_dir.  If
\* the root is not a directory the input goes to cleanup.
Root ==
    /\ pc = "root"
    /\ recursionLeft' = MaxRecursion
    /\ IF IsDir(ctx, LCFS_ROOT_INODE)
       THEN /\ handles' = handles \cup {<<inputs, <<>> >>}
            /\ stack' = << [ino |-> LCFS_ROOT_INODE, cursor |-> 1] >>
            /\ visited' = {}
            /\ pc' = "walk"
       ELSE /\ pc' = "cleanup"
            /\ UNCHANGED <<stack, visited, handles>>
    /\ UNCHANGED <<inputs, len, fd, written, interrupts, ctx>>

Top == stack[Len(stack)]
Entries(f) == ctx.entries[f.ino]
\* The entry positions from the root down to the entry being visited.
Path == [i \in 1 .. Len(stack) |-> stack[i].cursor]

\* lcfs_iterate_dir calls iter_cb on the next entry (lines 39-65):
\* get_ino_index fails, or listing the xattrs fails: return true.
\* Otherwise lcfs_get_dir; on a directory with recursion_left > 0,
\* decrement it and enter the nested lcfs_iterate_dir.  The handle
\* lcfs_get_dir returns is not freed.
Visit ==
    /\ pc = "walk"
    /\ Top.cursor <= Len(Entries(Top))
    /\ LET r == Entries(Top)[Top.cursor]
           opened == InoValid(r) /\ XattrsListed(ctx, r) /\ IsDir(ctx, r)
       IN /\ visited' = visited \cup {Path}
          /\ handles' = IF opened THEN handles \cup {<<inputs, Path>>} ELSE handles
          /\ IF InoValid(r) /\ XattrsListed(ctx, r) /\ Descend(ctx, r, recursionLeft)
             THEN /\ recursionLeft' = recursionLeft - 1
                  /\ stack' = Append(stack, [ino |-> r, cursor |-> 1])
             ELSE /\ stack' = [stack EXCEPT ![Len(stack)] = IterateNext(@)]
                  /\ UNCHANGED recursionLeft
    /\ UNCHANGED <<pc, inputs, len, fd, written, interrupts, ctx>>

\* A variant of Return that does not restore recursion_left.
ReturnNoRestore ==
    /\ pc = "walk"
    /\ Top.cursor > Len(Entries(Top))
    /\ IF Len(stack) = 1
       THEN pc' = "cleanup" /\ stack' = <<>> /\ UNCHANGED recursionLeft
       ELSE /\ stack' = LET s == SubSeq(stack, 1, Len(stack) - 1)
                        IN [s EXCEPT ![Len(s)] = IterateNext(@)]
            /\ UNCHANGED <<pc, recursionLeft>>
    /\ UNCHANGED <<inputs, len, fd, written, interrupts, ctx, visited, handles>>

\* lcfs_iterate_dir is past its last entry and returns: to
\* LLVMFuzzerTestOneInput (line 163) for the outer walk, otherwise to
\* iter_cb, which restores recursion_left (line 63) and returns true, so
\* the caller's iteration moves on.
Return ==
    /\ pc = "walk"
    /\ Top.cursor > Len(Entries(Top))
    /\ IF Len(stack) = 1
       THEN pc' = "cleanup" /\ stack' = <<>> /\ UNCHANGED recursionLeft
       ELSE /\ stack' = LET s == SubSeq(stack, 1, Len(stack) - 1)
                        IN [s EXCEPT ![Len(s)] = IterateNext(@)]
            /\ recursionLeft' = recursionLeft + 1
            /\ UNCHANGED pc
    /\ UNCHANGED <<inputs, len, fd, written, interrupts, ctx, visited, handles>>

\* Lines 165-168: lcfs_destroy_ctx and return 0; main takes the next input.
Cleanup ==
    /\ pc = "cleanup"
    /\ ctx' = None /\ pc' = "main"
    /\ UNCHANGED <<inputs, len, fd, written, interrupts, recursionLeft, stack, visited, handles>>

Init ==
    /\ pc = "main" /\ inputs = 0 /\ len = 0
    /\ fd = "ok" /\ written = 0 /\ interrupts = 0
    /\ ctx = None /\ recursionLeft = 0 /\ stack = <<>> /\ visited = {}
    /\ handles = {}

Terminated == pc = "exit" /\ UNCHANGED vars

Next ==
    \/ NextInput \/ Exit \/ Open \/ Write \/ CreateCtx \/ Probe \/ Root
    \/ Visit \/ Return \/ Cleanup \/ Terminated

\* One thread runs the harness; every call it makes returns.
Spec == Init /\ [][Next]_vars /\ WF_vars(Next)

-----------------------------------------------------------------------------
(* The reference: the entry paths a depth-bounded walk of the image       *)
(* reaches.  Every entry of a directory on the walk is visited; the walk  *)
(* goes below an entry that is a directory with a readable xattr block,   *)
(* to at most `left` more directory levels.                               *)

RECURSIVE Reachable(_, _, _, _)
Reachable(img, ino, left, prefix) ==
    UNION { {prefix \o <<i>>}
              \cup (LET r == img.entries[ino][i] IN
                     IF r \in img.dirs \ img.badXattrs /\ left > 0
                     THEN Reachable(img, r, left - 1, prefix \o <<i>>) ELSE {})
            : i \in DOMAIN img.entries[ino] }

-----------------------------------------------------------------------------

TypeOK ==
    /\ pc \in {"main", "open", "write", "probe", "root", "walk", "cleanup", "exit"}
    /\ inputs \in 0 .. MaxInputs /\ len \in 0 .. MaxLen /\ written \in 0 .. len
    /\ fd \in {"ok", "fail"} /\ interrupts \in 0 .. MaxInterrupts
    /\ ctx \in Images \cup {None}
    /\ recursionLeft \in 0 .. MaxRecursion
    /\ stack \in Seq(Frame)
    /\ handles \subseteq (1 .. MaxInputs) \X Seq(Nat)

\* iter_cb decrements recursion_left before each nested lcfs_iterate_dir
\* and increments it after: during a walk the nested calls active plus
\* recursion_left is always max_recursion + 1, so the walk of a cyclic
\* image is at most max_recursion directories deep, and a directory
\* visited after a deep subtree gets the full remaining depth back.
RecursionBalanced ==
    pc = "walk" => recursionLeft + Len(stack) = MaxRecursion + 1

\* When the outer lcfs_iterate_dir of LLVMFuzzerTestOneInput returns,
\* iter_cb has been called on exactly the entry paths within
\* max_recursion directory levels of the root, skipping only what lies
\* below an inode whose xattrs fail to list.
WalkComplete ==
    pc = "cleanup" /\ IsDir(ctx, LCFS_ROOT_INODE) =>
        visited = Reachable(ctx, LCFS_ROOT_INODE, MaxRecursion, <<>>)

\* main's loop gets through every input: each walk ends despite cycles in
\* the image, and safe_write's retry loop ends.
HarnessExits == <>(pc = "exit")

\* Between inputs, no directory handle from lcfs_get_dir is live: the
\* probe loop frees each one (line 144); the root's (line 155) and
\* iter_cb's (line 59) are expected to be freed too.
NoHandleLeak ==
    pc \in {"main", "exit"} => handles = {}

=============================================================================
