---------------------------- MODULE MountOptions ----------------------------
(***************************************************************************)
(* The option string lcfs_mount_ovl_legacy passes to mount(2) for          *)
(* overlayfs (src/libcomposefs/lcfs-mount.c): escape_mount_option,         *)
(* compute_lower and the asprintf of "metacopy=on,redirect_dir=on,         *)
(* lowerdir=...", and the retry that swaps the "::" lowerdir for the ":"  *)
(* one.  Paths are sequences of one-character strings over Chars; the     *)
(* literal parts of the format are single tokens.                         *)
(*                                                                         *)
(* The kernel's side (overlayfs' ovl_next_opt, the lowerdir split and     *)
(* ovl_unescape) is the reference the string is checked against: the      *)
(* mount sees exactly the layers and directories the caller gave.         *)
(***************************************************************************)
EXTENDS Naturals, Sequences, SequencesExt

CONSTANTS
    Chars,       \* characters a path may contain
    MaxLen,      \* longest path
    MaxObjdirs   \* most object directories (options->n_objdirs)

Paths == {s \in SeqOf(Chars, MaxLen) : s # <<>>}

\* The inputs of one legacy overlay mount: image mount dir, objdirs,
\* upperdir and workdir (both or neither, <<>> if absent), REQUIRE_VERITY.
Inputs ==
    {r \in [im : Paths, objdirs : {s \in SeqOf(Paths, MaxObjdirs) : s # <<>>},
            upper : Paths \cup {<<>>}, work : Paths \cup {<<>>}, require : BOOLEAN] :
        (r.upper = <<>>) <=> (r.work = <<>>)}

VARIABLES
    in,              \* the call's inputs
    pc,
    lowerdir1,       \* compute_lower(imagemount, state, true)
    lowerdir2,       \* compute_lower(imagemount, state, false)
    upperdir,        \* escape_mount_option(options->upperdir)
    workdir,         \* escape_mount_option(options->workdir)
    target,          \* lowerdir_target: 1 or 2
    overlayOptions   \* the asprintf result

vars == <<in, pc, lowerdir1, lowerdir2, upperdir, workdir, target, overlayOptions>>

-----------------------------------------------------------------------------
(* The code.                                                               *)

NEscapes(s) == Len(SelectSeq(s, LAMBDA c : c = ","))

\* A variant of the escape that copies the path unchanged.
EscapeVerbatim(s) == s

\* escape_mount_option_to: a backslash before every comma.
EscapeMountOptionTo(s) ==
    FlattenSeq([i \in DOMAIN s |-> IF s[i] = "," THEN <<"\\", ",">> ELSE <<s[i]>>])

\* escape_mount_option's malloc size: strlen + n_escapes + 1.
EscapeAlloc(s) == Len(s) + NEscapes(s) + 1

Sep(withData) == IF withData THEN <<":", ":">> ELSE <<":">>

\* compute_lower: the escaped image mount, then each escaped objdir after
\* "::" (data-only layers) or ":".
ComputeLower(im, objdirs, withData) ==
    EscapeMountOptionTo(im)
      \o FlattenSeq([i \in DOMAIN objdirs |-> Sep(withData) \o EscapeMountOptionTo(objdirs[i])])

\* A variant of the size computation that counts one byte per separator.
LowerAllocOneSep(im, objdirs) ==
    2 * Len(im) + FoldLeft(LAMBDA acc, o : acc + 1 + 2 * Len(o), 0, objdirs) + 1

\* compute_lower's malloc size: 2 * strlen(imagemount), plus 2 + 2 * strlen
\* per objdir, plus the terminator.
LowerAlloc(im, objdirs) ==
    2 * Len(im) + FoldLeft(LAMBDA acc, o : acc + 2 + 2 * Len(o), 0, objdirs) + 1

\* The asprintf format of lcfs_mount_ovl_legacy.
Format(lower, upper, work, require) ==
    <<"metacopy=on", ",", "redirect_dir=on", ",", "lowerdir=">> \o lower
      \o (IF upper # <<>> THEN <<",", "upperdir=">> \o upper ELSE <<>>)
      \o (IF work # <<>> THEN <<",", "workdir=">> \o work ELSE <<>>)
      \o (IF require THEN <<",", "verity=require">> ELSE <<>>)

-----------------------------------------------------------------------------

Init ==
    /\ in \in Inputs
    /\ pc = "compute"
    /\ lowerdir1 = <<>> /\ lowerdir2 = <<>> /\ upperdir = <<>> /\ workdir = <<>>
    /\ target = 1
    /\ overlayOptions = <<>>

\* Lines 311-336: both lowerdir strings and the escaped upperdir/workdir.
Compute ==
    /\ pc = "compute"
    /\ lowerdir1' = ComputeLower(in.im, in.objdirs, TRUE)
    /\ lowerdir2' = ComputeLower(in.im, in.objdirs, FALSE)
    /\ upperdir' = EscapeMountOptionTo(in.upper)
    /\ workdir' = EscapeMountOptionTo(in.work)
    /\ pc' = "format"
    /\ UNCHANGED <<in, target, overlayOptions>>

\* retry: the asprintf with lowerdir_target.
FormatOptions ==
    /\ pc = "format"
    /\ overlayOptions' = Format(IF target = 1 THEN lowerdir1 ELSE lowerdir2,
                                upperdir, workdir, in.require)
    /\ pc' = "mount"
    /\ UNCHANGED <<in, lowerdir1, lowerdir2, upperdir, workdir, target>>

\* A variant that retries without checking which lowerdir was tried.
RetryUnguarded ==
    /\ pc = "mount"
    /\ target' = target + 1
    /\ pc' = "format"
    /\ UNCHANGED <<in, lowerdir1, lowerdir2, upperdir, workdir, overlayOptions>>

\* mount(2) said EINVAL to the "::" lowerdir: try again with ":".
Retry ==
    /\ pc = "mount" /\ target = 1
    /\ target' = 2
    /\ pc' = "format"
    /\ UNCHANGED <<in, lowerdir1, lowerdir2, upperdir, workdir, overlayOptions>>

\* mount(2) gave any other answer: the function returns.
Return ==
    /\ pc = "mount"
    /\ pc' = "done"
    /\ UNCHANGED <<in, lowerdir1, lowerdir2, upperdir, workdir, target, overlayOptions>>

Done == pc = "done" /\ UNCHANGED vars

Next == Compute \/ FormatOptions \/ Retry \/ Return \/ Done

Spec == Init /\ [][Next]_vars

-----------------------------------------------------------------------------
(* The kernel's parser: the reference the string is checked against.      *)

\* Split s at every sep not escaped by a backslash; escapes are kept.  A
\* trailing backslash stays in the last piece (ovl_next_opt, and the split
\* of ovl_parse_param_split_lowerdirs).
RECURSIVE SplitUnescaped(_, _, _, _)
SplitUnescaped(s, sep, cur, acc) ==
    IF s = <<>> THEN Append(acc, cur)
    ELSE IF Head(s) = "\\" /\ Len(s) >= 2
         THEN SplitUnescaped(Tail(Tail(s)), sep, cur \o SubSeq(s, 1, 2), acc)
    ELSE IF Head(s) = sep THEN SplitUnescaped(Tail(s), sep, <<>>, Append(acc, cur))
    ELSE SplitUnescaped(Tail(s), sep, Append(cur, Head(s)), acc)

Split(s, sep) == SplitUnescaped(s, sep, <<>>, <<>>)

\* ovl_unescape: drop each backslash, keep the character after it.
RECURSIVE Unescape(_)
Unescape(s) ==
    IF s = <<>> THEN <<>>
    ELSE IF Head(s) = "\\" THEN SubSeq(s, 2, Min({2, Len(s)})) \o Unescape(SubSeq(s, 3, Len(s)))
    ELSE <<Head(s)>> \o Unescape(Tail(s))

\* The layers the lowerdir names; the empty piece "::" leaves marks the
\* start of the data-only layers.
Layers(lower) == [i \in DOMAIN Split(lower, ":") |-> Unescape(Split(lower, ":")[i])]

ExpectedLayers(r, withData) ==
    <<r.im>> \o FlattenSeq([i \in DOMAIN r.objdirs |->
                              IF withData THEN << <<>>, r.objdirs[i] >> ELSE << r.objdirs[i] >>])

ExpectedOptions(r, withData) ==
    << <<"metacopy=on">>, <<"redirect_dir=on">>, <<"lowerdir=">> >>
      \o (IF r.upper # <<>> THEN << <<"upperdir=">> >> ELSE <<>>)
      \o (IF r.work # <<>> THEN << <<"workdir=">> >> ELSE <<>>)
      \o (IF r.require THEN << <<"verity=require">> >> ELSE <<>>)

\* An option as the kernel splits it: its key token (none if the piece is
\* empty) and its value.
Key(opt) == IF opt = <<>> THEN <<>> ELSE <<Head(opt)>>
Value(opt) == IF opt = <<>> THEN <<>> ELSE Tail(opt)

-----------------------------------------------------------------------------

TypeOK ==
    /\ in \in Inputs
    /\ pc \in {"compute", "format", "mount", "done"}
    /\ target \in {1, 2}
    /\ \A s \in {lowerdir1, lowerdir2, upperdir, workdir, overlayOptions} : s \in Seq(STRING)

\* Every string fits the buffer malloc'd for it: compute_lower's worst-case
\* size (every character a comma, "::" separators) and escape_mount_option's
\* exact size, terminator included.
BuffersFit ==
    pc # "compute" =>
        /\ Len(lowerdir1) + 1 <= LowerAlloc(in.im, in.objdirs)
        /\ Len(lowerdir2) + 1 <= LowerAlloc(in.im, in.objdirs)
        /\ Len(upperdir) + 1 <= EscapeAlloc(in.upper)
        /\ Len(workdir) + 1 <= EscapeAlloc(in.work)

\* What overlayfs parses out of the option string passed to mount(2) is
\* exactly what the caller asked for: the same options in order, the image
\* mount then the objdirs as layers ("::" ones data-only), and the upperdir
\* and workdir unchanged.  Escaping is what makes a path with a comma safe.
OptionsRoundTrip ==
    pc \in {"mount", "done"} =>
        LET opts == Split(overlayOptions, ",")
            withData == target = 1
        IN /\ [i \in DOMAIN opts |-> Key(opts[i])] = ExpectedOptions(in, withData)
           /\ Layers(Value(opts[3])) = ExpectedLayers(in, withData)
           /\ in.upper # <<>> => Unescape(Value(opts[4])) = in.upper
           /\ in.work # <<>> => Unescape(Value(opts[5])) = in.work

=============================================================================
