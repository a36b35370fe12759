--------------------------- MODULE MC_LcfsMount ---------------------------
(* Instantiation of LcfsMount for TLC.                                     *)
EXTENDS LcfsMount

\* Every option combination the model distinguishes.
MCOptions ==
    [api : {"image", "fd"}, valid : BOOLEAN, digest : {"none", "bad", "D1"},
     idmap : BOOLEAN, require : BOOLEAN, try : BOOLEAN, userdir : BOOLEAN]

\* A few options for concurrent calls: valid, no digest, no idmap.
MCOptionsConcurrent ==
    [api : {"fd"}, valid : {TRUE}, digest : {"none"}, idmap : {FALSE},
     require : {FALSE}, try : {FALSE}, userdir : BOOLEAN]

\* Concurrent calls that both pass an image_mountdir.
MCOptionsUserDir ==
    [api : {"fd"}, valid : {TRUE}, digest : {"none"}, idmap : {FALSE},
     require : {FALSE}, try : {FALSE}, userdir : {TRUE}]

MCImages == [header : {"erofs", "short", "badmagic"}, verity : {"none", "D1", "D2"}]

MCImagesConcurrent == [header : {"erofs"}, verity : {"none"}]

\* Kernel feature sets: overlayfs validates new-API keys only if fsopen
\* exists, lowerdir+ (6.7) implies both and data-only layers (6.5), and
\* mount_setattr needs the new API.  fs-verity may be configured out.
MCKernels ==
    {k \in [newApi : BOOLEAN, ovlValidates : BOOLEAN, ovlAppend : BOOLEAN,
            ovlVerity : BOOLEAN, dataLower : BOOLEAN, setattr : BOOLEAN] :
        /\ k.ovlValidates => k.newApi
        /\ k.ovlAppend => k.ovlValidates /\ k.dataLower
        /\ k.setattr => k.newApi}

\* Kernels for concurrent calls: 6.7+ and a pre-6.5 one.
MCKernelsConcurrent ==
    {[newApi |-> TRUE, ovlValidates |-> TRUE, ovlAppend |-> TRUE,
      ovlVerity |-> TRUE, dataLower |-> TRUE, setattr |-> TRUE],
     [newApi |-> FALSE, ovlValidates |-> FALSE, ovlAppend |-> FALSE,
      ovlVerity |-> FALSE, dataLower |-> FALSE, setattr |-> FALSE]}

=============================================================================
