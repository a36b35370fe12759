-------------------------- MODULE MC_FuzzTraversal --------------------------
EXTENDS FuzzTraversal

\* Every image over the inodes with up to MCMaxEntries entries per
\* directory, entries of other inodes empty.
MCMaxEntries == 2

MCImages ==
    {img \in [dirs : SUBSET Inodes,
              entries : [Inodes -> UNION {[1 .. n -> Refs] : n \in 0 .. MCMaxEntries}],
              badXattrs : SUBSET Inodes] :
        \A i \in Inodes \ img.dirs : img.entries[i] = <<>>}
=============================================================================
