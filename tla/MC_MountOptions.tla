-------------------------- MODULE MC_MountOptions --------------------------
(* Instantiation of MountOptions for TLC.                                  *)
EXTENDS MountOptions

\* Paths with commas, the character escape_mount_option handles.
MCCommaChars == {"a", ","}

\* Paths that may also hold a colon or a backslash.
MCAllChars == {"a", ",", ":", "\\"}

=============================================================================
