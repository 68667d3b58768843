------------------------------- MODULE MCVfs --------------------------------
(***************************************************************************)
(* Small instances of Vfs for TLC.                                         *)
(***************************************************************************)
EXTENDS Vfs

Symmetry == Permutations(Thread)

MCArchive == <<"f">>
MCLong == {"long"}

\* One thread at a time: absolute and relative names, a file under a
\* directory that gets mounted on, the read-only file system, "..".
MCOpens == {<<<<"a">>, TRUE>>, <<<<"", "a", "b">>, TRUE>>, <<<<"a", "..", "b">>, FALSE>>, <<<<"", "long">>, TRUE>>,
            <<<<"", "initramfs", "f", "x">>, TRUE>>}
MCMkdirs == {<<"", "a">>, <<"b">>, <<"a", "b">>, <<"", "a", "">>, <<"", "dev", "uart">>}
MCMounts == {<<"", "a">>, <<".">>}
MCChdirs == {<<"", "a">>, <<"", "a", "b", "..">>, <<"b">>}
MCFsNames == {"tmpfs", "initramfs", "ext4"}

\* Two threads that create the same name at once.
RaceOpens == {<<<<"", "a">>, TRUE>>}
RaceMkdirs == {<<"", "a">>}
NoPaths == {}
=============================================================================
