------------------------------ MODULE MCFileIO ------------------------------
(***************************************************************************)
(* Small instances of FileIO for TLC.                                      *)
(***************************************************************************)
EXTENDS FileIO

MCKind == [n \in Node |-> CASE n = "t" -> "tmpfs" [] n = "r" -> "initramfs" [] n = "d" -> "dir"
                            [] n = "u" -> "uart" [] OTHER -> "framebuffer"]
MCArchived == <<"x", "y">>
MCBuffers == {<<>>, <<"x", "y">>}
MCOffsets == {-1, 3}
=============================================================================
