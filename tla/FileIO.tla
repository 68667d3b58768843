------------------------------- MODULE FileIO -------------------------------
(***************************************************************************)
(* Reading, writing and seeking through file handles: tmpfs and initramfs  *)
(* files (fs_tmpfs.c, fs_initramfs.c) and the uart and frame buffer        *)
(* devices, below sys_read, sys_write and sys_lseek64.                     *)
(*                                                                         *)
(* A handle is a descriptor of some thread.  data[n] is the buffer of node *)
(* n, of which the first size[n] bytes are the file; the length of the     *)
(* buffer is the node's capacity.  A size_t is a number below 2 * LONG,    *)
(* and its sums wrap; a long lies between -LONG and LONG - 1.              *)
(*                                                                         *)
(* A read whose position and count add up to more than a size_t holds      *)
(* escapes the test for the end of the file, and its memcpy never comes to *)
(* an end that the memory has: the model stops there (overrun).            *)
(*                                                                         *)
(* The steps of tmpfs_write are the test, each doubling of the capacity,   *)
(* the move to the new buffer and the copy of the bytes.  Other threads    *)
(* make calls before and after it, and for ever after if the doubling      *)
(* never ends.                                                             *)
(***************************************************************************)
EXTENDS Integers, Sequences

CONSTANTS Handle,           \* descriptors, as numbers
          THREAD_MAX_FD,
          Node,
          Kind,             \* [Node -> {"tmpfs", "dir", "initramfs", "uart", "framebuffer"}]
          Archived,         \* the bytes of the initramfs files
          Buffers,          \* what programs write
          Lengths,          \* how much they read, as size_t
          Offsets,          \* where they seek
          Byte,             \* what files hold
          JUNK,             \* what uninitialised memory holds
          DEFAULT_FILE_SIZE,
          MAX_ALLOC,        \* alloc fails above it
          LONG

VARIABLES vnode,            \* file->vnode, or NULL for a closed handle
          f_pos, data, size,
          pc, buf, new_capacity,    \* of the write each handle is in
          ans,              \* the last answer: handle, call, x0, bytes
          overrun           \* handle and count of a read that left its buffer, or <<>>

locals == <<pc, buf, new_capacity>>
vars == <<vnode, f_pos, data, size, locals, ans, overrun>>

NULL == "NULL"
EINVAL == -4
EACCES == -6
ENOMEM == -3
SIZE_T == 2 * LONG
SEEK == {"SET", "CUR", "END", "other"}

ASSUME FileIOAssumption ==
    /\ NULL \notin Node /\ Handle \subseteq Nat
    /\ Kind \in [Node -> {"tmpfs", "dir", "initramfs", "uart", "framebuffer"}]
    /\ JUNK \in Byte /\ Archived \in Seq(Byte) /\ Buffers \subseteq Seq(Byte)
    /\ Lengths \subseteq 0 .. SIZE_T - 1 /\ Offsets \subseteq -LONG .. LONG - 1
    /\ LONG \in Nat \ {0} /\ DEFAULT_FILE_SIZE \in Nat \ {0} /\ MAX_ALLOC \in Nat
    \* What memory holds, and an unsigned int, is far below a long.
    /\ DEFAULT_FILE_SIZE < LONG /\ MAX_ALLOC < LONG /\ Len(Archived) < LONG
    /\ \A b \in Buffers : Len(b) < LONG

Reply(h, op, x0, bytes) == [h |-> h, op |-> op, x0 |-> x0, bytes |-> bytes]
ToLong(x) == ((x + LONG) % SIZE_T) - LONG
Sum(x, y) == (x + y) % SIZE_T

\* A call on handle h may take a step: the others are in none, or are in the
\* doubling loop for good, which is preempted like any other code.
Runs(h) ==
    /\ overrun = <<>>
    /\ \A g \in Handle \ {h} : pc[g] = "idle" \/ (pc[g] = "double" /\ new_capacity[g] = 0)

\* The handle is open and its thread in no call.
Ready(h) == Runs(h) /\ pc[h] = "idle" /\ vnode[h] # NULL
KindOf(h) == Kind[vnode[h]]

----------------------------------------------------------------------------
(* Open and close.                                                         *)

\* tmpfs_open; initramfs_open and the devices' set the same fields.
tmpfs_open(h, n) == vnode' = [vnode EXCEPT ![h] = n] /\ f_pos' = [f_pos EXCEPT ![h] = 0]
tmpfs_close(h) == vnode' = [vnode EXCEPT ![h] = NULL] /\ f_pos' = [f_pos EXCEPT ![h] = 0]

Open(h, n) ==
    /\ Runs(h) /\ pc[h] = "idle" /\ vnode[h] = NULL /\ h < THREAD_MAX_FD
    /\ tmpfs_open(h, n)
    /\ UNCHANGED <<data, size, locals, ans, overrun>>

Close(h) ==
    /\ Ready(h) /\ tmpfs_close(h)
    /\ UNCHANGED <<data, size, locals, ans, overrun>>

\* The first test of sys_read, sys_write and sys_lseek64.
BadFd(h) ==
    /\ h >= THREAD_MAX_FD /\ Runs(h)
    /\ \E op \in {"read", "write", "seek"} : ans' = Reply(h, op, -1, <<>>)
    /\ UNCHANGED <<vnode, f_pos, data, size, locals, overrun>>

----------------------------------------------------------------------------
(* sys_write.                                                              *)

\* The write ends: the answer, and the locals of tmpfs_write are gone.
EndWrite(h, x0, b) ==
    /\ ans' = Reply(h, "write", x0, b)
    /\ pc' = [pc EXCEPT ![h] = "idle"]
    /\ buf' = [buf EXCEPT ![h] = <<>>]
    /\ new_capacity' = [new_capacity EXCEPT ![h] = 0]

\* initramfs_write: a read-only file system.
initramfs_write(h) == EndWrite(h, EACCES, <<>>) /\ UNCHANGED f_pos

\* dev_uart_write: the bytes leave the kernel.
dev_uart_write(h, b) == EndWrite(h, Len(b), b) /\ f_pos' = [f_pos EXCEPT ![h] = @ + Len(b)]

\* dev_framebuffer_write: the bytes go to the screen, at the position.
dev_framebuffer_write(h, b) == EndWrite(h, Len(b), b) /\ f_pos' = [f_pos EXCEPT ![h] = @ + Len(b)]

\* Mutant: the position is forgotten in the test for room.
tmpfs_write_at_start(h, b) ==
    LET capacity == Len(data[vnode[h]])
    IN  /\ buf' = [buf EXCEPT ![h] = b]
        /\ pc' = [pc EXCEPT ![h] = IF Len(b) > capacity THEN "double" ELSE "copy"]
        /\ new_capacity' = [new_capacity EXCEPT ![h] = capacity]
        /\ UNCHANGED <<f_pos, ans>>

\* tmpfs_write up to the doubling loop.
tmpfs_write(h, b) ==
    LET capacity == Len(data[vnode[h]])
    IN  /\ buf' = [buf EXCEPT ![h] = b]
        /\ pc' = [pc EXCEPT ![h] = IF Sum(f_pos[h], Len(b)) > capacity THEN "double" ELSE "copy"]
        /\ new_capacity' = [new_capacity EXCEPT ![h] = IF capacity > 0 THEN capacity ELSE DEFAULT_FILE_SIZE]
        /\ UNCHANGED <<f_pos, ans>>

sys_write(h, b) ==
    /\ Ready(h)
    /\ \/ b = <<>> /\ EndWrite(h, -1, b) /\ UNCHANGED f_pos
       \/ b # <<>> /\ KindOf(h) = "initramfs" /\ initramfs_write(h)
       \/ b # <<>> /\ KindOf(h) = "dir" /\ EndWrite(h, EACCES, <<>>) /\ UNCHANGED f_pos
       \/ b # <<>> /\ KindOf(h) = "tmpfs" /\ tmpfs_write(h, b)
       \/ b # <<>> /\ KindOf(h) = "uart" /\ f_pos[h] + Len(b) < LONG /\ dev_uart_write(h, b)
       \/ b # <<>> /\ KindOf(h) = "framebuffer" /\ f_pos[h] + Len(b) < LONG /\ dev_framebuffer_write(h, b)
    /\ UNCHANGED <<vnode, data, size, overrun>>

\* The loop, and the allocation after it.
WriteDouble(h) ==
    /\ Runs(h) /\ pc[h] = "double"
    /\ \/ /\ new_capacity[h] < Sum(f_pos[h], Len(buf[h]))
          /\ new_capacity' = [new_capacity EXCEPT ![h] = (@ * 2) % SIZE_T]
          /\ UNCHANGED <<pc, buf, ans>>
       \/ LET capacity == Len(data[vnode[h]])
          IN  /\ new_capacity[h] >= Sum(f_pos[h], Len(buf[h]))
              /\ IF new_capacity[h] > capacity /\ new_capacity[h] > MAX_ALLOC
                 THEN EndWrite(h, ENOMEM, <<>>)
                 ELSE /\ pc' = [pc EXCEPT ![h] = IF new_capacity[h] > capacity THEN "grow" ELSE "copy"]
                      /\ UNCHANGED <<buf, new_capacity, ans>>
    /\ UNCHANGED <<vnode, f_pos, data, size, overrun>>

\* Mutant: the new buffer does not get the old bytes.
NoMove(old, n, cap) == [i \in 1 .. cap |-> JUNK]

\* memcpy of the first n bytes into a new buffer.
Move(old, n, cap) == [i \in 1 .. cap |-> IF i <= n THEN old[i] ELSE JUNK]

WriteGrow(h) ==
    /\ Runs(h) /\ pc[h] = "grow"
    /\ data' = [data EXCEPT ![vnode[h]] = Move(@, size[vnode[h]], new_capacity[h])]
    /\ pc' = [pc EXCEPT ![h] = "copy"]
    /\ UNCHANGED <<vnode, f_pos, size, buf, new_capacity, ans, overrun>>

\* The copy.  Bytes past the end of the buffer go elsewhere.
WriteCopy(h) ==
    LET n == vnode[h] b == buf[h] p == f_pos[h]
    IN  /\ Runs(h) /\ pc[h] = "copy"
        /\ data' = [data EXCEPT ![n] = [i \in DOMAIN @ |-> IF i \in p + 1 .. p + Len(b) THEN b[i - p] ELSE @[i]]]
        /\ f_pos' = [f_pos EXCEPT ![h] = p + Len(b)]
        /\ size' = [size EXCEPT ![n] = IF p + Len(b) > @ THEN p + Len(b) ELSE @]
        /\ EndWrite(h, Len(b), b)
        /\ UNCHANGED <<vnode, overrun>>

----------------------------------------------------------------------------
(* sys_read.  An operation gives the answers it may return.                *)

Got(x0, bytes) == {[x0 |-> x0, bytes |-> bytes]}

\* Mutant: without the test for the end.
readable_whole(h, len) == len

\* "readable_len": cut at the end of the file, if the sum does not wrap.
readable_len(h, len) ==
    IF Sum(f_pos[h], len) > size[vnode[h]] THEN size[vnode[h]] - f_pos[h] ELSE len

tmpfs_read(h, len) ==
    LET n == vnode[h] p == f_pos[h]
    IN  CASE len = 0 -> Got(0, <<>>)
          [] len # 0 /\ Kind[n] = "dir" -> Got(EACCES, <<>>)
          [] len # 0 /\ Kind[n] # "dir" /\ p >= size[n] -> Got(0, <<>>)
          [] OTHER -> Got(readable_len(h, len), SubSeq(data[n], p + 1, p + readable_len(h, len)))

\* The same code, over the archive.
initramfs_read(h, len) == tmpfs_read(h, len)

\* dev_uart_read gives up at a NUL character.
dev_uart_read(h, len) ==
    IF len = 0 THEN Got(EINVAL, <<>>) ELSE UNION {Got(n, [i \in 1 .. n |-> JUNK]) : n \in 0 .. len}

\* The memcpy of a read goes past the bytes of the file.
Leaves(h, len) ==
    /\ KindOf(h) \in {"tmpfs", "initramfs"} /\ len # 0 /\ f_pos[h] < size[vnode[h]]
    /\ f_pos[h] + readable_len(h, len) > size[vnode[h]]

sys_read(h, len) ==
    /\ Ready(h) /\ ~ Leaves(h, len) /\ (KindOf(h) = "uart" => f_pos[h] + len < LONG)
    /\ \E r \in CASE KindOf(h) \in {"tmpfs", "dir"} -> tmpfs_read(h, len)
                  [] KindOf(h) = "initramfs" -> initramfs_read(h, len)
                  [] KindOf(h) = "uart" -> dev_uart_read(h, len)
                  [] OTHER -> Got(-1, <<>>) :
          /\ ans' = Reply(h, "read", r.x0, r.bytes)
          /\ f_pos' = [f_pos EXCEPT ![h] = @ + Len(r.bytes)]
    /\ UNCHANGED <<vnode, data, size, locals, overrun>>

\* A read that leaves its buffer does not come back.
ReadRunsAway(h, len) ==
    /\ Ready(h) /\ Leaves(h, len)
    /\ overrun' = <<h, len>>
    /\ UNCHANGED <<vnode, f_pos, data, size, locals, ans>>

Halted == overrun # <<>> /\ UNCHANGED vars

----------------------------------------------------------------------------
(* sys_lseek64.                                                            *)

\* What an lseek64 returns: the new position, or an error.
tmpfs_lseek64(h, off, whence) ==
    LET new_pos == CASE whence = "SET" -> off
                     [] whence = "CUR" -> ToLong(f_pos[h] + off)
                     [] whence = "END" -> ToLong(size[vnode[h]] + off)
                     [] OTHER -> EINVAL
    IN  IF KindOf(h) = "dir" \/ new_pos < 0 THEN EINVAL ELSE new_pos

initramfs_lseek64(h, off, whence) == tmpfs_lseek64(h, off, whence)

\* A device has no end.
dev_uart_lseek64(h, off, whence) ==
    LET new_pos == CASE whence = "SET" -> off
                     [] whence = "CUR" -> ToLong(f_pos[h] + off)
                     [] whence = "END" -> f_pos[h]
                     [] OTHER -> EINVAL
    IN  IF new_pos < 0 THEN EINVAL ELSE new_pos

dev_framebuffer_lseek64(h, off, whence) == dev_uart_lseek64(h, off, whence)

vfs_lseek64(h, off, whence) ==
    CASE KindOf(h) \in {"tmpfs", "dir"} -> tmpfs_lseek64(h, off, whence)
      [] KindOf(h) = "initramfs" -> initramfs_lseek64(h, off, whence)
      [] KindOf(h) = "uart" -> dev_uart_lseek64(h, off, whence)
      [] OTHER -> dev_framebuffer_lseek64(h, off, whence)

\* vfs_lseek64's result is dropped: x0 still holds the descriptor.
sys_lseek64(h, off, whence) ==
    /\ Ready(h)
    /\ LET pos == vfs_lseek64(h, off, whence)
       IN  f_pos' = IF pos < 0 THEN f_pos ELSE [f_pos EXCEPT ![h] = pos]
    /\ ans' = Reply(h, "seek", h, <<>>)
    /\ UNCHANGED <<vnode, data, size, locals, overrun>>

----------------------------------------------------------------------------
Init ==
    /\ vnode = [h \in Handle |-> NULL]
    /\ f_pos = [h \in Handle |-> 0]
    /\ data = [n \in Node |-> CASE Kind[n] = "tmpfs" -> [i \in 1 .. DEFAULT_FILE_SIZE |-> JUNK]
                                [] Kind[n] = "initramfs" -> Archived
                                [] OTHER -> <<>>]
    /\ size = [n \in Node |-> IF Kind[n] = "initramfs" THEN Len(Archived) ELSE 0]
    /\ pc = [h \in Handle |-> "idle"]
    /\ buf = [h \in Handle |-> <<>>]
    /\ new_capacity = [h \in Handle |-> 0]
    /\ ans = Reply(0, "", 0, <<>>)
    /\ overrun = <<>>

Inside(h) == WriteDouble(h) \/ WriteGrow(h) \/ WriteCopy(h)

Next ==
    \/ Halted
    \/ \E h \in Handle :
          \/ \E n \in Node : Open(h, n)
          \/ Close(h) \/ BadFd(h) \/ Inside(h)
          \/ \E b \in Buffers : sys_write(h, b)
          \/ \E len \in Lengths : sys_read(h, len) \/ ReadRunsAway(h, len)
          \/ \E off \in Offsets, whence \in SEEK : sys_lseek64(h, off, whence)

Spec == Init /\ [][Next]_vars

----------------------------------------------------------------------------
(* Properties.                                                             *)

\* A file fits the buffer that its node's capacity describes ("Allocated
\* buffer capacity for data", fs_tmpfs.h), so a read leaves the buffer only if its
\* position and its count together are more than a size_t holds.
SizeFits ==
    /\ \A n \in Node : size[n] <= Len(data[n])
    /\ overrun # <<>> => f_pos[overrun[1]] + overrun[2] >= SIZE_T

FileNode == {n \in Node : Kind[n] \in {"tmpfs", "initramfs"}}
Abstract == INSTANCE ByteFile WITH
    File <- FileNode, Writable <- {n \in Node : Kind[n] = "tmpfs"}, on <- vnode, pos <- f_pos,
    content <- [n \in FileNode |-> SubSeq(data[n], 1, size[n])]

\* Through all growing, seeking past the end and sharing between handles, the
\* files are what ByteFile promises: a write changes its own bytes and no
\* others, and a read returns what was written last (or never returns, overrun).
ImplementsByteFile == Abstract!ASpec
=============================================================================
