---------------------------- MODULE FileIOProofs ----------------------------
(***************************************************************************)
(* Files fit their buffers and implement ByteFile, for every set of        *)
(* handles, files and buffers, every count of a read and every size of the *)
(* machine's integers.                                                     *)
(***************************************************************************)
EXTENDS FileIO, SequenceTheorems, TLAPS

FileTypes ==
    /\ vnode \in [Handle -> Node \union {NULL}] /\ f_pos \in [Handle -> Nat]
    /\ data \in [Node -> Seq(Byte)] /\ size \in [Node -> Nat]
    /\ pc \in [Handle -> {"idle", "double", "grow", "copy"}]
    /\ buf \in [Handle -> Seq(Byte)] /\ new_capacity \in [Handle -> Nat]

\* Positions and buffers are below LONG, so that a position and a buffer add up
\* without a wrap.
Below ==
    /\ \A n \in Node : Len(data[n]) < LONG
    /\ \A h \in Handle : f_pos[h] < LONG

\* What a write knows in each of its steps: it writes something to a tmpfs file;
\* before the move the new buffer is larger than the old one and has room; before
\* the copy the buffer has room.
WriteInv(h) ==
    LET capacity == Len(data[vnode[h]])
        end == f_pos[h] + Len(buf[h])
    IN  /\ pc[h] # "idle" => vnode[h] \in Node /\ Kind[vnode[h]] = "tmpfs" /\ buf[h] # <<>> /\ Len(buf[h]) < LONG
        /\ pc[h] = "grow" => new_capacity[h] > capacity /\ new_capacity[h] >= end /\ new_capacity[h] < LONG
        /\ pc[h] = "copy" => capacity >= end

FileInv == FileTypes /\ SizeFits /\ Below /\ \A h \in Handle : WriteInv(h)

----------------------------------------------------------------------------
(* Sums of a size_t.                                                       *)

\* What is below LONG adds up without a wrap.
LEMMA NoWrap == ASSUME NEW p \in Nat, NEW k \in Nat, p < LONG, k < LONG PROVE Sum(p, k) = p + k
<1>1. LONG \in Nat \ {0}
  BY FileIOAssumption
<1> QED
  BY <1>1 DEF Sum, SIZE_T

\* Any sum is a number, and is the true one unless that is more than a size_t.
LEMMA SumWraps ==
    ASSUME NEW p \in Nat, NEW k \in Nat
    PROVE  Sum(p, k) \in Nat /\ (p + k < SIZE_T => Sum(p, k) = p + k)
<1>1. SIZE_T \in Nat \ {0}
  BY FileIOAssumption DEF SIZE_T
<1> QED
  BY <1>1 DEF Sum

\* What an lseek64 computes in a long is a long.
LEMMA LongRange == ASSUME NEW x \in Int PROVE ToLong(x) \in Int /\ ToLong(x) < LONG
<1>1. LONG \in Nat \ {0}
  BY FileIOAssumption
<1> QED
  BY <1>1 DEF ToLong, SIZE_T

----------------------------------------------------------------------------
(* Buffers.                                                                *)

\* The bytes of a file are those of its buffer.
LEMMA Prefix ==
    ASSUME NEW d \in Seq(Byte), NEW k \in 0 .. Len(d)
    PROVE  /\ SubSeq(d, 1, k) \in Seq(Byte) /\ Len(SubSeq(d, 1, k)) = k
           /\ \A i \in 1 .. k : SubSeq(d, 1, k)[i] = d[i]
  BY SubSeqProperties, ElementOfSeq

\* The move to a larger buffer keeps the file's bytes.
LEMMA MoveKeeps ==
    ASSUME NEW d \in Seq(Byte), NEW n \in 0 .. Len(d), NEW cap \in Nat, n <= cap
    PROVE  LET e == Move(d, n, cap)
           IN  e \in Seq(Byte) /\ Len(e) = cap /\ SubSeq(e, 1, n) = SubSeq(d, 1, n)
<1> DEFINE e == Move(d, n, cap)
<1>1. e \in Seq(Byte) /\ Len(e) = cap /\ \A i \in 1 .. n : e[i] = d[i]
  <2>1. e \in [1 .. cap -> Byte]
    BY ElementOfSeq, FileIOAssumption DEF Move
  <2>2. \A i \in 1 .. n : e[i] = d[i]
    BY DEF Move
  <2> HIDE DEF e
  <2> QED
    BY <2>1, <2>2
<1> HIDE DEF e
<1>2. SubSeq(e, 1, n) = SubSeq(d, 1, n)
  BY <1>1, Prefix, SeqEqual
<1> QED
  BY <1>1, <1>2 DEF e

\* The buffer after the copy of b to position p.
Copied(d, b, p) == [i \in DOMAIN d |-> IF i \in p + 1 .. p + Len(b) THEN b[i - p] ELSE d[i]]

\* The copy into a buffer with room changes the bytes it writes and no others.
LEMMA CopyBytes ==
    ASSUME NEW d \in Seq(Byte), NEW b \in Seq(Byte), NEW p \in Nat, p + Len(b) <= Len(d)
    PROVE  LET e == Copied(d, b, p)
           IN  /\ e \in Seq(Byte) /\ Len(e) = Len(d)
               /\ \A i \in 1 .. Len(d) : i <= p \/ i > p + Len(b) => e[i] = d[i]
               /\ \A i \in p + 1 .. p + Len(b) : e[i] = b[i - p]
<1> DEFINE e == Copied(d, b, p)
<1>0. d \in [1 .. Len(d) -> Byte] /\ b \in [1 .. Len(b) -> Byte] /\ Len(d) \in Nat /\ Len(b) \in Nat
  OBVIOUS
<1>1. e \in [1 .. Len(d) -> Byte]
  <2>1. DOMAIN d = 1 .. Len(d)
    OBVIOUS
  <2>2. ASSUME NEW i \in 1 .. Len(d), i \in p + 1 .. p + Len(b) PROVE b[i - p] \in Byte
    <3>1. i - p \in 1 .. Len(b)
      BY <2>2, <1>0
    <3> QED
      BY <3>1, <1>0
  <2> QED
    BY <2>1, <2>2, <1>0 DEF Copied
<1>2. \A i \in 1 .. Len(d) : e[i] = IF i \in p + 1 .. p + Len(b) THEN b[i - p] ELSE d[i]
  BY DEF Copied
<1> HIDE DEF e
<1>3. e \in Seq(Byte) /\ Len(e) = Len(d)
  BY <1>0, <1>1
<1>4. \A i \in 1 .. Len(d) : i <= p \/ i > p + Len(b) => e[i] = d[i]
  BY <1>0, <1>2
<1>5. \A i \in p + 1 .. p + Len(b) : e[i] = b[i - p]
  BY <1>0, <1>2
<1> QED
  BY <1>3, <1>4, <1>5 DEF e

----------------------------------------------------------------------------
(* The invariant.                                                          *)

\* Steps of one call leave the writes of the other handles alone: those are not
\* between two steps that look at a buffer.
LEMMA OthersKeep ==
    ASSUME FileInv, FileTypes', NEW h \in Handle, Runs(h), NEW g \in Handle, g # h,
           UNCHANGED <<vnode[g], pc[g], buf[g]>>
    PROVE  WriteInv(g)'
  BY DEF FileInv, Runs, WriteInv

\* The invariant holds when nothing is open and every file is fresh.
LEMMA FileInit == Init => FileInv
<1> SUFFICES ASSUME Init PROVE FileInv
  OBVIOUS
<1> DEFINE fresh == [i \in 1 .. DEFAULT_FILE_SIZE |-> JUNK]
<1>1. fresh \in Seq(Byte) /\ Len(fresh) < LONG
  <2>1. DEFAULT_FILE_SIZE \in Nat /\ DEFAULT_FILE_SIZE < LONG /\ JUNK \in Byte
    BY FileIOAssumption
  <2> QED
    BY <2>1
<1>2. Archived \in Seq(Byte) /\ Len(Archived) < LONG /\ LONG > 0
  BY FileIOAssumption
<1> HIDE DEF fresh
<1>3. ASSUME NEW n \in Node
      PROVE  /\ data[n] \in Seq(Byte) /\ size[n] \in Nat /\ size[n] <= Len(data[n])
             /\ Len(data[n]) < LONG
  <2>1. data[n] = CASE Kind[n] = "tmpfs" -> fresh [] Kind[n] = "initramfs" -> Archived [] OTHER -> <<>>
    BY DEF Init, fresh
  <2>2. size[n] = IF Kind[n] = "initramfs" THEN Len(Archived) ELSE 0
    BY DEF Init
  <2>3. CASE Kind[n] = "tmpfs"
    BY <2>1, <2>2, <2>3, <1>1
  <2>4. CASE Kind[n] = "initramfs"
    BY <2>1, <2>2, <2>4, <1>2
  <2>5. CASE Kind[n] \notin {"tmpfs", "initramfs"}
    BY <2>1, <2>2, <2>5, <1>2
  <2> QED
    BY <2>3, <2>4, <2>5
<1>5. data = [n \in Node |-> data[n]] /\ size = [n \in Node |-> size[n]]
  BY DEF Init
<1>6. data \in [Node -> Seq(Byte)] /\ size \in [Node -> Nat]
  BY <1>3, <1>5
<1>7. FileTypes
  <2>1. vnode \in [Handle -> Node \union {NULL}] /\ f_pos \in [Handle -> Nat]
    BY DEF Init
  <2>2. pc \in [Handle -> {"idle", "double", "grow", "copy"}] /\ new_capacity \in [Handle -> Nat]
    BY DEF Init
  <2>3. buf \in [Handle -> Seq(Byte)]
    <3>1. buf = [h \in Handle |-> <<>>]
      BY DEF Init
    <3>2. <<>> \in Seq(Byte)
      OBVIOUS
    <3> QED
      BY <3>1, <3>2
  <2> QED
    BY <1>6, <2>1, <2>2, <2>3 DEF FileTypes
<1>8. Below
  BY <1>2, <1>3 DEF Below, Init
<1> QED
  BY <1>3, <1>7, <1>8 DEF FileInv, SizeFits, WriteInv, Init

\* Open, close and the refusals keep the invariant, and so does a seek or a read:
\* no file changes and no call is under way on the handle.
LEMMA CallInv ==
    ASSUME FileInv, NEW h \in Handle, Runs(h), pc[h] = "idle",
           vnode' \in [Handle -> Node \union {NULL}], f_pos' \in [Handle -> Nat],
           \A g \in Handle : f_pos'[g] < LONG,
           \A g \in Handle \ {h} : vnode'[g] = vnode[g],
           UNCHANGED <<data, size, pc, buf, new_capacity, overrun>>
    PROVE  FileInv'
<1>1. FileTypes' /\ SizeFits' /\ Below'
  BY DEF FileInv, FileTypes, SizeFits, Below, Runs
<1>2. WriteInv(h)'
  BY DEF WriteInv
<1>3. ASSUME NEW g \in Handle \ {h} PROVE WriteInv(g)'
  BY <1>1, OthersKeep
<1> QED
  BY <1>1, <1>2, <1>3 DEF FileInv

\* Open changes no file.
LEMMA OpenInv == ASSUME FileInv, NEW h \in Handle, NEW n \in Node, Open(h, n) PROVE FileInv'
<1>1. 0 < LONG
  BY FileIOAssumption
<1> QED
  BY <1>1, CallInv DEF Open, tmpfs_open, locals, FileInv, FileTypes, Below

\* Close changes no file.
LEMMA CloseInv == ASSUME FileInv, NEW h \in Handle, Close(h) PROVE FileInv'
<1>1. 0 < LONG
  BY FileIOAssumption
<1> QED
  BY <1>1, CallInv DEF Close, Ready, tmpfs_close, locals, FileInv, FileTypes, Below

\* A bad descriptor changes nothing.
LEMMA BadFdInv == ASSUME FileInv, NEW h \in Handle, BadFd(h) PROVE FileInv'
<1>1. FileTypes' /\ SizeFits' /\ Below'
  BY DEF BadFd, locals, FileInv, FileTypes, SizeFits, Below
<1> QED
  BY <1>1 DEF BadFd, locals, FileInv, WriteInv

\* A read that does not leave the buffer ends in the file.
LEMMA ReadLength ==
    ASSUME FileInv, NEW h \in Handle, Ready(h), KindOf(h) \in {"tmpfs", "initramfs"}, NEW len \in Nat,
           len # 0, f_pos[h] < size[vnode[h]], ~ Leaves(h, len)
    PROVE  readable_len(h, len) \in Nat /\ f_pos[h] + readable_len(h, len) <= size[vnode[h]]
<1>1. vnode[h] \in Node /\ f_pos[h] \in Nat /\ size[vnode[h]] \in Nat
  BY DEF FileInv, FileTypes, Ready
<1>2. readable_len(h, len) \in Nat
  BY <1>1 DEF readable_len
<1> QED
  BY <1>1, <1>2 DEF Leaves

\* What a read returns is a number of bytes, and it ends below LONG.
LEMMA ReadBytes ==
    ASSUME FileInv, NEW h \in Handle, Ready(h), KindOf(h) \in {"tmpfs", "dir", "initramfs"}, NEW len \in Nat,
           ~ Leaves(h, len), NEW r \in tmpfs_read(h, len)
    PROVE  Len(r.bytes) \in Nat /\ f_pos[h] + Len(r.bytes) < LONG
<1> USE DEF tmpfs_read, Got
<1> DEFINE n == vnode[h] p == f_pos[h] rl == readable_len(h, len)
<1>1. /\ n \in Node /\ p \in Nat /\ size[n] \in Nat /\ data[n] \in Seq(Byte) /\ size[n] <= Len(data[n])
      /\ LONG \in Nat /\ p < LONG /\ Len(data[n]) < LONG
  BY FileIOAssumption DEF FileInv, FileTypes, SizeFits, Below, Ready
<1>2. CASE len # 0 /\ Kind[n] # "dir" /\ p < size[n]
  <2>1. rl \in Nat /\ p + rl <= size[n] /\ r.bytes = SubSeq(data[n], p + 1, p + rl)
    <3>1. KindOf(h) \in {"tmpfs", "initramfs"}
      BY <1>2 DEF KindOf
    <3>2. rl \in Nat /\ p + rl <= size[n]
      BY <1>2, <3>1, ReadLength
    <3>3. ~ (p >= size[n])
      BY <1>1, <1>2
    <3> HIDE DEF rl
    <3> QED
      BY <1>2, <3>2, <3>3 DEF rl
  <2>2. SubSeq(data[n], p + 1, p + rl) \in Seq(Byte) /\ Len(SubSeq(data[n], p + 1, p + rl)) = rl
    <3>1. \A i \in p + 1 .. p + rl : data[n][i] \in Byte
      <4> SUFFICES ASSUME NEW i \in p + 1 .. p + rl PROVE data[n][i] \in Byte
        OBVIOUS
      <4>1. i \in 1 .. Len(data[n])
        <5> HIDE DEF p, rl, n
        <5>1. p + rl <= Len(data[n]) /\ Len(data[n]) \in Nat
          BY <1>1, <2>1
        <5>2. p \in Nat /\ rl \in Nat /\ i \in p + 1 .. p + rl
          BY <1>1, <2>1
        <5> QED
          BY <5>1, <5>2
      <4> QED
        BY <4>1, <1>1, ElementOfSeq
    <3> HIDE DEF n, p, rl
    <3>2. /\ SubSeq(data[n], p + 1, p + rl) \in Seq(Byte)
          /\ Len(SubSeq(data[n], p + 1, p + rl)) = IF p + 1 <= p + rl THEN (p + rl) - (p + 1) + 1 ELSE 0
      BY <3>1, <2>1, <1>1, SubSeqProperties
    <3>3. (IF p + 1 <= p + rl THEN (p + rl) - (p + 1) + 1 ELSE 0) = rl
      BY <2>1, <1>1
    <3> QED
      BY <3>2, <3>3
  <2>3. Len(r.bytes) = rl
    BY <2>1, <2>2
  <2>4. size[n] < LONG
    <3>1. Len(data[n]) \in Nat
      BY <1>1
    <3> QED
      BY <1>1, <3>1
  <2>5. p + rl < LONG
    BY <1>1, <2>1, <2>4
  <2> QED
    BY <2>1, <2>3, <2>5
<1>3. CASE ~ (len # 0 /\ Kind[n] # "dir" /\ p < size[n])
  <2>1. r.bytes = <<>>
    BY <1>1, <1>3
  <2> QED
    BY <1>1, <2>1
<1> QED
  BY <1>2, <1>3

\* A read moves the position by what it returns.
LEMMA ReadInv == ASSUME FileInv, NEW h \in Handle, NEW len \in Lengths, sys_read(h, len) PROVE FileInv'
<1>1. len \in Nat /\ Ready(h) /\ vnode[h] \in Node
  BY FileIOAssumption DEF sys_read, Ready, FileInv, FileTypes
<1>2. PICK r : /\ Len(r.bytes) \in Nat /\ f_pos[h] + Len(r.bytes) < LONG
               /\ f_pos' = [f_pos EXCEPT ![h] = @ + Len(r.bytes)]
  <2>1. CASE KindOf(h) \in {"tmpfs", "dir", "initramfs"}
    BY <2>1, <1>1, ReadBytes DEF sys_read, initramfs_read
  <2>2. CASE KindOf(h) = "uart"
    <3>1. PICK r \in dev_uart_read(h, len) : f_pos' = [f_pos EXCEPT ![h] = @ + Len(r.bytes)]
      BY <2>2 DEF sys_read
    <3>2. ASSUME NEW k \in Nat PROVE Len([i \in 1 .. k |-> JUNK]) = k
      <4>1. [i \in 1 .. k |-> JUNK] \in Seq({JUNK})
        OBVIOUS
      <4> QED
        BY <4>1
    <3>3. Len(r.bytes) \in 0 .. len
      <4>1. CASE len = 0
        BY <4>1, <3>1 DEF dev_uart_read, Got
      <4>2. CASE len # 0
        <5>1. PICK k \in 0 .. len : r \in Got(k, [i \in 1 .. k |-> JUNK])
          BY <4>2, <3>1 DEF dev_uart_read
        <5>2. r.bytes = [i \in 1 .. k |-> JUNK] /\ k \in 0 .. len /\ k \in Nat
          BY <5>1, <1>1 DEF Got
        <5> QED
          BY <5>2, <3>2
      <4> QED
        BY <4>1, <4>2
    <3>4. f_pos[h] + len < LONG /\ f_pos[h] \in Nat /\ LONG \in Nat
      BY <2>2, FileIOAssumption DEF sys_read, FileInv, FileTypes
    <3>5. Len(r.bytes) \in Nat /\ f_pos[h] + Len(r.bytes) < LONG
      BY <1>1, <3>3, <3>4
    <3> QED
      BY <3>1, <3>5
  <2>3. CASE KindOf(h) \notin {"tmpfs", "dir", "initramfs", "uart"}
    <3>1. f_pos[h] + Len(<<>>) < LONG
      BY DEF FileInv, FileTypes, Below
    <3> QED
      BY <2>3, <3>1 DEF sys_read, Got
  <2> QED
    BY <2>1, <2>2, <2>3
<1>3. f_pos' \in [Handle -> Nat] /\ \A g \in Handle : f_pos'[g] < LONG
  BY <1>2 DEF FileInv, FileTypes, Below
<1>4. vnode' \in [Handle -> Node \union {NULL}]
  BY DEF sys_read, FileInv, FileTypes
<1> QED
  BY <1>3, <1>4, CallInv DEF sys_read, locals, Ready

\* A read that leaves its buffer has a position and a count that wrap together.
LEMMA RunsAwayInv ==
    ASSUME FileInv, NEW h \in Handle, NEW len \in Lengths, ReadRunsAway(h, len)
    PROVE  FileInv'
<1>1. /\ len \in Nat /\ vnode[h] \in Node /\ f_pos[h] \in Nat /\ size[vnode[h]] \in Nat
      /\ Leaves(h, len) /\ overrun' = <<h, len>> /\ UNCHANGED <<vnode, f_pos, data, size, locals>>
  BY FileIOAssumption DEF ReadRunsAway, Ready, FileInv, FileTypes
<1>2. SIZE_T \in Nat
  BY FileIOAssumption DEF SIZE_T
<1>3. f_pos[h] + len >= SIZE_T
  <2> SUFFICES ASSUME f_pos[h] + len < SIZE_T PROVE FALSE
    BY <1>1, <1>2
  <2>1. readable_len(h, len) = IF f_pos[h] + len > size[vnode[h]] THEN size[vnode[h]] - f_pos[h] ELSE len
    BY <1>1, SumWraps DEF readable_len
  <2> QED
    BY <1>1, <2>1 DEF Leaves
<1>4. SizeFits'
  BY <1>1, <1>3 DEF FileInv, SizeFits, SIZE_T
<1> QED
  BY <1>1, <1>4 DEF locals, FileInv, FileTypes, Below, WriteInv

\* A seek never makes a position negative, however the addition wraps.
LEMMA SeekInv ==
    ASSUME FileInv, NEW h \in Handle, NEW off \in Offsets, NEW whence \in SEEK, sys_lseek64(h, off, whence)
    PROVE  FileInv'
<1>1. vfs_lseek64(h, off, whence) \in Int /\ vfs_lseek64(h, off, whence) < LONG
  <2>1. off \in Int /\ off < LONG /\ f_pos[h] \in Int /\ f_pos[h] < LONG /\ size[vnode[h]] \in Int
    BY FileIOAssumption DEF FileInv, FileTypes, Below, sys_lseek64, Ready
  <2>2. \A x \in Int : ToLong(x) \in Int /\ ToLong(x) < LONG
    BY LongRange
  <2>3. EINVAL \in Int /\ EINVAL < LONG
    BY FileIOAssumption DEF EINVAL
  <2>4. f_pos[h] + off \in Int /\ size[vnode[h]] + off \in Int
    BY <2>1
  <2>5. tmpfs_lseek64(h, off, whence) \in Int /\ tmpfs_lseek64(h, off, whence) < LONG
    BY <2>1, <2>2, <2>3, <2>4 DEF tmpfs_lseek64
  <2>6. dev_uart_lseek64(h, off, whence) \in Int /\ dev_uart_lseek64(h, off, whence) < LONG
    BY <2>1, <2>2, <2>3, <2>4 DEF dev_uart_lseek64
  <2> QED
    BY <2>5, <2>6 DEF vfs_lseek64, initramfs_lseek64, dev_framebuffer_lseek64
<1>2. f_pos' \in [Handle -> Nat] /\ \A g \in Handle : f_pos'[g] < LONG
  <2> DEFINE pos == vfs_lseek64(h, off, whence)
  <2>1. pos \in Int /\ pos < LONG
    BY <1>1
  <2>2. f_pos' = IF pos < 0 THEN f_pos ELSE [f_pos EXCEPT ![h] = pos]
    BY DEF sys_lseek64
  <2> HIDE DEF pos
  <2> QED
    BY <2>1, <2>2 DEF FileInv, FileTypes, Below
<1>3. vnode' \in [Handle -> Node \union {NULL}]
  BY DEF sys_lseek64, FileInv, FileTypes
<1> QED
  BY <1>2, <1>3, CallInv DEF sys_lseek64, locals, Ready

\* The end of a write touches the handle's own locals.
LEMMA EndWriteTypes ==
    ASSUME FileTypes, NEW h \in Handle, NEW x0, NEW b, EndWrite(h, x0, b)
    PROVE  /\ pc' \in [Handle -> {"idle", "double", "grow", "copy"}]
           /\ buf' \in [Handle -> Seq(Byte)] /\ new_capacity' \in [Handle -> Nat]
           /\ pc'[h] = "idle"
           /\ \A g \in Handle \ {h} : pc'[g] = pc[g] /\ buf'[g] = buf[g]
<1>1. <<>> \in Seq(Byte)
  OBVIOUS
<1> QED
  BY <1>1 DEF FileTypes, EndWrite

\* A write that ends leaves nothing behind.
LEMMA EndWriteInv ==
    ASSUME FileInv, NEW h \in Handle, Runs(h), NEW x0, NEW b, EndWrite(h, x0, b),
           f_pos' \in [Handle -> Nat], \A g \in Handle : f_pos'[g] < LONG,
           UNCHANGED <<vnode, data, size, overrun>>
    PROVE  FileInv'
<1>1. FileTypes' /\ SizeFits' /\ Below'
  BY EndWriteTypes DEF FileInv, FileTypes, SizeFits, Below, Runs
<1>2. WriteInv(h)'
  BY EndWriteTypes DEF WriteInv, FileInv
<1>3. ASSUME NEW g \in Handle \ {h} PROVE WriteInv(g)'
  BY <1>1, OthersKeep, EndWriteTypes DEF FileInv
<1> QED
  BY <1>1, <1>2, <1>3 DEF FileInv

\* tmpfs_write goes to the copy only if the buffer has room.
LEMMA WriteStartInv ==
    ASSUME FileInv, NEW h \in Handle, NEW b \in Buffers, Ready(h), b # <<>>, KindOf(h) = "tmpfs",
           tmpfs_write(h, b), UNCHANGED <<vnode, data, size, overrun>>
    PROVE  FileInv'
<1> DEFINE capacity == Len(data[vnode[h]])
<1>1. /\ capacity \in Nat /\ vnode[h] \in Node /\ b \in Seq(Byte) /\ Len(b) < LONG
      /\ DEFAULT_FILE_SIZE \in Nat /\ Sum(f_pos[h], Len(b)) = f_pos[h] + Len(b)
  <2>1. vnode[h] \in Node /\ f_pos[h] \in Nat /\ f_pos[h] < LONG /\ data[vnode[h]] \in Seq(Byte)
    BY DEF Ready, FileInv, FileTypes, Below
  <2>2. b \in Seq(Byte) /\ Len(b) < LONG /\ DEFAULT_FILE_SIZE \in Nat
    BY FileIOAssumption
  <2>3. capacity \in Nat /\ Len(b) \in Nat
    BY <2>1, <2>2
  <2> QED
    BY <2>1, <2>2, <2>3, NoWrap
<1>2. /\ buf' = [buf EXCEPT ![h] = b]
      /\ pc' = [pc EXCEPT ![h] = IF f_pos[h] + Len(b) > capacity THEN "double" ELSE "copy"]
      /\ new_capacity' = [new_capacity EXCEPT ![h] = IF capacity > 0 THEN capacity ELSE DEFAULT_FILE_SIZE]
      /\ UNCHANGED <<f_pos, ans>>
  BY <1>1 DEF tmpfs_write
<1> HIDE DEF capacity
<1>3. FileTypes' /\ SizeFits' /\ Below'
  BY <1>1, <1>2 DEF FileInv, FileTypes, SizeFits, Below
<1>4. WriteInv(h)'
  BY <1>1, <1>2 DEF FileInv, FileTypes, WriteInv, KindOf, capacity
<1>5. ASSUME NEW g \in Handle \ {h} PROVE WriteInv(g)'
  BY <1>2, <1>3, OthersKeep DEF FileInv, FileTypes, Ready
<1> QED
  BY <1>3, <1>4, <1>5 DEF FileInv

\* sys_write ends at once, or starts tmpfs_write.
LEMMA SysWriteInv == ASSUME FileInv, NEW h \in Handle, NEW b \in Buffers, sys_write(h, b) PROVE FileInv'
<1>1. /\ Ready(h) /\ Runs(h) /\ b \in Seq(Byte) /\ f_pos \in [Handle -> Nat]
      /\ UNCHANGED <<vnode, data, size, overrun>>
  BY FileIOAssumption DEF sys_write, Ready, FileInv, FileTypes
<1>2. ASSUME f_pos[h] + Len(b) < LONG, f_pos' = [f_pos EXCEPT ![h] = @ + Len(b)]
      PROVE  f_pos' \in [Handle -> Nat] /\ \A g \in Handle : f_pos'[g] < LONG
  BY <1>1, <1>2 DEF FileInv, Below
<1>3. CASE \E x0, c : /\ EndWrite(h, x0, c)
                      /\ \/ UNCHANGED f_pos
                         \/ f_pos[h] + Len(b) < LONG /\ f_pos' = [f_pos EXCEPT ![h] = @ + Len(b)]
  <2>1. f_pos' \in [Handle -> Nat] /\ \A g \in Handle : f_pos'[g] < LONG
    <3>1. CASE UNCHANGED f_pos
      BY <1>1, <3>1 DEF FileInv, Below
    <3> QED
      BY <1>2, <1>3, <3>1
  <2> QED
    BY <1>1, <1>3, <2>1, EndWriteInv
<1>4. CASE b # <<>> /\ KindOf(h) = "tmpfs" /\ tmpfs_write(h, b)
  BY <1>1, <1>4, WriteStartInv
<1> QED
  BY <1>3, <1>4 DEF sys_write, initramfs_write, dev_uart_write, dev_framebuffer_write

\* The loop ends with room, or never.
LEMMA WriteDoubleInv == ASSUME FileInv, NEW h \in Handle, WriteDouble(h) PROVE FileInv'
<1> USE DEF WriteDouble
<1>0. /\ SIZE_T \in Nat \ {0} /\ vnode[h] \in Node /\ UNCHANGED <<vnode, f_pos, data, size, overrun>> /\ Runs(h)
      /\ Sum(f_pos[h], Len(buf[h])) = f_pos[h] + Len(buf[h])
  <2>1. SIZE_T \in Nat \ {0} /\ vnode[h] \in Node /\ UNCHANGED <<vnode, f_pos, data, size, overrun>> /\ Runs(h)
    BY FileIOAssumption DEF SIZE_T, FileInv, WriteInv
  <2>2. f_pos[h] \in Nat /\ f_pos[h] < LONG /\ buf[h] \in Seq(Byte) /\ Len(buf[h]) < LONG
    BY DEF FileInv, FileTypes, Below, WriteInv
  <2>3. Len(buf[h]) \in Nat
    BY <2>2
  <2> QED
    BY <2>1, <2>2, <2>3, NoWrap
<1>1. CASE \E x0, c : EndWrite(h, x0, c)
  BY <1>0, <1>1, EndWriteInv DEF FileInv, FileTypes, Below
<1>2. CASE /\ new_capacity' = [new_capacity EXCEPT ![h] = (@ * 2) % SIZE_T]
           /\ UNCHANGED <<pc, buf, ans>>
  <2>1. (new_capacity[h] * 2) % SIZE_T \in Nat
    BY <1>0 DEF FileInv, FileTypes
  <2>2. FileTypes' /\ SizeFits' /\ Below'
    BY <1>0, <1>2, <2>1 DEF FileInv, FileTypes, SizeFits, Below
  <2>3. WriteInv(h)'
    BY <1>0, <1>2 DEF FileInv, WriteInv
  <2>4. ASSUME NEW g \in Handle \ {h} PROVE WriteInv(g)'
    BY <1>0, <1>2, <2>2, OthersKeep
  <2> QED
    BY <2>2, <2>3, <2>4 DEF FileInv
<1>3. CASE /\ new_capacity[h] >= f_pos[h] + Len(buf[h])
           /\ ~ (new_capacity[h] > Len(data[vnode[h]]) /\ new_capacity[h] > MAX_ALLOC)
           /\ pc' = [pc EXCEPT ![h] = IF new_capacity[h] > Len(data[vnode[h]]) THEN "grow" ELSE "copy"]
           /\ UNCHANGED <<buf, new_capacity, ans>>
  <2>2. FileTypes' /\ SizeFits' /\ Below'
    BY <1>0, <1>3 DEF FileInv, FileTypes, SizeFits, Below
  <2>3. WriteInv(h)'
    <3>1. MAX_ALLOC \in Nat /\ MAX_ALLOC < LONG /\ LONG \in Nat
      BY FileIOAssumption
    <3> QED
      BY <1>0, <1>3, <3>1 DEF FileInv, FileTypes, WriteInv
  <2>4. ASSUME NEW g \in Handle \ {h} PROVE WriteInv(g)'
    BY <1>0, <1>3, <2>2, OthersKeep DEF FileInv, FileTypes
  <2> QED
    BY <2>2, <2>3, <2>4 DEF FileInv
<1> QED
  BY <1>0, <1>1, <1>2, <1>3

\* The move: what it does to the node.
LEMMA GrowStep ==
    ASSUME FileInv, NEW h \in Handle, WriteGrow(h)
    PROVE  LET n == vnode[h] e == Move(data[n], size[n], new_capacity[h])
           IN  /\ n \in Node /\ data' = [data EXCEPT ![n] = e]
               /\ e \in Seq(Byte) /\ Len(e) = new_capacity[h] /\ size[n] <= Len(e)
               /\ SubSeq(e, 1, size[n]) = SubSeq(data[n], 1, size[n])
<1> DEFINE n == vnode[h]
<1>1. n \in Node /\ new_capacity[h] > Len(data[n])
  BY DEF FileInv, WriteInv, WriteGrow
<1>2. data[n] \in Seq(Byte) /\ size[n] \in 0 .. Len(data[n]) /\ new_capacity[h] \in Nat /\ size[n] <= new_capacity[h]
  BY <1>1 DEF FileInv, FileTypes, SizeFits
<1>3. data' = [data EXCEPT ![n] = Move(data[n], size[n], new_capacity[h])]
  BY DEF WriteGrow
<1> HIDE DEF n
<1> QED
  BY <1>1, <1>2, <1>3, MoveKeeps DEF n

\* The move makes the room that the copy needs.
LEMMA WriteGrowInv == ASSUME FileInv, NEW h \in Handle, WriteGrow(h) PROVE FileInv'
<1> DEFINE n == vnode[h] e == Move(data[n], size[n], new_capacity[h])
<1>1. /\ n \in Node /\ data' = [data EXCEPT ![n] = e]
      /\ e \in Seq(Byte) /\ Len(e) = new_capacity[h] /\ size[n] <= Len(e)
  BY GrowStep
<1> HIDE DEF e
<1>2. pc' = [pc EXCEPT ![h] = "copy"] /\ UNCHANGED <<vnode, f_pos, size, buf, new_capacity, overrun>> /\ Runs(h) /\ pc[h] = "grow"
  BY DEF WriteGrow
<1>3. FileTypes'
  BY <1>1, <1>2 DEF FileInv, FileTypes
<1>4. SizeFits' /\ Below'
  BY <1>1, <1>2 DEF FileInv, FileTypes, SizeFits, Below, WriteInv, Runs
<1>5. WriteInv(h)'
  BY <1>1, <1>2 DEF FileInv, FileTypes, WriteInv
<1>6. ASSUME NEW g \in Handle \ {h} PROVE WriteInv(g)'
  BY <1>2, <1>3, OthersKeep DEF FileInv, FileTypes
<1> QED
  BY <1>3, <1>4, <1>5, <1>6 DEF FileInv

\* The copy stays in the buffer.
LEMMA WriteCopyInv == ASSUME FileInv, NEW h \in Handle, WriteCopy(h) PROVE FileInv'
<1> DEFINE n == vnode[h] b == buf[h] p == f_pos[h] e == Copied(data[n], b, p)
<1>1. n \in Node /\ b \in Seq(Byte) /\ p \in Nat /\ data[n] \in Seq(Byte) /\ p + Len(b) <= Len(data[n])
  BY DEF FileInv, FileTypes, WriteInv, WriteCopy
<1>2. e \in Seq(Byte) /\ Len(e) = Len(data[n])
  BY <1>1, CopyBytes
<1>3. /\ data' = [data EXCEPT ![n] = e]
      /\ size' = [size EXCEPT ![n] = IF p + Len(b) > @ THEN p + Len(b) ELSE @]
      /\ f_pos' = [f_pos EXCEPT ![h] = p + Len(b)]
      /\ EndWrite(h, Len(b), b) /\ UNCHANGED <<vnode, overrun>> /\ Runs(h)
  BY DEF WriteCopy, Copied
<1>4. Len(b) \in Nat
  BY <1>1
<1> HIDE DEF e
<1>5. FileTypes'
  <2>1. data' \in [Node -> Seq(Byte)] /\ vnode' \in [Handle -> Node \union {NULL}]
    BY <1>2, <1>3 DEF FileInv, FileTypes
  <2>2. size' \in [Node -> Nat] /\ f_pos' \in [Handle -> Nat]
    BY <1>1, <1>3, <1>4 DEF FileInv, FileTypes
  <2>3. /\ pc' \in [Handle -> {"idle", "double", "grow", "copy"}]
        /\ buf' \in [Handle -> Seq(Byte)] /\ new_capacity' \in [Handle -> Nat]
    <3>1. FileTypes
      BY DEF FileInv
    <3>2. EndWrite(h, Len(b), b)
      BY <1>3
    <3> QED
      BY <3>1, <3>2, EndWriteTypes
  <2> QED
    BY <2>1, <2>2, <2>3 DEF FileTypes
<1>6. SizeFits' /\ Below'
  <2>1. SizeFits'
    BY <1>1, <1>2, <1>3, <1>4 DEF FileInv, FileTypes, SizeFits, Runs
  <2>2. p + Len(b) < LONG
    BY <1>1, <1>4, FileIOAssumption DEF FileInv, Below
  <2>3. \A m \in Node : Len(data'[m]) < LONG
    BY <1>1, <1>2, <1>3 DEF FileInv, FileTypes, Below
  <2>4. \A g \in Handle : f_pos'[g] < LONG
    BY <1>3, <2>2 DEF FileInv, FileTypes, Below
  <2> QED
    BY <2>1, <2>3, <2>4 DEF Below
<1>7. WriteInv(h)'
  BY <1>3, EndWriteTypes DEF FileInv, WriteInv
<1>8. ASSUME NEW g \in Handle \ {h} PROVE WriteInv(g)'
  BY <1>3, <1>5, OthersKeep, EndWriteTypes DEF FileInv
<1> QED
  BY <1>5, <1>6, <1>7, <1>8 DEF FileInv

\* Every step keeps the invariant.
LEMMA FileNext == FileInv /\ [Next]_vars => FileInv'
<1> SUFFICES ASSUME FileInv, [Next]_vars PROVE FileInv'
  OBVIOUS
<1>1. CASE UNCHANGED vars
  BY <1>1 DEF vars, locals, FileInv, FileTypes, SizeFits, Below, WriteInv
<1>2. ASSUME NEW h \in Handle, NEW n \in Node, Open(h, n) PROVE FileInv'
  BY <1>2, OpenInv
<1>3. ASSUME NEW h \in Handle, Close(h) \/ BadFd(h) PROVE FileInv'
  BY <1>3, CloseInv, BadFdInv
<1>4. ASSUME NEW h \in Handle, Inside(h) PROVE FileInv'
  BY <1>4, WriteDoubleInv, WriteGrowInv, WriteCopyInv DEF Inside
<1>5. ASSUME NEW h \in Handle, NEW b \in Buffers, sys_write(h, b) PROVE FileInv'
  BY <1>5, SysWriteInv
<1>6. ASSUME NEW h \in Handle, NEW len \in Lengths, sys_read(h, len) \/ ReadRunsAway(h, len) PROVE FileInv'
  BY <1>6, ReadInv, RunsAwayInv
<1>7. ASSUME NEW h \in Handle, NEW off \in Offsets, NEW w \in SEEK, sys_lseek64(h, off, w) PROVE FileInv'
  BY <1>7, SeekInv
<1> QED
  BY <1>1, <1>2, <1>3, <1>4, <1>5, <1>6, <1>7 DEF Next, Halted

\* The inductive invariant holds in every state.
THEOREM FileInvariance == Spec => []FileInv
  BY FileInit, FileNext, PTL DEF Spec

\* No sequence of calls on any handles lets a file outgrow the buffer that
\* tmpfs_write allocated for it, also when the doubling loop wraps; and a read
\* leaves the buffer only if its position and its count wrap together.
THEOREM FilesFit == Spec => []SizeFits
<1>1. FileInv => SizeFits
  BY DEF FileInv
<1> QED
  BY <1>1, FileInvariance, PTL

----------------------------------------------------------------------------
(* The refinement.                                                         *)

Content == [n \in FileNode |-> SubSeq(data[n], 1, size[n])]

\* Steps that change no buffer and no size change no content.
LEMMA SameContent == ASSUME UNCHANGED <<data, size>> PROVE Content' = Content
  BY DEF Content, FileNode

\* The files start as ByteFile has them.
LEMMA AbstractInit == Init => Abstract!AInit
<1> SUFFICES ASSUME Init PROVE Abstract!AInit
  OBVIOUS
<1>1. ASSUME NEW f \in {n \in Node : Kind[n] = "tmpfs"} PROVE Content[f] = <<>>
  <2>1. size[f] = 0 /\ f \in FileNode
    BY DEF Init, FileNode
  <2>2. SubSeq(data[f], 1, 0) = <<>>
    BY SubSeqEmpty
  <2> QED
    BY <2>1, <2>2 DEF Content
<1> QED
  BY <1>1 DEF Abstract!AInit, Content, Init

\* Open and close are AOpen.
LEMMA AbstractOpen ==
    ASSUME FileInv, NEW h \in Handle, (\E n \in Node : Open(h, n)) \/ Close(h)
    PROVE  Abstract!AOpen(h)
<1>1. Content' = Content
  BY SameContent DEF Open, Close
<1> QED
  BY <1>1 DEF FileInv, FileTypes, Open, Close, tmpfs_open, tmpfs_close, Abstract!AOpen, Content

\* A refused call is an error of the file.
LEMMA AbstractBadFd == ASSUME NEW h \in Handle, BadFd(h) PROVE Abstract!AFail
<1>1. Content' = Content
  BY SameContent DEF BadFd
<1> QED
  BY <1>1 DEF BadFd, Reply, Abstract!AFail, Content

\* A seek is ASeek.
LEMMA AbstractSeek ==
    ASSUME FileInv, FileInv', NEW h \in Handle, NEW off, NEW whence, sys_lseek64(h, off, whence)
    PROVE  Abstract!ASeek(h)
<1>1. Content' = Content
  BY SameContent DEF sys_lseek64
<1>2. f_pos'[h] >= 0 /\ f_pos' = [f_pos EXCEPT ![h] = f_pos'[h]]
  <2>1. f_pos'[h] >= 0
    BY DEF FileInv, FileTypes
  <2> DEFINE pos == vfs_lseek64(h, off, whence)
  <2>2. f_pos' = f_pos \/ f_pos' = [f_pos EXCEPT ![h] = pos]
    BY DEF sys_lseek64
  <2> HIDE DEF pos
  <2> QED
    BY <2>1, <2>2 DEF FileInv, FileTypes
<1> QED
  BY <1>1, <1>2 DEF sys_lseek64, Reply, Abstract!ASeek, Content

\* A write that ends with an error changes nothing.
LEMMA EndFails ==
    ASSUME NEW h, NEW x0 \in {-1, EACCES, ENOMEM}, NEW c, EndWrite(h, x0, c),
           UNCHANGED <<f_pos, vnode>>, Content' = Content
    PROVE  Abstract!AFail
<1>1. ans'.x0 = x0 /\ x0 < 0
  BY DEF EndWrite, Reply, EACCES, ENOMEM
<1> QED
  BY <1>1 DEF Abstract!AFail, Content

\* The first step of a write is an error, the business of a device, or invisible.
LEMMA AbstractSysWrite ==
    ASSUME FileInv, NEW h \in Handle, NEW b \in Buffers, sys_write(h, b)
    PROVE  Abstract!AFail \/ Abstract!ADevice(h) \/ UNCHANGED Abstract!avars
<1>1. Content' = Content /\ UNCHANGED vnode
  BY SameContent DEF sys_write
<1>2. ASSUME NEW x0 \in {-1, EACCES}, NEW c, EndWrite(h, x0, c), UNCHANGED f_pos
      PROVE  Abstract!AFail
  BY <1>1, <1>2, EndFails
<1>3. CASE KindOf(h) \in {"uart", "framebuffer"} /\ f_pos' = [f_pos EXCEPT ![h] = @ + Len(b)]
  <2>1. vnode[h] \notin FileNode
    BY <1>3 DEF FileNode, KindOf
  <2>2. f_pos' = [f_pos EXCEPT ![h] = f_pos'[h]]
    BY <1>3 DEF FileInv, FileTypes
  <2> QED
    BY <1>1, <2>1, <2>2 DEF Abstract!ADevice, Content
<1>4. CASE tmpfs_write(h, b)
  BY <1>1, <1>4 DEF tmpfs_write, Abstract!avars, Content
<1> QED
  BY <1>2, <1>3, <1>4 DEF sys_write, initramfs_write, dev_uart_write, dev_framebuffer_write

\* The loop is invisible until it fails.
LEMMA AbstractDouble ==
    ASSUME NEW h \in Handle, WriteDouble(h)
    PROVE  Abstract!AFail \/ UNCHANGED Abstract!avars
<1>1. Content' = Content /\ UNCHANGED <<vnode, f_pos>>
  BY SameContent DEF WriteDouble
<1>2. CASE EndWrite(h, ENOMEM, <<>>)
  BY <1>1, <1>2, EndFails
<1>3. CASE UNCHANGED ans
  BY <1>1, <1>3 DEF Abstract!avars, Content
<1> QED
  BY <1>2, <1>3 DEF WriteDouble

\* The move is invisible.
LEMMA AbstractGrow == ASSUME FileInv, NEW h \in Handle, WriteGrow(h) PROVE UNCHANGED Abstract!avars
<1> DEFINE n == vnode[h] e == Move(data[n], size[n], new_capacity[h])
<1>1. /\ n \in Node /\ data' = [data EXCEPT ![n] = e]
      /\ SubSeq(e, 1, size[n]) = SubSeq(data[n], 1, size[n])
  BY GrowStep
<1>2. UNCHANGED <<vnode, f_pos, size, ans>>
  BY DEF WriteGrow
<1> HIDE DEF e
<1>3. ASSUME NEW m \in FileNode PROVE SubSeq(data'[m], 1, size'[m]) = SubSeq(data[m], 1, size[m])
  <2>1. CASE m = n
    BY <1>1, <1>2, <2>1 DEF FileInv, FileTypes
  <2>2. CASE m # n
    BY <1>1, <1>2, <2>2 DEF FileInv, FileTypes, FileNode
  <2> QED
    BY <2>1, <2>2
<1>4. Content' = Content
  BY <1>3 DEF Content, FileNode
<1> QED
  BY <1>2, <1>4 DEF Abstract!avars, Content

\* The copy is AWrite.
LEMMA AbstractCopy == ASSUME FileInv, FileInv', NEW h \in Handle, WriteCopy(h) PROVE Abstract!AWrite(h)
<1> DEFINE n == vnode[h] b == buf[h] p == f_pos[h] d == data[n] e == Copied(d, b, p)
           s == size[n] t == IF p + Len(b) > s THEN p + Len(b) ELSE s
<1>1. /\ n \in Node /\ Kind[n] = "tmpfs" /\ b \in Seq(Byte) /\ b # <<>> /\ p \in Nat
      /\ d \in Seq(Byte) /\ p + Len(b) <= Len(d) /\ s \in Nat /\ s <= Len(d)
  BY DEF FileInv, FileTypes, WriteInv, WriteCopy, SizeFits
<1>2. /\ e \in Seq(Byte) /\ Len(e) = Len(d)
      /\ \A i \in 1 .. Len(d) : i <= p \/ i > p + Len(b) => e[i] = d[i]
      /\ \A i \in p + 1 .. p + Len(b) : e[i] = b[i - p]
  BY <1>1, CopyBytes
<1>3. /\ data' = [data EXCEPT ![n] = e] /\ size' = [size EXCEPT ![n] = t]
      /\ f_pos' = [f_pos EXCEPT ![h] = p + Len(b)]
      /\ ans' = Reply(h, "write", Len(b), b) /\ UNCHANGED vnode
  BY DEF WriteCopy, Copied, EndWrite
<1>4. Len(b) \in Nat /\ Len(b) > 0 /\ t \in 0 .. Len(d) /\ s \in 0 .. Len(d)
  BY <1>1
<1>5. n \in FileNode
  BY <1>1 DEF FileNode
<1> HIDE DEF e
<1>6. /\ f_pos'[h] = p + Len(b)
      /\ Content[n] = SubSeq(d, 1, s) /\ Content'[n] = SubSeq(e, 1, t)
      /\ data'[n] = e /\ size'[n] = t
  BY <1>1, <1>3, <1>5 DEF FileInv, FileTypes, Content, FileNode
<1> HIDE DEF t, s, d, b, p
<1>7. /\ Len(SubSeq(d, 1, s)) = s /\ \A i \in 1 .. s : SubSeq(d, 1, s)[i] = d[i]
      /\ Len(SubSeq(e, 1, t)) = t /\ \A i \in 1 .. t : SubSeq(e, 1, t)[i] = e[i]
  BY <1>1, <1>2, <1>4, Prefix
<1>8. Content' = [Content EXCEPT ![n] = Content'[n]]
  <2>1. \A m \in FileNode \ {n} : data'[m] = data[m] /\ size'[m] = size[m]
    BY <1>3 DEF FileInv, FileTypes, FileNode
  <2>2. \A m \in FileNode \ {n} : Content'[m] = Content[m]
    BY <2>1 DEF Content, FileNode
  <2>3. Content = [m \in FileNode |-> Content[m]] /\ Content' = [m \in FileNode |-> Content'[m]]
    BY DEF Content, FileNode
  <2> HIDE DEF n
  <2> QED
    BY <2>2, <2>3
<1>9. t = IF s > p + Len(b) THEN s ELSE p + Len(b)
  BY <1>1, <1>4 DEF t
<1>10. \A i \in 1 .. s : i <= p \/ i > p + Len(b) => Content'[n][i] = Content[n][i]
  <2> SUFFICES ASSUME NEW i \in 1 .. s, i <= p \/ i > p + Len(b) PROVE Content'[n][i] = Content[n][i]
    OBVIOUS
  <2>1. i \in 1 .. t /\ i \in 1 .. Len(d)
    BY <1>1, <1>4, <1>9
  <2>2. e[i] = d[i]
    BY <1>2, <2>1
  <2>3. Content[n][i] = d[i] /\ Content'[n][i] = e[i]
    BY <1>6, <1>7, <2>1
  <2> QED
    BY <2>2, <2>3
<1>11. \A i \in p + 1 .. p + Len(b) : Content'[n][i] = b[i - p]
  <2> SUFFICES ASSUME NEW i \in p + 1 .. p + Len(b) PROVE Content'[n][i] = b[i - p]
    OBVIOUS
  <2>1. i \in 1 .. t
    BY <1>1, <1>4, <1>9
  <2> QED
    BY <2>1, <1>2, <1>6, <1>7
<1>12. ans'.h = h /\ ans'.op = "write" /\ ans'.x0 = Len(b) /\ ans'.bytes = b
  BY <1>3 DEF Reply
<1>13. n \in {m \in Node : Kind[m] = "tmpfs"} /\ vnode' = vnode
  BY <1>1, <1>3
<1>14. f_pos' = [f_pos EXCEPT ![h] = @ + Len(b)]
  BY <1>3 DEF p
<1>15. Len(Content[n]) = s /\ Len(Content'[n]) = Abstract!Max2(s, f_pos'[h])
  BY <1>6, <1>7, <1>9 DEF Abstract!Max2
<1>16. /\ ans'.h = h /\ ans'.op = "write" /\ ans'.x0 > 0
       /\ f_pos' = [f_pos EXCEPT ![h] = @ + ans'.x0]
       /\ Len(Content'[n]) = Abstract!Max2(Len(Content[n]), f_pos'[h])
  BY <1>4, <1>12, <1>14, <1>15
<1>17. /\ \A i \in 1 .. Len(Content[n]) : i <= f_pos[h] \/ i > f_pos'[h] => Content'[n][i] = Content[n][i]
       /\ \A i \in f_pos[h] + 1 .. f_pos'[h] : Content'[n][i] = ans'.bytes[i - f_pos[h]]
  BY <1>6, <1>10, <1>11, <1>12, <1>15 DEF p
<1> QED
  BY <1>8, <1>13, <1>16, <1>17, Zenon DEF Abstract!AWrite, Content, n

\* A read of a file is ARead.
LEMMA AbstractFileRead ==
    ASSUME FileInv, NEW h \in Handle, Ready(h), KindOf(h) \in {"tmpfs", "initramfs"}, NEW len \in Nat,
           ~ Leaves(h, len), NEW r \in tmpfs_read(h, len), ans' = Reply(h, "read", r.x0, r.bytes),
           f_pos' = [f_pos EXCEPT ![h] = @ + Len(r.bytes)], UNCHANGED <<vnode, data, size>>
    PROVE  Abstract!ARead(h)
<1> DEFINE n == vnode[h] p == f_pos[h] d == data[n] c == Content[n]
           rl == readable_len(h, len)
<1>1. /\ n \in FileNode /\ p \in Nat /\ size[n] \in Nat /\ size[n] <= Len(d) /\ d \in Seq(Byte)
      /\ Kind[n] # "dir"
  BY DEF FileInv, FileTypes, SizeFits, Ready, FileNode, KindOf
<1>2. c = SubSeq(d, 1, size[n]) /\ Content' = Content
  BY <1>1, SameContent DEF Content
<1>3. Len(c) = size[n] /\ \A i \in 1 .. size[n] : c[i] = d[i]
  <2>1. size[n] \in 0 .. Len(d)
    BY <1>1
  <2> HIDE DEF c, d
  <2> QED
    BY <1>1, <1>2, <2>1, Prefix
<1>4. r.x0 \in Nat /\ p + r.x0 <= Abstract!Max2(Len(c), p) /\ r.bytes = [i \in 1 .. r.x0 |-> c[p + i]] /\ Len(r.bytes) = r.x0
  <2>1. CASE len # 0 /\ p < size[n]
    <3>1. rl \in Nat /\ p + rl <= size[n] /\ r.x0 = rl /\ r.bytes = SubSeq(d, p + 1, p + rl)
      <4>1. r \in Got(rl, SubSeq(d, p + 1, p + rl))
        <5>1. len # 0 /\ Kind[n] # "dir" /\ ~ (p >= size[n])
          BY <1>1, <2>1
        <5> HIDE DEF rl
        <5> QED
          BY <5>1 DEF tmpfs_read, rl
      <4>2. rl \in Nat /\ p + rl <= size[n]
        BY <2>1, ReadLength
      <4> QED
        BY <4>1, <4>2 DEF Got
    <3> HIDE DEF rl, c, d, p
    <3>2. \A i \in p + 1 .. p + rl : d[i] \in Byte
      <4> SUFFICES ASSUME NEW i \in p + 1 .. p + rl PROVE d[i] \in Byte
        OBVIOUS
      <4>1. i \in 1 .. Len(d)
        BY <3>1, <1>1
      <4> QED
        BY <4>1, <1>1, ElementOfSeq
    <3>3. /\ SubSeq(d, p + 1, p + rl) \in Seq(Byte)
          /\ Len(SubSeq(d, p + 1, p + rl)) = IF p + 1 <= p + rl THEN (p + rl) - (p + 1) + 1 ELSE 0
          /\ \A i \in 1 .. (p + rl) - (p + 1) + 1 : SubSeq(d, p + 1, p + rl)[i] = d[p + 1 + i - 1]
      <4>1. p + 1 \in Int /\ p + rl \in Int
        BY <3>1, <1>1
      <4> QED
        BY <4>1, <3>2, SubSeqProperties
    <3>4. Len(r.bytes) = rl /\ r.bytes \in [1 .. rl -> Byte]
      <4>1. (IF p + 1 <= p + rl THEN (p + rl) - (p + 1) + 1 ELSE 0) = rl
        BY <1>1, <3>1
      <4>2. Len(r.bytes) = rl /\ r.bytes \in Seq(Byte)
        BY <4>1, <3>1, <3>3
      <4> QED
        BY <4>2, LenProperties
    <3>5. \A i \in 1 .. rl : r.bytes[i] = c[p + i]
      <4> SUFFICES ASSUME NEW i \in 1 .. rl PROVE r.bytes[i] = c[p + i]
        OBVIOUS
      <4>1. i \in 1 .. (p + rl) - (p + 1) + 1 /\ p + 1 + i - 1 = p + i /\ p + i \in 1 .. size[n]
        BY <1>1, <3>1
      <4> QED
        BY <4>1, <3>1, <3>3, <1>3
    <3>6. r.bytes = [i \in 1 .. rl |-> c[p + i]]
      BY <3>4, <3>5
    <3>7. p + rl <= Abstract!Max2(size[n], p)
      BY <1>1, <3>1 DEF Abstract!Max2
    <3> QED
      BY <1>3, <3>1, <3>4, <3>6, <3>7
  <2>2. CASE ~ (len # 0 /\ p < size[n])
    <3>1. r.x0 = 0 /\ r.bytes = <<>>
      BY <1>1, <2>2 DEF tmpfs_read, Got
    <3> HIDE DEF c
    <3>2. r.bytes = [i \in 1 .. 0 |-> c[p + i]]
      BY <3>1
    <3> QED
      BY <1>1, <1>3, <3>1, <3>2 DEF Abstract!Max2
  <2> QED
    BY <2>1, <2>2
<1>5. ans'.h = h /\ ans'.op = "read" /\ ans'.x0 = r.x0 /\ ans'.bytes = r.bytes
  BY DEF Reply
<1> HIDE DEF c
<1>6. /\ ans'.x0 >= 0 /\ p + ans'.x0 <= Abstract!Max2(Len(c), p)
      /\ ans'.bytes = [i \in 1 .. ans'.x0 |-> c[p + i]]
  <2> HIDE DEF p, n, d, rl
  <2>1. r.x0 >= 0
    BY <1>4
  <2> QED
    BY <1>4, <1>5, <2>1, Zenon
<1>7. f_pos' = [f_pos EXCEPT ![h] = @ + ans'.x0]
  <2>1. Len(r.bytes) = ans'.x0
    BY <1>4, <1>5
  <2> QED
    BY <2>1
<1> QED
  BY <1>1, <1>2, <1>5, <1>6, <1>7, Zenon DEF Abstract!ARead, Content, c, n, p

\* sys_read is ARead, or the business of a device.
LEMMA AbstractSysRead ==
    ASSUME FileInv, NEW h \in Handle, NEW len \in Lengths, sys_read(h, len)
    PROVE  Abstract!ARead(h) \/ Abstract!ADevice(h)
<1>1. len \in Nat /\ Ready(h) /\ ~ Leaves(h, len) /\ UNCHANGED <<vnode, data, size>> /\ Content' = Content
  BY FileIOAssumption, SameContent DEF sys_read
<1>2. CASE KindOf(h) \in {"tmpfs", "initramfs"}
  <2>1. PICK r \in tmpfs_read(h, len) :
           ans' = Reply(h, "read", r.x0, r.bytes) /\ f_pos' = [f_pos EXCEPT ![h] = @ + Len(r.bytes)]
    BY <1>2 DEF sys_read, initramfs_read
  <2> QED
    BY <1>1, <1>2, <2>1, AbstractFileRead
<1>3. CASE KindOf(h) \notin {"tmpfs", "initramfs"}
  <2>1. vnode[h] \notin FileNode
    BY <1>3 DEF FileNode, KindOf
  <2>2. PICK r : f_pos' = [f_pos EXCEPT ![h] = @ + Len(r.bytes)]
    BY DEF sys_read
  <2>3. f_pos' = [f_pos EXCEPT ![h] = f_pos'[h]]
    BY <2>2 DEF FileInv, FileTypes
  <2> QED
    BY <1>1, <2>1, <2>3 DEF Abstract!ADevice, Content
<1> QED
  BY <1>2, <1>3

\* Every step is a step of ByteFile, or invisible.
LEMMA AbstractNext == FileInv /\ FileInv' /\ [Next]_vars => [Abstract!ANext]_Abstract!avars
<1> SUFFICES ASSUME FileInv, FileInv', [Next]_vars PROVE [Abstract!ANext]_Abstract!avars
  OBVIOUS
<1>1. CASE UNCHANGED vars
  <2>1. Content' = Content
    BY <1>1, SameContent DEF vars
  <2> QED
    BY <1>1, <2>1 DEF vars, Abstract!avars, Content
<1>2. ASSUME NEW h \in Handle,
             Abstract!AWrite(h) \/ Abstract!ARead(h) \/ Abstract!ASeek(h)
               \/ Abstract!AFail \/ Abstract!ADevice(h) \/ Abstract!AOpen(h)
      PROVE  Abstract!ANext
  BY <1>2 DEF Abstract!ANext
<1>3. ASSUME NEW h \in Handle, (\E n \in Node : Open(h, n)) \/ Close(h) PROVE Abstract!ANext
  BY <1>2, <1>3, AbstractOpen
<1>4. ASSUME NEW h \in Handle, BadFd(h) PROVE Abstract!ANext
  BY <1>2, <1>4, AbstractBadFd
<1>5. ASSUME NEW h \in Handle, Inside(h) PROVE [Abstract!ANext]_Abstract!avars
  BY <1>2, <1>5, AbstractDouble, AbstractGrow, AbstractCopy DEF Inside
<1>6. ASSUME NEW h \in Handle, NEW b \in Buffers, sys_write(h, b) PROVE [Abstract!ANext]_Abstract!avars
  BY <1>2, <1>6, AbstractSysWrite
<1>7. ASSUME NEW h \in Handle, NEW len \in Lengths, sys_read(h, len) PROVE Abstract!ANext
  BY <1>2, <1>7, AbstractSysRead
<1>8. ASSUME NEW h \in Handle, NEW off \in Offsets, NEW w \in SEEK, sys_lseek64(h, off, w) PROVE Abstract!ANext
  BY <1>2, <1>8, AbstractSeek
<1>9. ASSUME NEW h \in Handle, NEW len \in Lengths, ReadRunsAway(h, len) PROVE UNCHANGED Abstract!avars
  <2>1. Content' = Content /\ UNCHANGED <<vnode, f_pos, ans>>
    BY <1>9, SameContent DEF ReadRunsAway
  <2> QED
    BY <2>1 DEF Abstract!avars, Content
<1> QED
  BY <1>1, <1>3, <1>4, <1>5, <1>6, <1>7, <1>8, <1>9 DEF Next, Halted

\* Whatever the handles do, the files are byte arrays that all handles share: a write
\* changes its own bytes and no others, growing loses nothing, and a read that comes
\* back returns what was written last.
THEOREM FilesAreByteArrays == Spec => ImplementsByteFile
<1>1. Init => Abstract!AInit
  BY AbstractInit
<1>2. FileInv /\ FileInv' /\ [Next]_vars => [Abstract!ANext]_Abstract!avars
  BY AbstractNext
<1> QED
  BY <1>1, <1>2, FileInvariance, PTL DEF Spec, ImplementsByteFile, Abstract!ASpec
=============================================================================
