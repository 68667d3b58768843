-------------------------------- MODULE Vfs ---------------------------------
(***************************************************************************)
(* The name space of the virtual file system: vnodes, mounts, path lookup, *)
(* working directories and descriptor tables.  src/src/fs_vfs.c, the tree  *)
(* part of fs_tmpfs.c and fs_initramfs.c, and the system calls open,       *)
(* close, mkdir, mount and chdir of syscall.c.                             *)
(*                                                                         *)
(* A path is the sequence of the strings between its slashes: "/a" is      *)
(* <<"", "a">>, "/" is <<"", "">> and "a" is <<"a">>.  A vnode is its      *)
(* place in the sequence node, and 0 is NULL; a struct mount is an index   *)
(* of mnt, which holds its root, or FREE while it is not allocated.        *)
(*                                                                         *)
(* System calls run with interrupts enabled, so a thread can be switched   *)
(* away inside one.  The steps of a call are one path component, the check *)
(* and the insertion of a new name, and the three parts of a mount; if     *)
(* Interruptible, other threads run between them.                          *)
(*                                                                         *)
(* The code leaves some memory as it was: the working directory and the    *)
(* descriptors of a forked thread, which the delivery of a signal fills    *)
(* with registers too, and the node of an initramfs root.  A pointer found *)
(* there is NULL, one of the vnodes in Stale, or WILD; when the kernel     *)
(* follows a wild one the model stops (panic).                             *)
(***************************************************************************)
EXTENDS Integers, Sequences, SequencesExt

CONSTANTS Thread,         \* memory blocks for a struct ThreadTask
          Main,           \* the flow of control that boots the kernel
          Archive,        \* the names in the cpio archive
          LongName,       \* names of MAX_FILE_NAME characters or more
          Opens,          \* <<path, O_CREAT?>> pairs that programs open
          Mkdirs, Mounts, Chdirs,     \* paths for the other calls
          FsNames,        \* file system names passed to mount
          MAX_CHILDREN,
          MAX_FD,         \* THREAD_MAX_FD
          MAX_VNODE, MAX_MOUNT,       \* how many the memory has room for
          Forks,          \* do threads fork, handle signals and exit?
          Stale,          \* vnodes that uninitialised memory may point to
          Interruptible

VARIABLES node, mnt,
          boot,           \* the next line of vfs_init
          th,             \* the locals of the call each thread is in
          life,           \* "none", "live", or "astray" after a fork or a signal
          cwd, fd_table,  \* of the threads
          panic           \* "vnode" or "file" when NULL was followed, "wild"

vars == <<node, mnt, boot, th, life, cwd, fd_table, panic>>

NULL == 0
FREE == -1
WILD == -2                \* a pointer to anything else
ROOT == 1                 \* rootfs->root
OK == 0
ENOENT == -2
ENOMEM == -3
EINVAL == -4
EACCES == -6
EEXIST == -7
EINTERR == -8
ENODEV == -9
EBUSY == -11

Registered == {"tmpfs", "initramfs"}
Fd == 0 .. MAX_FD - 1
Vnodes == 1 .. Len(node)
Mount == 1 .. MAX_MOUNT
Garbage == {NULL, WILD} \cup (Stale \cap Vnodes)
Abs(p) == Len(p) > 1 /\ p[1] = ""

ASSUME VfsAssumption ==
    /\ Main \notin Thread
    /\ MAX_CHILDREN \in Nat /\ MAX_FD \in Nat \ {0} /\ MAX_MOUNT \in Nat \ {0}
    /\ Opens \subseteq Seq(STRING) \X BOOLEAN
    /\ Mkdirs \cup Mounts \cup Chdirs \subseteq Seq(STRING) /\ FsNames \subseteq STRING
    /\ \A p \in {o[1] : o \in Opens} \cup Mkdirs \cup Mounts \cup Chdirs : p # <<>>
    \* initramfs_init does not check the number and the names of the files ...
    /\ Archive \in Seq(STRING) /\ Len(Archive) <= MAX_CHILDREN
    /\ \A i, j \in DOMAIN Archive : Archive[i] = Archive[j] => i = j
    \* ... and vfs_init does not check whether its calls succeed.
    /\ MAX_CHILDREN >= 2 /\ MAX_VNODE \in Nat /\ MAX_VNODE >= Len(Archive) + 6
    /\ {"initramfs", "dev", "uart", "framebuffer"} \cap LongName = {}

\* What the provers do not know of the strings written in this module.
ASSUME StringsAssumption ==
    {"", "/", "O_CREAT", "tmpfs", "initramfs", "dev", "uart", "framebuffer"} \subseteq STRING

----------------------------------------------------------------------------
(* Vnodes.                                                                 *)

\* A vnode; isroot is its parent_is_mount, ops its f_ops, kids its children.
NewVnode(fs, type, name, parent, m, isroot) ==
    [fs |-> fs, type |-> type, ops |-> fs, name |-> name, parent |-> parent,
     mount |-> m, isroot |-> isroot, kids |-> <<>>]

\* The roots that a file system's setup_mount can make for a mount on parent.
\* initramfs sets no field of its root's node: type, children, size and data are
\* what the memory held.
tmpfs_setup_mount(parent) == {NewVnode("tmpfs", "dir", "/", parent, 0, TRUE)}
initramfs_setup_mount(parent) ==
    {NewVnode("initramfs", type, "/", parent, 0, TRUE) : type \in {"dir", "file"}}
setup_mount(fs, parent) ==
    IF fs = "tmpfs" THEN tmpfs_setup_mount(parent) ELSE initramfs_setup_mount(parent)

\* The roots with such a node.  A call that looks at its children or its data may
\* follow a wild pointer, or go on if the memory held zeros.
RawRoots == {v \in Vnodes : node[v].fs = "initramfs" /\ node[v].isroot}

\* What a mount point stands for; v itself where nothing is mounted.
Cross(v) == IF node[v].mount = 0 THEN v ELSE mnt[node[v].mount]

\* tmpfs_lookup, initramfs_lookup: the child of d with that name, or NULL.
Child(d, name) ==
    LET hits == {i \in DOMAIN node[d].kids : node[node[d].kids[i]].name = name}
    IN  IF hits = {} THEN NULL ELSE node[d].kids[CHOOSE i \in hits : \A j \in hits : i <= j]

\* Mutant: ".." of a mounted root is the mount point itself.
UpToMountPoint(v) ==
    IF v = ROOT THEN v ELSE node[v].parent

\* "..": from a mounted root, the directory that holds the mount point.
Up(v) ==
    LET p == node[v].parent
    IN  IF v = ROOT THEN v
        ELSE IF p # NULL /\ node[p].mount # 0 /\ mnt[node[p].mount] = v
             THEN IF p = ROOT THEN ROOT ELSE node[p].parent
             ELSE p

----------------------------------------------------------------------------
(* A call in progress.  tgt is what *target holds, res what the lookup     *)
(* returned, dir the directory to create in (-1 while it is looked up),   *)
(* vnode the file to open; of the last answer x0 only its sign is kept.    *)

Idle(x0) == [pc |-> "idle", op |-> "", path |-> <<>>, arg |-> "", rest |-> <<>>, cur |-> NULL,
             tgt |-> NULL, res |-> OK, dir |-> NULL, vnode |-> NULL, fd |-> 0, failed |-> x0 < 0]

Call(op, path, arg) == [Idle(OK) EXCEPT !.op = op, !.path = path, !.arg = arg]

\* Thread t may take a step of a call.
Runs(t) ==
    /\ panic = "no"
    /\ \A u \in (Thread \cup {Main}) \ {t} : Interruptible \/ th[u].pc = "idle"

\* Thread t's locals become r.  The target of sys_chdir's lookup is curr->cwd.
Put(t, r) ==
    /\ th' = [th EXCEPT ![t] = r]
    /\ cwd' = IF r.op = "chdir" THEN [cwd EXCEPT ![t] = r.tgt] ELSE cwd

Return(t, x0) == th' = [th EXCEPT ![t] = Idle(x0)]

\* The working directory that a call reads.  One that is about to follow a wild
\* pointer is the action Stray.
Home(t) == IF cwd[t] = WILD THEN NULL ELSE cwd[t]
Astray(t, p) == cwd[t] = WILD /\ ~ Abs(p)
Between(t) == Runs(t) /\ life[t] # "none" /\ th[t].pc = "idle"

\* The head of vfs_lookup: c is the working directory, read after *target
\* was cleared.
Lookup(r, p, c) ==
    LET start == IF Abs(p) THEN ROOT ELSE c
        found(v) == [r EXCEPT !.pc = "looked", !.tgt = v, !.res = OK]
    IN  CASE start = NULL -> [r EXCEPT !.pc = "looked", !.tgt = NULL, !.res = EINTERR]
          [] start # NULL /\ p = <<"", "">> -> found(ROOT)
          [] start # NULL /\ p \in {<<"">>, <<".">>} -> found(start)
          [] OTHER -> [r EXCEPT !.pc = "walk", !.rest = p, !.cur = start, !.tgt = NULL]

----------------------------------------------------------------------------
(* The loop of vfs_lookup, one component per step (get_next_component      *)
(* skips the empty ones).                                                  *)

WalkEnd(t) ==
    /\ th[t].rest = <<>>
    /\ Put(t, [th[t] EXCEPT !.pc = "looked", !.tgt = th[t].cur, !.res = OK])
    /\ UNCHANGED panic

WalkSkip(t) ==
    /\ th[t].rest # <<>> /\ Head(th[t].rest) \in {"", "."}
    /\ Put(t, [th[t] EXCEPT !.rest = Tail(@)])
    /\ UNCHANGED panic

\* At rootfs->root the loop continues before it stores *target.  cur is NULL when
\* the walk crossed into a mount that is still being set up.
WalkUp(t) ==
    /\ th[t].rest # <<>> /\ Head(th[t].rest) = ".."
    /\ IF th[t].cur = NULL THEN panic' = "vnode" /\ UNCHANGED <<th, cwd>>
       ELSE LET v == Up(th[t].cur) r == [th[t] EXCEPT !.rest = Tail(@)]
            IN  /\ Put(t, IF th[t].cur = ROOT THEN r
                          ELSE IF v = NULL THEN [r EXCEPT !.pc = "looked", !.res = EINTERR]
                          ELSE [r EXCEPT !.cur = v, !.tgt = v])
                /\ UNCHANGED panic

\* Mutant: a mount point that ends a path is not crossed.
DownStops(t) ==
    /\ th[t].rest # <<>> /\ Head(th[t].rest) \notin {"", ".", ".."}
    /\ LET d == IF th[t].cur = NULL THEN NULL ELSE Cross(th[t].cur)
           c == Child(d, Head(th[t].rest))
           failed(e) == [th[t] EXCEPT !.pc = "looked", !.res = e]
       IN  IF d = NULL THEN panic' = "vnode" /\ UNCHANGED <<th, cwd>>
           ELSE /\ Put(t, CASE node[d].type # "dir" -> failed(EACCES)
                            [] node[d].type = "dir" /\ c = NULL -> failed(ENOENT)
                            [] OTHER -> [th[t] EXCEPT !.rest = Tail(@), !.cur = c])
                /\ UNCHANGED panic

WalkDown(t) ==
    /\ th[t].rest # <<>> /\ Head(th[t].rest) \notin {"", ".", ".."}
    /\ LET d == IF th[t].cur = NULL THEN NULL ELSE Cross(th[t].cur)
           c == Child(d, Head(th[t].rest))
           failed(e) == [th[t] EXCEPT !.pc = "looked", !.res = e]
       IN  IF d = NULL THEN panic' = "vnode" /\ UNCHANGED <<th, cwd>>
           ELSE /\ Put(t, CASE node[d].type # "dir" -> failed(EACCES)
                            [] node[d].type = "dir" /\ c = NULL -> failed(ENOENT)
                            [] OTHER -> [th[t] EXCEPT !.rest = Tail(@), !.cur = Cross(c)])
                /\ UNCHANGED panic

\* initramfs_lookup compares with the names of children that are old bytes.
WalkAstray(t) ==
    /\ th[t].rest # <<>> /\ Head(th[t].rest) \notin {"", ".", ".."}
    /\ th[t].cur # NULL /\ Cross(th[t].cur) \in RawRoots /\ node[Cross(th[t].cur)].type = "dir"
    /\ panic' = "wild"
    /\ UNCHANGED <<th, cwd>>

Walk(t) ==
    /\ Runs(t) /\ th[t].pc = "walk"
    /\ WalkEnd(t) \/ WalkSkip(t) \/ WalkUp(t) \/ WalkDown(t) \/ WalkAstray(t)
    /\ UNCHANGED <<node, mnt, boot, life, fd_table>>

----------------------------------------------------------------------------
(* create and mkdir.                                                       *)

\* Looks for the directory in which the last component of p is created:
\* vfs_open and vfs_mkdir, which differ when there is no working directory.
FindParent(r, c) ==
    LET p == r.path
    IN  CASE Len(p) = 1 /\ c # NULL -> [r EXCEPT !.pc = "create", !.dir = c]
          [] Len(p) = 1 /\ c = NULL /\ r.op = "mkdir" -> [r EXCEPT !.pc = "result", !.res = EINTERR]
          [] Len(p) = 1 /\ c = NULL /\ r.op # "mkdir" -> [r EXCEPT !.pc = "create", !.dir = ROOT]
          [] Len(p) = 2 /\ p[1] = "" -> [r EXCEPT !.pc = "create", !.dir = ROOT]
          [] OTHER -> [Lookup(r, Front(p), c) EXCEPT !.dir = -1]

\* The second lookup of a call that creates has ended.
ParentFound(t) ==
    /\ Runs(t) /\ th[t].pc = "looked" /\ th[t].dir = -1
    /\ th' = [th EXCEPT ![t] =
                LET res == IF @.res = OK /\ @.tgt = NULL THEN EACCES ELSE @.res
                IN  IF res = OK THEN [@ EXCEPT !.pc = "create", !.dir = th[t].tgt]
                    ELSE Idle(IF @.op = "open" THEN -res ELSE res)]
    /\ UNCHANGED <<node, mnt, boot, life, cwd, fd_table, panic>>

\* Mutant: the names of the directory are not compared.
CheckBoundOnly(d, name) ==
    IF node[d].type # "dir" THEN EACCES ELSE IF Len(node[d].kids) >= MAX_CHILDREN THEN ENOMEM ELSE OK

\* initramfs_create and initramfs_mkdir refuse.
initramfs_create == EACCES

\* The checks of tmpfs_create_or_mkdir, in order.
tmpfs_create_check(d, name) ==
    IF name = "" THEN EINVAL
    ELSE IF node[d].type # "dir" THEN EACCES
    ELSE IF name \in LongName THEN EINVAL
    ELSE IF Child(d, name) # NULL THEN EEXIST
    ELSE IF Len(node[d].kids) >= MAX_CHILDREN THEN ENOMEM
    ELSE OK

Check(t) ==
    /\ Runs(t) /\ th[t].pc = "create"
    /\ LET res == IF th[t].op = "mkdir" /\ Last(th[t].path) = "" THEN EINVAL
                  ELSE IF node[th[t].dir].fs = "initramfs" THEN initramfs_create
                  ELSE tmpfs_create_check(th[t].dir, Last(th[t].path))
       IN  th' = [th EXCEPT ![t].res = res, ![t].pc = IF res = OK THEN "insert" ELSE "result"]
    /\ UNCHANGED <<node, mnt, boot, life, cwd, fd_table, panic>>

\* Mutant: the child is linked although it was freed.
LinkOnly(d, v) == [node EXCEPT ![d].kids = Append(@, Len(node) + 1)]

\* A new vnode in d.  It takes over the mount of its directory.
AddChild(d, v) == Append([node EXCEPT ![d].kids = Append(@, Len(node) + 1)], v)

Insert(t) ==
    /\ Runs(t) /\ th[t].pc = "insert"
    /\ LET d == th[t].dir
           type == IF th[t].op = "mkdir" THEN "dir" ELSE "file"
       IN  IF Len(node) < MAX_VNODE
           THEN /\ node' = AddChild(d, NewVnode("tmpfs", type, Last(th[t].path), d, node[d].mount, FALSE))
                /\ th' = [th EXCEPT ![t].pc = "result", ![t].vnode = Len(node) + 1]
           ELSE /\ th' = [th EXCEPT ![t].pc = "result", ![t].res = ENOMEM]
                /\ UNCHANGED node
    /\ UNCHANGED <<mnt, boot, life, cwd, fd_table, panic>>

\* vfs_mkdir returns what mkdir returned; vfs_open goes on without looking.
Created(t) ==
    /\ Runs(t) /\ th[t].pc = "result"
    /\ th' = [th EXCEPT ![t] = IF @.op = "mkdir" THEN Idle(@.res) ELSE [@ EXCEPT !.pc = "open"]]
    /\ UNCHANGED <<node, mnt, boot, life, cwd, fd_table, panic>>

----------------------------------------------------------------------------
(* open and close.                                                         *)

FreeFds(t) == {i \in Fd : fd_table[t][i] = NULL}
FirstFd(t) == CHOOSE i \in FreeFds(t) : \A j \in FreeFds(t) : i <= j

\* sys_open with a free descriptor, up to the lookup.
Open(t, o) ==
    /\ Between(t) /\ FreeFds(t) # {} /\ ~ Astray(t, o[1])
    /\ th' = [th EXCEPT ![t] = Lookup([Call("open", o[1], IF o[2] THEN "O_CREAT" ELSE "")
                                         EXCEPT !.fd = FirstFd(t)], o[1], Home(t))]
    /\ UNCHANGED <<node, mnt, boot, life, cwd, fd_table, panic>>

\* The first lookup of vfs_open has ended.
OpenLooked(t) ==
    /\ Runs(t) /\ th[t].pc = "looked" /\ th[t].op \in {"open", "mknod"} /\ th[t].dir # -1
    /\ th' = [th EXCEPT ![t] =
                IF @.res = OK THEN [@ EXCEPT !.pc = "open", !.vnode = th[t].tgt]
                ELSE IF @.arg = "" THEN Idle(-@.res)
                ELSE FindParent(@, Home(t))]
    /\ UNCHANGED <<node, mnt, boot, life, cwd, fd_table, panic>>

\* The end of vfs_open, and for mknod the new f_ops and vfs_close.
OpenFile(t) ==
    /\ Runs(t) /\ th[t].pc = "open"
    /\ LET v == th[t].vnode
       IN  IF v = NULL THEN panic' = "vnode" /\ UNCHANGED <<th, node, fd_table>>
           ELSE IF th[t].op = "mknod"
           THEN /\ node' = [node EXCEPT ![v].ops = th[t].arg]
                /\ Return(t, OK)
                /\ UNCHANGED <<fd_table, panic>>
           ELSE /\ fd_table' = [fd_table EXCEPT ![t][th[t].fd] = v]
                /\ Return(t, th[t].fd)
                /\ UNCHANGED <<node, panic>>
    /\ UNCHANGED <<mnt, boot, life, cwd>>

\* sys_close.
Close(t, i) ==
    /\ Between(t) /\ fd_table[t][i] # WILD
    /\ fd_table' = [fd_table EXCEPT ![t][i] = NULL]
    /\ Return(t, IF fd_table[t][i] = NULL THEN EINVAL ELSE OK)
    /\ UNCHANGED <<node, mnt, boot, life, cwd, panic>>

\* The heads of sys_write and sys_read: the file is followed without a look.
Use(t, i) ==
    /\ Between(t) /\ fd_table[t][i] = NULL
    /\ panic' = "file"
    /\ UNCHANGED <<node, mnt, boot, th, life, cwd, fd_table>>

----------------------------------------------------------------------------
(* mkdir, mount and chdir.                                                 *)

Mkdir(t, p) ==
    /\ Between(t) /\ ~ Astray(t, p)
    /\ th' = [th EXCEPT ![t] = FindParent(Call("mkdir", p, ""), Home(t))]
    /\ UNCHANGED <<node, mnt, boot, life, cwd, fd_table, panic>>

\* sys_mount and vfs_mount up to the lookup.
MountCall(t, p, fs) ==
    th' = [th EXCEPT ![t] = IF fs \in Registered THEN Lookup(Call("mount", p, fs), p, Home(t))
                            ELSE Idle(ENODEV)]

DoMount(t, p, fs) ==
    /\ Between(t) /\ ~ (fs \in Registered /\ Astray(t, p))
    /\ MountCall(t, p, fs)
    /\ UNCHANGED <<node, mnt, boot, life, cwd, fd_table, panic>>

Busy(v) == node[v].mount # 0 \/ node[v].isroot

MountLooked(t) ==
    /\ Runs(t) /\ th[t].pc = "looked" /\ th[t].op = "mount"
    /\ IF th[t].res = OK /\ th[t].tgt = NULL THEN panic' = "vnode" /\ UNCHANGED th
       ELSE /\ th' = [th EXCEPT ![t] = IF @.res # OK THEN Idle(@.res)
                                       ELSE IF Busy(@.tgt) THEN Idle(EBUSY)
                                       ELSE [@ EXCEPT !.pc = "mount"]]
            /\ UNCHANGED panic
    /\ UNCHANGED <<node, mnt, boot, life, cwd, fd_table>>

\* The struct mount is allocated and stored, its root still NULL.
MountSet(t) ==
    /\ Runs(t) /\ th[t].pc = "mount"
    /\ IF \E m \in Mount : mnt[m] = FREE
       THEN LET m == CHOOSE m \in Mount : mnt[m] = FREE
            IN  /\ mnt' = [mnt EXCEPT ![m] = NULL]
                /\ node' = [node EXCEPT ![th[t].tgt].mount = m]
                /\ th' = [th EXCEPT ![t].pc = "setup", ![t].cur = m]
       ELSE Return(t, ENOMEM) /\ UNCHANGED <<mnt, node>>
    /\ UNCHANGED <<boot, life, cwd, fd_table, panic>>

\* Mutant: a failed setup leaves the mount point as it is.
SetupLeaves(t) ==
    /\ Runs(t) /\ th[t].pc = "setup"
    /\ IF Len(node) < MAX_VNODE
       THEN /\ \E root \in setup_mount(th[t].arg, th[t].tgt) : node' = Append(node, root)
            /\ mnt' = [mnt EXCEPT ![th[t].cur] = Len(node) + 1]
            /\ Return(t, OK)
       ELSE Return(t, ENOMEM) /\ UNCHANGED <<node, mnt>>
    /\ UNCHANGED <<boot, life, cwd, fd_table, panic>>

\* setup_mount and what follows it.
MountSetup(t) ==
    /\ Runs(t) /\ th[t].pc = "setup"
    /\ IF Len(node) < MAX_VNODE
       THEN /\ \E root \in setup_mount(th[t].arg, th[t].tgt) : node' = Append(node, root)
            /\ mnt' = [mnt EXCEPT ![th[t].cur] = Len(node) + 1]
            /\ Return(t, OK)
       ELSE /\ node' = [node EXCEPT ![th[t].tgt].mount = 0]
            /\ mnt' = [mnt EXCEPT ![th[t].cur] = FREE]
            /\ Return(t, ENOMEM) 
    /\ UNCHANGED <<boot, life, cwd, fd_table, panic>>

Chdir(t, p) ==
    /\ Between(t)
    /\ Put(t, Lookup(Call("chdir", p, ""), p, NULL))
    /\ UNCHANGED <<node, mnt, boot, life, fd_table, panic>>

ChdirLooked(t) ==
    /\ Runs(t) /\ th[t].pc = "looked" /\ th[t].op = "chdir"
    /\ Return(t, th[t].res)
    /\ UNCHANGED <<node, mnt, boot, life, cwd, fd_table, panic>>

----------------------------------------------------------------------------
(* A whole lookup at once, from the directory v: what the walk computes.   *)

NextVnode(c, x) ==
    CASE c = NULL -> NULL
      [] c # NULL /\ x \in {"", "."} -> c
      [] c # NULL /\ x = ".." -> Up(c)
      [] OTHER -> LET d == Cross(c) k == IF d = NULL THEN NULL ELSE Child(d, x)
                  IN  IF k = NULL THEN NULL ELSE IF node[d].type # "dir" THEN NULL ELSE Cross(k)

\* The vnode after each component.
Trail(p, v) ==
    LET at[i \in 0 .. Len(p)] == IF i = 0 THEN IF Abs(p) THEN ROOT ELSE v
                                 ELSE NextVnode(at[i - 1], p[i])
    IN  at

Resolve(p, v) ==
    Trail(p, v)[Len(p)]

(* Threads.                                                                *)

\* thread_create, in the shell and in exec.
Create(u) ==
    /\ panic = "no" /\ boot = 7 /\ th[Main].pc = "idle" /\ life[u] = "none"
    /\ life' = [life EXCEPT ![u] = "live"]
    /\ cwd' = [cwd EXCEPT ![u] = ROOT]
    /\ LET uart == Resolve(<<"", "dev", "uart">>, ROOT)
       IN  fd_table' = [fd_table EXCEPT ![u] = [i \in Fd |-> IF i < 3 THEN uart ELSE NULL]]
    /\ UNCHANGED <<node, mnt, boot, th, panic>>

\* The working directory and the descriptors of t become whatever there is.
Scramble(t) ==
    /\ life' = [life EXCEPT ![t] = "astray"]
    /\ \E c \in Garbage : cwd' = [cwd EXCEPT ![t] = c]
    /\ \E fds \in [Fd -> Garbage] : fd_table' = [fd_table EXCEPT ![t] = fds]
    /\ UNCHANGED <<node, mnt, boot, th, panic>>

\* sys_fork sets neither the child's working directory nor its descriptors: they
\* are what the page held before.
Fork(t, u) == Forks /\ Between(t) /\ life[u] = "none" /\ Scramble(u)

\* The delivery of a signal with a custom handler copies a whole trap frame over the
\* pointer sig_frame and the fields behind it.
handle_signal(t) == Forks /\ Between(t) /\ Scramble(t)

\* _exit closes nothing.
Exit(t) ==
    /\ Forks /\ panic = "no" /\ life[t] # "none" /\ th[t].pc = "idle"
    /\ life' = [life EXCEPT ![t] = "none"]
    /\ cwd' = [cwd EXCEPT ![t] = NULL]
    /\ fd_table' = [fd_table EXCEPT ![t] = [i \in Fd |-> NULL]]
    /\ th' = [th EXCEPT ![t] = Idle(OK)]
    /\ UNCHANGED <<node, mnt, boot, panic>>

\* A call follows a wild working directory or descriptor, or reads a file that is
\* an initramfs root with an old size and an old buffer.
Stray(t) ==
    /\ Between(t)
    /\ \/ \E o \in Opens : Astray(t, o[1]) /\ FreeFds(t) # {}
       \/ \E p \in Mkdirs : Astray(t, p)
       \/ \E p \in Mounts, fs \in FsNames \cap Registered : Astray(t, p)
       \/ \E i \in Fd : fd_table[t][i] = WILD
       \/ \E i \in Fd : fd_table[t][i] \in RawRoots /\ node[fd_table[t][i]].type = "file"
    /\ panic' = "wild"
    /\ UNCHANGED <<node, mnt, boot, th, life, cwd, fd_table>>

----------------------------------------------------------------------------
(* vfs_init.                                                               *)

\* initramfs_init: a vnode for every file of the archive.  It does not set the number
\* of children first, so they may go anywhere (BootAstray).
ArchiveVnodes(d) ==
    LET n == Len(node)
    IN  [node EXCEPT ![d].type = "dir", ![d].kids = [i \in 1 .. Len(Archive) |-> n + i]]
        \o [i \in 1 .. Len(Archive) |-> NewVnode("initramfs", "file", Archive[i], d, 0, FALSE)]

BootAstray ==
    /\ Runs(Main) /\ th[Main].pc = "idle" /\ boot = 3
    /\ Resolve(<<"", "initramfs">>, ROOT) \in RawRoots
    /\ panic' = "wild"
    /\ UNCHANGED <<node, mnt, boot, th, life, cwd, fd_table>>

Boot ==
    /\ Runs(Main) /\ th[Main].pc = "idle" /\ boot < 7
    /\ boot' = boot + 1
    /\ CASE boot \in {1, 4} ->
              /\ th' = [th EXCEPT ![Main] =
                          FindParent(Call("mkdir", <<"", IF boot = 1 THEN "initramfs" ELSE "dev">>, ""), NULL)]
              /\ UNCHANGED node
         [] boot = 2 -> MountCall(Main, <<"", "initramfs">>, "initramfs") /\ UNCHANGED node
         [] boot = 3 -> node' = ArchiveVnodes(Resolve(<<"", "initramfs">>, ROOT)) /\ UNCHANGED th
         [] OTHER -> LET dev == IF boot = 5 THEN "uart" ELSE "framebuffer"
                         p == <<"", "dev", dev>>
                     IN  th' = [th EXCEPT ![Main] = Lookup(Call("mknod", p, dev), p, NULL)] /\ UNCHANGED node
    /\ UNCHANGED <<mnt, life, cwd, fd_table, panic>>

\* After rootfs was set up.  A thread that does not exist has no pointers.
Init ==
    /\ \E root \in tmpfs_setup_mount(NULL) : node = <<root>>
    /\ mnt = [m \in Mount |-> FREE]
    /\ boot = 1
    /\ th = [t \in Thread \cup {Main} |-> Idle(OK)]
    /\ life = [t \in Thread |-> "none"]
    /\ cwd = [t \in Thread \cup {Main} |-> NULL]
    /\ fd_table = [t \in Thread |-> [i \in Fd |-> NULL]]
    /\ panic = "no"

\* What the kernel does after it followed a bad pointer is not modelled.
Halted == panic # "no" /\ UNCHANGED vars

Syscall(t) ==
    \/ \E o \in Opens : Open(t, o)
    \/ \E i \in Fd : Close(t, i) \/ Use(t, i)
    \/ \E p \in Mkdirs : Mkdir(t, p)
    \/ \E p \in Mounts, fs \in FsNames : DoMount(t, p, fs)
    \/ \E p \in Chdirs : Chdir(t, p)
    \/ \E u \in Thread : Fork(t, u)
    \/ handle_signal(t) \/ Exit(t) \/ Stray(t)

Inside(t) ==
    \/ Walk(t) \/ ParentFound(t) \/ Check(t) \/ Insert(t) \/ Created(t)
    \/ OpenLooked(t) \/ OpenFile(t)
    \/ MountLooked(t) \/ MountSet(t) \/ MountSetup(t)
    \/ ChdirLooked(t)

Next ==
    \/ Boot \/ BootAstray
    \/ Halted
    \/ \E t \in Thread : Create(t) \/ Syscall(t)
    \/ \E t \in Thread \cup {Main} : Inside(t)

Spec == Init /\ [][Next]_vars

----------------------------------------------------------------------------
(* Properties.                                                             *)

Vnode == [fs : Registered, type : {"dir", "file"}, ops : STRING, name : STRING,
          parent : Nat, mount : 0 .. MAX_MOUNT, isroot : BOOLEAN, kids : Seq(Nat)]

\* The pointers of the tree and of the mounts are NULL or a vnode that exists, and
\* so are the working directory and the descriptors of a thread that was created
\* and has had no signal: no bytes of a fork, of a handler or of an initramfs root
\* get into the tree or into another thread.
TypeOK ==
    LET Ptr == {NULL} \cup Vnodes
    IN  /\ Len(node) <= MAX_VNODE
        /\ \A v \in Vnodes : /\ node[v] \in Vnode /\ node[v].parent \in Ptr
                             /\ \A i \in DOMAIN node[v].kids : node[v].kids[i] \in Vnodes
        /\ mnt \in [Mount -> Ptr \cup {FREE}]
        /\ life \in [Thread -> {"none", "live", "astray"}]
        /\ cwd \in [Thread \cup {Main} -> Ptr \cup {WILD}] /\ fd_table \in [Thread -> [Fd -> Ptr \cup {WILD}]]
        /\ \A t \in Thread : life[t] # "astray" => cwd[t] # WILD /\ \A i \in Fd : fd_table[t][i] # WILD
        /\ boot \in 1 .. 7 /\ panic \in {"no", "vnode", "file", "wild"}

\* tmpfs_create_or_mkdir's checks keep every directory a map from names to
\* vnodes: no name twice, never more than children[] has room for, and each
\* child knows its directory.  (Of an initramfs root these are the children that
\* were put there; what old bytes its node adds is left to WalkAstray.)
DirectoryOK ==
    \A d \in Vnodes :
        LET kids == node[d].kids
        IN  /\ Len(kids) <= MAX_CHILDREN
            /\ \A i, j \in DOMAIN kids : node[kids[i]].name = node[kids[j]].name => i = j
            /\ \A i \in DOMAIN kids : node[kids[i]].parent = d

\* The mount table and the parent pointers agree: a mounted root is what its
\* mount point stands for, and ".." from whatever a name of a directory leads
\* to, across a mount or not, comes back to that directory.
DotDotInverts ==
    /\ \A r \in Vnodes \ {ROOT} : node[r].isroot => Cross(node[r].parent) = r
    /\ \A d \in Vnodes : node[d].mount = 0 =>
          \A i \in DOMAIN node[d].kids :
              LET c == Cross(node[d].kids[i]) IN c # NULL => Up(c) = d

\* The only NULL vnode the kernel follows is that of a create which failed and
\* whose result vfs_open ignores; no lookup and no mount follows one.  A wild
\* pointer it follows only for a thread that was forked or has had a signal, or
\* in the node of an initramfs root.
OnlyFailedCreateIsNull ==
    /\ panic = "vnode" => \E t \in Thread : th[t].pc = "open" /\ th[t].res # OK /\ th[t].arg = "O_CREAT"
    /\ panic = "wild" =>
          \/ \E t \in Thread : life[t] = "astray"
          \/ boot = 3
          \/ \E t \in Thread \cup {Main} : th[t].pc = "walk" /\ Cross(th[t].cur) \in RawRoots
          \/ \E t \in Thread, i \in Fd : fd_table[t][i] \in RawRoots

\* The vnode that vfs_open hands to the file system is the one its path names
\* when the call is over, new files included.  Left out are the two cases in
\* which vfs_open creates elsewhere than vfs_lookup looks: no working
\* directory, and a directory that something is mounted on.
OpenFindsIt ==
    \A t \in Thread :
        /\ th[t].pc = "open" /\ th[t].vnode # NULL /\ (Abs(th[t].path) \/ Home(t) # NULL)
        /\ th[t].dir > 0 => node[th[t].dir].mount = 0
        => Resolve(th[t].path, Home(t)) = th[t].vnode
=============================================================================
