----------------------------- MODULE VfsProofs ------------------------------
(***************************************************************************)
(* Proofs about Vfs, for every set of threads, paths and archive, if one   *)
(* system call runs at a time and whatever forks and signals leave in the  *)
(* threads: the tree stays a tree, mounts and ".." are inverse, no lookup  *)
(* follows a NULL vnode, and open reaches the vnode its path names.        *)
(***************************************************************************)
EXTENDS Vfs, WellFoundedInduction, TLAPS

-----------------------------------------------------------------------------
(* The inductive invariant *)

Flow == Thread \cup {Main}
Ptr == {NULL} \cup Vnodes
Dirs == Ptr \cup {WILD}

\* The pointers of a thread that was created and has had no signal are not wild.
Tidy == \A t \in Thread : life[t] # "astray" => cwd[t] # WILD /\ \A i \in Fd : fd_table[t][i] # WILD

Local == [pc : {"idle", "walk", "looked", "create", "insert", "result", "open", "mount", "setup"},
          op : {"", "open", "mkdir", "mount", "chdir", "mknod"},
          path : Seq(STRING), arg : STRING, rest : Seq(STRING), cur : Nat, tgt : Nat,
          res : Int, dir : Int, vnode : Nat, fd : Fd, failed : BOOLEAN]

VTypes ==
    /\ TypeOK
    /\ node \in Seq(Vnode) /\ node # <<>>
    /\ th \in [Flow -> Local]
    /\ life \in [Thread -> {"none", "live", "astray"}]

\* rootfs has no parent and is never mounted on; every other vnode has a parent.
RootOK ==
    /\ node[ROOT].parent = NULL /\ node[ROOT].isroot
    /\ \A v \in Vnodes \ {ROOT} : node[v].parent \in Vnodes
    /\ \A v \in Vnodes : node[v].isroot => node[v].mount = 0

\* A mount of which the root is not set up yet belongs to a call.
InSetup(m) == \E t \in Flow : th[t].pc = "setup" /\ th[t].cur = m

\* Root and mount point know each other.  A vnode that was made in a directory after
\* something was mounted on it points to the mount of its directory.
MountsOK ==
    /\ \A r \in Vnodes \ {ROOT} : node[r].isroot =>
          node[node[r].parent].mount # 0 /\ mnt[node[node[r].parent].mount] = r
    /\ \A v \in Vnodes : node[v].mount # 0 =>
          /\ mnt[node[v].mount] # FREE
          /\ \/ mnt[node[v].mount] = NULL
             \/ mnt[node[v].mount] # NULL /\ node[mnt[node[v].mount]].parent = v
             \/ v # ROOT /\ node[node[v].parent].mount = node[v].mount
    /\ \A m \in Mount : mnt[m] = NULL => InSetup(m)

Tree == DirectoryOK /\ RootOK /\ MountsOK

\* One call at a time, by a thread that is alive.  Only vfs_init calls mknod.
OneCall ==
    \A t \in Flow : th[t].pc # "idle" =>
        /\ \A u \in Flow \ {t} : th[u].pc = "idle"
        /\ t \in Thread => life[t] # "none" /\ th[t].op # "mknod"

\* What a call knows at each point.
CallOK(r) ==
    /\ r.pc # "idle" => Len(r.path) > 0 /\ r.op # ""
    /\ r.op = "open" => r.arg \in {"", "O_CREAT"}
    /\ r.op = "mount" => r.arg \in Registered
    /\ r.dir # NULL /\ r.op = "open" => r.arg = "O_CREAT"
    /\ r.tgt \in Ptr /\ r.vnode \in Ptr
    /\ r.pc = "walk" => r.cur \in Vnodes
    /\ r.pc = "looked" /\ r.res = OK => r.tgt \in Vnodes
    /\ r.pc \in {"walk", "looked"} => /\ r.vnode = NULL /\ r.dir \in {NULL, -1}
                                      /\ r.dir = -1 => r.op \in {"open", "mkdir", "mknod"}
                                      /\ r.op = "mkdir" => r.dir = -1
    /\ r.pc \in {"create", "insert"} => /\ r.dir \in Vnodes /\ r.vnode = NULL
                                        /\ r.op \in {"open", "mkdir", "mknod"}
    /\ r.pc = "insert" =>
          /\ node[r.dir].type = "dir" /\ Last(r.path) # ""
          /\ Child(r.dir, Last(r.path)) = NULL
          /\ Len(node[r.dir].kids) < MAX_CHILDREN
    /\ r.pc = "result" => r.op \in {"open", "mkdir", "mknod"}
    /\ r.pc = "open" => r.op \in {"open", "mknod"}
    /\ r.pc \in {"result", "open"} /\ r.vnode = NULL => r.res # OK
    /\ r.pc = "open" /\ r.vnode = NULL => r.dir # NULL
    /\ r.pc = "result" /\ r.op # "mkdir" => r.dir # NULL
    /\ r.pc = "mount" => r.tgt \in Vnodes /\ ~ Busy(r.tgt) /\ r.op = "mount"
    /\ r.pc = "setup" => /\ r.tgt \in Vnodes /\ r.cur \in Mount /\ r.op = "mount"
                         /\ mnt[r.cur] = NULL /\ ~ node[r.tgt].isroot
                         /\ \A v \in Vnodes : node[v].mount = r.cur <=> v = r.tgt

CallsOK == \A t \in Flow : CallOK(th[t])

\* Where the kernel follows a NULL or a wild vnode.
PanicOK == OnlyFailedCreateIsNull

TreeInv == VTypes /\ Tree /\ OneCall /\ CallsOK

-----------------------------------------------------------------------------
(* vfs_init *)

ArchiveLen == Len(Archive)
InitRoot == 2                      \* /initramfs
MountedRoot == 3                   \* what is mounted there
Dev == ArchiveLen + 4              \* /dev
Uart == ArchiveLen + 5             \* /dev/uart

\* The tree after the first k of: /initramfs, its mount, the archive, /dev, /dev/uart.
Built(k) ==
    /\ Len(node) = CASE k = 0 -> 1 [] k = 1 -> 2 [] k = 2 -> 3 [] OTHER -> ArchiveLen + k
    /\ node[ROOT].fs = "tmpfs" /\ node[ROOT].type = "dir" /\ node[ROOT].mount = 0
    /\ node[ROOT].kids = CASE k = 0 -> <<>> [] k \in 1 .. 3 -> <<InitRoot>> [] OTHER -> <<InitRoot, Dev>>
    /\ k < 2 => \A m \in Mount : mnt[m] \in {NULL, FREE}
    /\ k > 0 => node[InitRoot].name = "initramfs"
    /\ k = 1 => ~ node[InitRoot].isroot
    /\ k = 2 => node[InitRoot].mount # 0 /\ mnt[node[InitRoot].mount] = MountedRoot /\ node[MountedRoot].kids = <<>>
    /\ k > 3 => /\ node[Dev].name = "dev" /\ node[Dev].fs = "tmpfs" /\ node[Dev].type = "dir"
                /\ node[Dev].mount = 0 /\ node[Dev].kids = IF k = 4 THEN <<>> ELSE <<Uart>>
    /\ k > 4 => node[Uart].name = "uart"

InitPath == <<"", "initramfs">>
DevPath == <<"", "dev">>
FilePath(dev) == <<"", "dev", dev>>

\* Main makes directory name with k objects built.
MkdirStage(r, p, k) ==
    \/ r.pc \in {"create", "insert"} /\ r.op = "mkdir" /\ r.path = p /\ r.dir = ROOT /\ Built(k)
    \/ r.pc = "result" /\ r.op = "mkdir" /\ Built(k + 1)
    \/ r.pc = "idle" /\ Built(k + 1)

\* Main mounts the archive on it.
MountStage(r) ==
    \/ /\ r.op = "mount" /\ r.arg = "initramfs" /\ r.path = InitPath /\ Built(1)
       /\ r.pc \in {"walk", "looked", "mount", "setup"}
       /\ r.pc \in {"mount", "setup"} => r.tgt = InitRoot
       /\ r.pc # "setup" => node[InitRoot].mount = 0
    \/ r.pc = "idle" /\ Built(2)

\* Main makes a device file.
MknodStage(r, dev, k) ==
    \/ /\ r.op = "mknod" /\ r.arg = dev /\ r.path = FilePath(dev) /\ Built(k)
       /\ r.pc \in {"walk", "looked", "create", "insert"}
       /\ r.pc \in {"create", "insert"} => r.dir = Dev
    \/ r.op = "mknod" /\ r.pc \in {"result", "open"} /\ r.vnode # NULL /\ (k = 4 => Built(k + 1))
    \/ r.pc = "idle" /\ (k = 4 => Built(k + 1))

Stage(b, r) ==
    /\ b = 1 => r.pc = "idle" /\ Built(0)
    /\ b = 2 => MkdirStage(r, InitPath, 0)
    /\ b = 3 => MountStage(r)
    /\ b = 4 => r.pc = "idle" /\ Built(3)
    /\ b = 5 => MkdirStage(r, DevPath, 3)
    /\ b = 6 => MknodStage(r, "uart", 4)
    /\ b = 7 => MknodStage(r, "framebuffer", 5)

\* How far vfs_init got.
BootOK ==
    /\ boot < 7 \/ th[Main].pc # "idle" => \A t \in Thread : life[t] = "none"
    /\ Home(Main) = NULL
    /\ Stage(boot, th[Main])

-----------------------------------------------------------------------------
(* What a call has found out so far *)

Follows(r, q, c) ==
    \E k \in 0 .. Len(q) : r.rest = SubSeq(q, k + 1, Len(q)) /\ Trail(q, c)[k] = r.cur

Found(r, q, c) == Resolve(q, c) = IF r.res = OK THEN r.tgt ELSE NULL

\* The path of the lookup that r is in.
Sought(r) == IF r.dir = -1 THEN Front(r.path) ELSE r.path

FindOK(r, c) ==
    r.op # "chdir" =>
      /\ r.pc = "walk" => Follows(r, Sought(r), c)
      /\ r.pc = "looked" => Found(r, Sought(r), c)
      /\ r.pc \in {"walk", "looked"} /\ r.dir = -1 =>
            Len(r.path) > 1 /\ ~ (Len(r.path) = 2 /\ Abs(r.path))
      /\ r.pc \in {"create", "insert"} /\ (Abs(r.path) \/ c # NULL) => r.dir = Trail(r.path, c)[Len(r.path) - 1]
      /\ r.pc \in {"walk", "looked", "create", "insert"} /\ r.dir # NULL /\ r.op # "mkdir" =>
            Resolve(r.path, c) = NULL
      /\ /\ r.pc \in {"result", "open"} /\ r.op # "mkdir" /\ r.vnode # NULL /\ (Abs(r.path) \/ c # NULL)
         /\ r.dir > 0 => node[r.dir].mount = 0
         => Resolve(r.path, c) = r.vnode

FindInv == \A t \in Flow : FindOK(th[t], Home(t))

VInv == TreeInv /\ BootOK /\ PanicOK /\ FindInv

-----------------------------------------------------------------------------
(* Operators of the model *)

\* The codes are numbers, and errors differ from OK.
LEMMA Codes ==
    /\ NULL \in Nat /\ ROOT \in Nat /\ ROOT # NULL /\ OK \in Int /\ NULL \in Int /\ ROOT \in Int
    /\ {ENOENT, ENOMEM, EINVAL, EACCES, EEXIST, EINTERR, ENODEV, EBUSY} \subseteq Int \ {OK}
    /\ FREE \in Int /\ FREE # NULL /\ FREE \notin Nat
  BY DEF NULL, ROOT, OK, ENOENT, ENOMEM, EINVAL, EACCES, EEXIST, EINTERR, ENODEV, EBUSY, FREE

\* The constants.
LEMMA Constants ==
    /\ Main \notin Thread /\ MAX_CHILDREN \in Nat /\ MAX_FD \in Nat \ {0} /\ MAX_MOUNT \in Nat \ {0}
    /\ MAX_VNODE \in Nat /\ MAX_CHILDREN >= 2 /\ Archive \in Seq(STRING)
    /\ ArchiveLen \in Nat /\ ArchiveLen <= MAX_CHILDREN /\ MAX_VNODE >= ArchiveLen + 6
    /\ \A m \in Mount : m \in Nat \ {0}
    /\ 0 \in Fd
  BY VfsAssumption DEF ArchiveLen, Mount, Fd

\* The strings written in the model.
LEMMA Strings ==
    /\ "" \in STRING /\ "/" \in STRING /\ "O_CREAT" \in STRING /\ "tmpfs" \in STRING
    /\ "initramfs" \in STRING /\ "dev" \in STRING /\ "uart" \in STRING /\ "framebuffer" \in STRING
  BY StringsAssumption

\* A set of numbers has a least element.
LEMMA Least ==
    ASSUME NEW T, T \subseteq Nat, T # {}
    PROVE  \E n \in T : \A m \in T : n <= m
<1>1. PICK n \in T : \A m \in T : ~ (<<m, n>> \in OpToRel(<, Nat))
  BY NatLessThanWellFounded, WFMin, Zenon
<1>2. \A m \in T : ~ (m < n)
  BY <1>1 DEF OpToRel
<1> QED
  BY <1>2

\* What the vnodes are.
LEMMA NodeFacts ==
    ASSUME VTypes
    PROVE  /\ node \in Seq(Vnode) /\ Len(node) \in Nat \ {0} /\ Len(node) <= MAX_VNODE
           /\ DOMAIN node = Vnodes /\ Vnodes = 1 .. Len(node) /\ ROOT \in Vnodes
           /\ \A v \in Vnodes : v \in Nat /\ v # NULL
           /\ \A v \in Vnodes : /\ node[v] \in Vnode /\ node[v].parent \in Ptr
                                /\ node[v].mount \in 0 .. MAX_MOUNT /\ node[v].kids \in Seq(Nat)
                                /\ \A i \in DOMAIN node[v].kids : node[v].kids[i] \in Vnodes
           /\ mnt \in [Mount -> Ptr \cup {FREE}]
<1>1. node \in Seq(Vnode) /\ node # <<>>
  BY DEF VTypes
<1>2. Len(node) \in Nat \ {0} /\ DOMAIN node = 1 .. Len(node) /\ Len(node) <= MAX_VNODE
  BY <1>1 DEF VTypes, TypeOK
<1>3. \A v \in Vnodes : node[v] \in Vnode /\ node[v].parent \in Ptr
         /\ \A i \in DOMAIN node[v].kids : node[v].kids[i] \in Vnodes
  BY DEF VTypes, TypeOK, Ptr, Dirs, Tidy
<1>4. \A v \in Vnodes : node[v].mount \in 0 .. MAX_MOUNT /\ node[v].kids \in Seq(Nat)
  BY <1>3 DEF Vnode
<1>5. mnt \in [Mount -> Ptr \cup {FREE}]
  BY DEF VTypes, TypeOK, Ptr, Dirs, Tidy
<1>6. Vnodes = 1 .. Len(node) /\ ROOT \in Vnodes /\ \A v \in Vnodes : v \in Nat /\ v # NULL
  BY <1>2 DEF Vnodes, ROOT, NULL
<1> QED
  BY <1>1, <1>2, <1>3, <1>4, <1>5, <1>6

\* The vnodes after each component of a path are a function, although it is defined
\* by itself.
LEMMA TrailExists ==
    ASSUME NEW p \in Seq(STRING), NEW v
    PROVE  \E f : f = [i \in 0 .. Len(p) |-> IF i = 0 THEN IF Abs(p) THEN ROOT ELSE v
                                              ELSE NextVnode(f[i - 1], p[i])]
<1> DEFINE s == IF Abs(p) THEN ROOT ELSE v
           F(f, n) == f = [i \in 0 .. n |-> IF i = 0 THEN s ELSE NextVnode(f[i - 1], p[i])]
           T == {n \in Nat : ~ \E f : F(f, n)}
<1> HIDE DEF s
<1>1. T = {}
  <2> SUFFICES ASSUME T # {} PROVE FALSE
    OBVIOUS
  <2>1. PICK n \in T : \A m \in T : n <= m
    <3>1. T \subseteq Nat
      OBVIOUS
    <3> HIDE DEF T
    <3> QED
      BY <3>1, Least
  <2>2. n # 0
    <3>1. F([i \in 0 .. 0 |-> s], 0)
      OBVIOUS
    <3> QED
      BY <3>1
  <2>3. n - 1 \in Nat /\ n - 1 \notin T
    <3>1. n \in Nat
      BY <2>1
    <3> HIDE DEF T
    <3> QED
      BY <2>1, <2>2, <3>1
  <2>4. PICK f : F(f, n - 1)
    BY <2>3
  <2> DEFINE g == [i \in 0 .. n |-> IF i = n THEN NextVnode(f[n - 1], p[n]) ELSE f[i]]
             h == [i \in 0 .. n |-> IF i = 0 THEN s ELSE NextVnode(g[i - 1], p[i])]
  <2>5. ASSUME NEW i \in 0 .. n PROVE g[i] = h[i]
    <3>1. CASE i = 0
      BY <3>1, <2>2, <2>3, <2>4
    <3>2. CASE i # 0 /\ i # n
      <4>1. i - 1 \in 0 .. n - 1 /\ i \in 0 .. n - 1 /\ i - 1 # n /\ i - 1 \in 0 .. n
        BY <3>2, <2>3
      <4>2. g[i - 1] = f[i - 1] /\ g[i] = f[i]
        BY <3>2, <4>1
      <4>3. f[i] = NextVnode(f[i - 1], p[i])
        BY <2>4, <3>2, <4>1
      <4> QED
        BY <3>2, <4>2, <4>3
    <3>3. CASE i = n
      <4>1. n - 1 \in 0 .. n /\ n - 1 # n
        BY <2>3
      <4>2. g[n - 1] = f[n - 1] /\ g[n] = NextVnode(f[n - 1], p[n])
        BY <4>1
      <4> QED
        BY <2>2, <3>3, <4>2
    <3> QED
      BY <3>1, <3>2, <3>3
  <2>6. g = h
    BY <2>5
  <2>7. F(g, n)
    BY <2>6
  <2> QED
    BY <2>1, <2>7
<1>2. Len(p) \notin T /\ Len(p) \in Nat
  BY <1>1
<1>3. \E f : F(f, Len(p))
  BY <1>2
<1> QED
  BY <1>3 DEF s

\* The vnode after each component.
LEMMA TrailFacts ==
    \A p \in Seq(STRING) : \A v :
        /\ Trail(p, v)[0] = IF Abs(p) THEN ROOT ELSE v
        /\ \A i \in 1 .. Len(p) : Trail(p, v)[i] = NextVnode(Trail(p, v)[i - 1], p[i])
<1> SUFFICES ASSUME NEW p \in Seq(STRING), NEW v
             PROVE  /\ Trail(p, v)[0] = IF Abs(p) THEN ROOT ELSE v
                    /\ \A i \in 1 .. Len(p) : Trail(p, v)[i] = NextVnode(Trail(p, v)[i - 1], p[i])
  OBVIOUS
<1>1. Trail(p, v) = CHOOSE f : f = [i \in 0 .. Len(p) |-> IF i = 0 THEN IF Abs(p) THEN ROOT ELSE v
                                                          ELSE NextVnode(f[i - 1], p[i])]
  BY Zenon DEF Trail
<1>2. \E f : f = [i \in 0 .. Len(p) |-> IF i = 0 THEN IF Abs(p) THEN ROOT ELSE v
                                         ELSE NextVnode(f[i - 1], p[i])]
  BY TrailExists
<1> DEFINE g == Trail(p, v)
<1>3. g = [i \in 0 .. Len(p) |-> IF i = 0 THEN IF Abs(p) THEN ROOT ELSE v
                                 ELSE NextVnode(g[i - 1], p[i])]
  BY <1>1, <1>2
<1> HIDE DEF g
<1>4. 0 \in 0 .. Len(p) /\ \A i \in 1 .. Len(p) : i \in 0 .. Len(p) /\ i # 0
  OBVIOUS
<1>5. /\ g[0] = IF Abs(p) THEN ROOT ELSE v
      /\ \A i \in 1 .. Len(p) : g[i] = NextVnode(g[i - 1], p[i])
  BY <1>3, <1>4
<1> QED
  BY <1>5 DEF g

\* No mount is half set up.
Settled == \A t \in Flow : th[t].pc # "setup"

\* A mount point stands for a vnode.
LEMMA CrossOK ==
    ASSUME VTypes, MountsOK, Settled, NEW v \in Vnodes
    PROVE  Cross(v) \in Vnodes
<1>1. CASE node[v].mount = 0
  BY <1>1 DEF Cross
<1>2. CASE node[v].mount # 0
  <2>1. node[v].mount \in Mount
    BY <1>2, NodeFacts, Constants DEF Mount
  <2>2. mnt[node[v].mount] \in Ptr \cup {FREE}
    BY <2>1, NodeFacts
  <2>3. mnt[node[v].mount] # FREE
    BY <1>2 DEF MountsOK
  <2>4. mnt[node[v].mount] # NULL
    BY <2>1 DEF MountsOK, InSetup, Settled
  <2> QED
    BY <1>2, <2>2, <2>3, <2>4 DEF Cross, Ptr
<1> QED
  BY <1>1, <1>2

\* ".." leads to a vnode.
LEMMA UpOK ==
    ASSUME VTypes, RootOK, NEW v \in Vnodes
    PROVE  Up(v) \in Vnodes
<1>1. CASE v = ROOT
  BY <1>1 DEF Up
<1>2. CASE v # ROOT
  <2>1. node[v].parent \in Vnodes
    BY <1>2 DEF RootOK
  <2>2. node[v].parent # ROOT => node[node[v].parent].parent \in Vnodes
    BY <2>1 DEF RootOK
  <2>3. ROOT \in Vnodes
    BY NodeFacts
  <2> QED
    BY <1>2, <2>1, <2>2, <2>3 DEF Up
<1> QED
  BY <1>1, <1>2

\* A lookup in a directory finds a child with that name, if there is one.
LEMMA ChildOK ==
    ASSUME VTypes, NEW d \in Vnodes, NEW x
    PROVE  /\ Child(d, x) \in Ptr
           /\ Child(d, x) # NULL => \E i \in DOMAIN node[d].kids :
                 /\ Child(d, x) = node[d].kids[i] /\ node[node[d].kids[i]].name = x
                 /\ \A j \in DOMAIN node[d].kids : node[node[d].kids[j]].name = x => i <= j
           /\ (\E i \in DOMAIN node[d].kids : node[node[d].kids[i]].name = x) => Child(d, x) # NULL
<1> DEFINE kids == node[d].kids
           hits == {i \in DOMAIN kids : node[kids[i]].name = x}
<1>1. kids \in Seq(Nat) /\ DOMAIN kids \subseteq Nat /\ \A i \in DOMAIN kids : kids[i] \in Vnodes
  <2>1. kids \in Seq(Nat) /\ \A i \in DOMAIN kids : kids[i] \in Vnodes
    BY NodeFacts
  <2> QED
    BY <2>1
<1>2. Child(d, x) = IF hits = {} THEN NULL ELSE kids[CHOOSE i \in hits : \A j \in hits : i <= j]
  BY DEF Child
<1>3. CASE hits = {}
  BY <1>2, <1>3 DEF Ptr
<1>4. CASE hits # {}
  <2>1. \E i \in hits : \A j \in hits : i <= j
    <3>1. hits \subseteq Nat
      BY <1>1
    <3> HIDE DEF hits
    <3> QED
      BY <1>4, <3>1, Least
  <2> DEFINE c == CHOOSE i \in hits : \A j \in hits : i <= j
  <2>2. c \in hits /\ \A j \in hits : c <= j
    BY <2>1
  <2>3. Child(d, x) = kids[c]
    BY <1>2, <1>4
  <2> HIDE DEF c
  <2>4. kids[c] \in Vnodes /\ kids[c] # NULL
    BY <1>1, <2>2, NodeFacts
  <2> QED
    BY <2>2, <2>3, <2>4 DEF Ptr
<1> QED
  BY <1>3, <1>4

\* A component leads to a vnode or nowhere.
LEMMA NextOK ==
    ASSUME VTypes, RootOK, MountsOK, Settled, NEW c \in Ptr, NEW x
    PROVE  NextVnode(c, x) \in Ptr
<1>1. CASE c = NULL
  BY <1>1 DEF NextVnode, Ptr
<1>2. CASE c # NULL
  <2>1. c \in Vnodes
    BY <1>2 DEF Ptr
  <2>2. Up(c) \in Vnodes /\ Cross(c) \in Vnodes
    BY <2>1, UpOK, CrossOK
  <2>3. Child(Cross(c), x) \in Ptr
    BY <2>2, ChildOK
  <2>4. Child(Cross(c), x) # NULL => Cross(Child(Cross(c), x)) \in Vnodes
    BY <2>3, CrossOK DEF Ptr
  <2> QED
    BY <1>2, <2>1, <2>2, <2>3, <2>4 DEF NextVnode, Ptr
<1> QED
  BY <1>1, <1>2

\* Mounts and ".." are inverse.
LEMMA DotDot ==
    VTypes /\ Tree => DotDotInverts
<1> SUFFICES ASSUME VTypes, Tree PROVE DotDotInverts
  OBVIOUS
<1>0. DirectoryOK /\ RootOK /\ MountsOK
  BY DEF Tree
<1>1. ASSUME NEW r \in Vnodes \ {ROOT}, node[r].isroot
      PROVE  Cross(node[r].parent) = r
  BY <1>0, <1>1 DEF MountsOK, Cross
<1>2. ASSUME NEW d \in Vnodes, node[d].mount = 0, NEW i \in DOMAIN node[d].kids,
             Cross(node[d].kids[i]) # NULL
      PROVE  Up(Cross(node[d].kids[i])) = d
  <2> DEFINE k == node[d].kids[i]
  <2>1. k \in Vnodes /\ node[k].parent = d /\ d # NULL
    BY <1>0, <1>2, NodeFacts DEF DirectoryOK
  <2>2. k # ROOT
    BY <1>0, <2>1 DEF RootOK
  <2>3. CASE node[k].mount = 0
    <3>1. Cross(k) = k
      BY <2>3 DEF Cross
    <3> QED
      BY <1>2, <2>1, <2>2, <3>1 DEF Up
  <2>4. CASE node[k].mount # 0
    <3> DEFINE c == mnt[node[k].mount]
    <3>1. Cross(k) = c /\ c # NULL
      BY <1>2, <2>4 DEF Cross
    <3>2. node[c].parent = k
      BY <1>0, <1>2, <2>1, <2>4, <3>1 DEF MountsOK
    <3>3. c # ROOT
      BY <1>0, <2>1, <3>2, NodeFacts DEF RootOK
    <3>4. k # NULL
      BY <2>1, NodeFacts
    <3> QED
      BY <2>1, <2>2, <2>4, <3>1, <3>2, <3>3, <3>4 DEF Up
  <2> QED
    BY <2>3, <2>4
<1> QED
  BY <1>1, <1>2 DEF DotDotInverts

-----------------------------------------------------------------------------
(* Steps that change only the locals of one call *)

\* What the pointers of the threads are while they do not change.
LEMMA SamePointers ==
    ASSUME UNCHANGED <<cwd, fd_table, life>>, Tidy
    PROVE  Tidy'
  BY DEF Tidy

\* The working directories that calls read while they do not change.
LEMMA SameHome ==
    ASSUME UNCHANGED cwd
    PROVE  \A u : Home(u)' = Home(u)
  BY DEF Home

\* Where only thread t runs, the others are not in a call.
LEMMA Alone ==
    ASSUME ~ Interruptible, VTypes, NEW t \in Flow, Runs(t)
    PROVE  panic = "no" /\ \A u \in Flow \ {t} : th[u].pc = "idle"
  BY DEF Runs, Flow

\* Nothing that CallOK and FindOK speak of changes.
LEMMA SameCall ==
    ASSUME UNCHANGED <<node, mnt>>, NEW r
    PROVE  CallOK(r)' <=> CallOK(r)
  BY DEF CallOK, Child, Ptr, Vnodes, Busy

\* What FindOK says does not change either.
LEMMA SameFind ==
    ASSUME UNCHANGED <<node, mnt>>, NEW r, NEW c
    PROVE  FindOK(r, c)' <=> FindOK(r, c)
  BY DEF FindOK, Follows, Found, Sought, Resolve, Trail, NextVnode, Up, Cross, Child

\* What is true of a thread outside of every call stays true.
LEMMA IdleCall ==
    ASSUME NEW r, r.pc = "idle", CallOK(r), Vnodes \subseteq Vnodes'
    PROVE  CallOK(r)'
  BY DEF CallOK, Ptr

\* Outside of every call there is nothing to find.
LEMMA IdleFind ==
    ASSUME NEW r, NEW c, r.pc = "idle"
    PROVE  FindOK(r, c)
  BY DEF FindOK

\* The same in the next state.
LEMMA IdleFindNext ==
    ASSUME NEW r, NEW c, r.pc = "idle"
    PROVE  FindOK(r, c)'
  BY DEF FindOK

\* A step that replaces the locals of t by r.
LEMMA LocalStep ==
    ASSUME TreeInv, NEW t \in Flow, NEW r \in Local, th' = [th EXCEPT ![t] = r],
           UNCHANGED <<node, mnt, life>>, boot' \in 1 .. 7, panic' \in {"no", "vnode", "file", "wild"},
           cwd' \in [Flow -> Dirs], fd_table' \in [Thread -> [Fd -> Dirs]],
           Tidy' \/ UNCHANGED <<cwd, fd_table>>, CallOK(r), \A u \in Flow \ {t} : th[u].pc = "idle",
           th[t].pc # "setup", r.pc # "setup",
           r.pc # "idle" /\ t \in Thread => life[t] # "none" /\ r.op # "mknod"
    PROVE  TreeInv'
<1>1. VTypes /\ DirectoryOK /\ RootOK /\ MountsOK /\ CallsOK
  BY DEF TreeInv, Tree
<1>2. th \in [Flow -> Local] /\ th' \in [Flow -> Local] /\ th'[t] = r
      /\ \A u \in Flow \ {t} : th'[u] = th[u]
  BY <1>1 DEF VTypes
<1>3. VTypes'
  <2>1. TypeOK /\ Tidy
    BY <1>1 DEF VTypes, TypeOK, Tidy
  <2>2. Tidy'
    BY <2>1, SamePointers
  <2>3. TypeOK'
    BY <2>1, <2>2 DEF TypeOK, Ptr, Vnodes, Flow, Dirs, Tidy
  <2> QED
    BY <1>1, <1>2, <2>3 DEF VTypes
<1>4. DirectoryOK' /\ RootOK'
  BY <1>1 DEF DirectoryOK, RootOK, Vnodes
<1>5. MountsOK'
  <2>1. \A m \in Mount : mnt[m] # NULL
    BY <1>1 DEF MountsOK, InSetup
  <2> QED
    BY <1>1, <2>1 DEF MountsOK, Vnodes
<1>6. OneCall'
  BY <1>2 DEF OneCall
<1>7. CallsOK'
  <2> SUFFICES ASSUME NEW u \in Flow PROVE CallOK(th[u])'
    BY DEF CallsOK
  <2>1. CallOK(th'[u])
    BY <1>1, <1>2 DEF CallsOK
  <2>2. PICK q : q = th'[u]
    OBVIOUS
  <2>3. CallOK(q)'
    BY <2>1, <2>2, SameCall
  <2> QED
    BY <2>2, <2>3
<1> QED
  BY <1>3, <1>4, <1>5, <1>6, <1>7 DEF TreeInv, Tree

\* The same for what a call has found out.
LEMMA FindStep ==
    ASSUME FindInv, th \in [Flow -> Local], NEW t \in Flow, NEW r, th' = [th EXCEPT ![t] = r],
           UNCHANGED <<node, mnt>>, \A u \in Flow \ {t} : th[u].pc = "idle",
           FindOK(r, Home(t)')
    PROVE  FindInv'
<1>1. th'[t] = r /\ \A u \in Flow \ {t} : th'[u] = th[u]
  OBVIOUS
<1> SUFFICES ASSUME NEW u \in Flow PROVE FindOK(th[u], Home(u))'
  BY DEF FindInv, Flow
<1>2. PICK q : q = th'[u]
  OBVIOUS
<1>3. PICK c : c = Home(u)'
  OBVIOUS
<1>4. FindOK(q, c)
  <2>1. CASE u = t
    BY <1>1, <1>2, <1>3, <2>1
  <2>2. CASE u # t
    <3>1. q.pc = "idle"
      BY <1>1, <1>2, <2>2 DEF Flow
    <3> QED
      BY <3>1, IdleFind
  <2> QED
    BY <2>1, <2>2
<1>5. FindOK(q, c)'
  BY <1>4, SameFind
<1> QED
  BY <1>2, <1>3, <1>5

\* How far vfs_init got does not change with what it does not speak of.
LEMMA SameStage ==
    ASSUME UNCHANGED <<node, mnt>>, NEW b, NEW r
    PROVE  Stage(b, r)' <=> Stage(b, r)
  BY DEF Stage, MkdirStage, MountStage, MknodStage, Built

\* Where nobody moves.
LEMMA SameCalls ==
    ASSUME UNCHANGED <<node, mnt, th>>, CallsOK
    PROVE  CallsOK'
<1> SUFFICES ASSUME NEW u \in Flow PROVE CallOK(th[u])'
  BY DEF CallsOK, Flow
<1>1. PICK q : q = th'[u]
  OBVIOUS
<1>2. CallOK(q)
  BY <1>1 DEF CallsOK
<1>3. CallOK(q)'
  BY <1>2, SameCall
<1> QED
  BY <1>1, <1>3

\* ... vfs_init gets no further.
LEMMA SameBoot ==
    ASSUME UNCHANGED <<node, mnt, boot, th, life, cwd>>, BootOK
    PROVE  BootOK'
<1>1. \A k : Built(k)' <=> Built(k)
  BY DEF Built
<1>2. PICK r : r = th[Main]
  OBVIOUS
<1>3. \A p, k : MkdirStage(r, p, k)' <=> MkdirStage(r, p, k)
  BY <1>1 DEF MkdirStage
<1>4. MountStage(r)' <=> MountStage(r)
  BY <1>1 DEF MountStage
<1>5. \A dev, k : MknodStage(r, dev, k)' <=> MknodStage(r, dev, k)
  BY <1>1 DEF MknodStage
<1>6. Stage(boot, r)
  BY <1>2 DEF BootOK
<1>7. Stage(boot, r)'
  BY <1>1, <1>3, <1>4, <1>5, <1>6 DEF Stage
<1>8. Home(Main)' = Home(Main)
  BY SameHome
<1> QED
  BY <1>2, <1>7, <1>8 DEF BootOK

\* ... no call finds out anything.
LEMMA SameFinds ==
    ASSUME UNCHANGED <<node, mnt, th, cwd>>, FindInv
    PROVE  FindInv'
<1> SUFFICES ASSUME NEW u \in Flow PROVE FindOK(th[u], Home(u))'
  BY DEF FindInv, Flow
<1>1. PICK q : q = th'[u]
  OBVIOUS
<1>2. PICK c : c = Home(u)'
  OBVIOUS
<1>3. FindOK(q, c)
  BY <1>1, <1>2, SameHome DEF FindInv
<1>4. FindOK(q, c)'
  BY <1>3, SameFind
<1> QED
  BY <1>1, <1>2, <1>4

\* A thread that is alive runs after vfs_init.
LEMMA Booted ==
    ASSUME VInv, NEW t \in Thread, life[t] # "none"
    PROVE  boot = 7 /\ th[Main].pc = "idle"
<1>1. boot \in 1 .. 7
  BY DEF VInv, TreeInv, VTypes, TypeOK
<1>2. ~ (boot < 7) /\ th[Main].pc = "idle"
  BY DEF VInv, BootOK
<1> QED
  BY <1>1, <1>2

\* A thread inside a call is alive, and one call is made at a time.
LEMMA InCall ==
    ASSUME ~ Interruptible, VInv, NEW t \in Flow, Runs(t)
    PROVE  /\ panic = "no" /\ \A u \in Flow \ {t} : th[u].pc = "idle"
           /\ t \in Thread /\ th[t].pc # "idle" => life[t] # "none" /\ th[t].op # "mknod"
           /\ CallOK(th[t]) /\ FindOK(th[t], Home(t)) /\ th[t] \in Local
           /\ cwd \in [Flow -> Dirs] /\ Home(t) \in Ptr /\ fd_table \in [Thread -> [Fd -> Dirs]]
           /\ VTypes /\ RootOK /\ MountsOK /\ DirectoryOK /\ Tidy /\ WILD \notin Ptr
           /\ boot \in 1 .. 7 /\ Home(Main) = NULL
           /\ t = Main => Stage(boot, th[t])
<1>1. VTypes /\ RootOK /\ MountsOK /\ DirectoryOK /\ OneCall /\ CallsOK /\ FindInv /\ BootOK
  BY DEF VInv, TreeInv, Tree
<1>2. /\ cwd \in [Flow -> Dirs] /\ fd_table \in [Thread -> [Fd -> Dirs]] /\ boot \in 1 .. 7 /\ Tidy
      /\ WILD \notin Ptr /\ Home(t) \in Ptr
  <2>1. cwd \in [Flow -> Dirs] /\ fd_table \in [Thread -> [Fd -> Dirs]] /\ boot \in 1 .. 7 /\ Tidy
    BY <1>1 DEF VTypes, TypeOK, Flow, Ptr, Dirs, Tidy
  <2>2. WILD \notin Ptr
    BY <1>1 DEF VTypes, TypeOK, Ptr, Vnodes, WILD, NULL
  <2>3. Home(t) \in Ptr
    BY <2>1 DEF Home, Dirs, Ptr
  <2> QED
    BY <2>1, <2>2, <2>3
<1>3. panic = "no" /\ \A u \in Flow \ {t} : th[u].pc = "idle"
  BY <1>1, Alone
<1>4. th[t] \in Local
  BY <1>1 DEF VTypes
<1>5. t \in Thread /\ th[t].pc # "idle" => life[t] # "none" /\ th[t].op # "mknod"
  BY <1>1 DEF OneCall
<1>6. CallOK(th[t]) /\ FindOK(th[t], Home(t))
  BY <1>1 DEF CallsOK, FindInv
<1>7. Home(Main) = NULL /\ (t = Main => Stage(boot, th[t]))
  BY <1>1 DEF BootOK
<1> QED
  BY <1>1, <1>2, <1>3, <1>4, <1>5, <1>6, <1>7

\* A step of one flow of control that changes its locals, and nothing in the tree.
LEMMA CallStep ==
    ASSUME VInv, NEW t \in Flow, NEW r \in Local, th' = [th EXCEPT ![t] = r],
           UNCHANGED <<node, mnt, life>>, panic' \in {"no", "file"},
           cwd' \in [Flow -> Dirs], \A u \in Flow \ {t} : Home(u)' = Home(u),
           fd_table' \in [Thread -> [Fd -> Dirs]], Tidy' \/ UNCHANGED <<cwd, fd_table>>,
           \A u \in Flow \ {t} : th[u].pc = "idle", th[t].pc # "setup", r.pc # "setup",
           CallOK(r), FindOK(r, Home(t)'),
           t \in Thread => life[t] # "none" /\ UNCHANGED boot /\ (r.pc = "idle" \/ r.op # "mknod"),
           t = Main => /\ boot < 7 \/ th[Main].pc # "idle"
                       /\ boot' \in 1 .. 7 /\ Home(Main)' = NULL /\ Stage(boot', r)
    PROVE  VInv'
<1>0. TreeInv /\ BootOK /\ FindInv /\ th \in [Flow -> Local] /\ Main \in Flow /\ Main \notin Thread
  BY Constants DEF VInv, TreeInv, VTypes, Flow
<1>1. th'[t] = r /\ \A u \in Flow \ {t} : th'[u] = th[u]
  BY <1>0
<1>2. boot \in 1 .. 7 /\ boot' \in 1 .. 7
  BY <1>0 DEF TreeInv, VTypes, TypeOK, Flow
<1>3. TreeInv'
  <2>1. panic' \in {"no", "vnode", "file", "wild"} /\ (r.pc # "idle" /\ t \in Thread => life[t] # "none" /\ r.op # "mknod")
    OBVIOUS
  <2> QED
    BY <1>0, <1>2, <2>1, LocalStep
<1>4. FindInv'
  BY <1>0, FindStep
<1>5. BootOK'
  <2>1. CASE t = Main
    <3>1. \A u \in Thread : life'[u] = "none"
      BY <1>0, <2>1 DEF BootOK
    <3>2. Stage(boot', th'[Main])
      BY <1>1, <2>1
    <3>3. PICK b : b = boot'
      OBVIOUS
    <3>4. PICK q : q = th'[Main]
      OBVIOUS
    <3>5. Stage(b, q)'
      BY <3>2, <3>3, <3>4, SameStage
    <3>6. Stage(boot, th[Main])'
      BY <3>3, <3>4, <3>5
    <3> QED
      BY <2>1, <3>1, <3>6 DEF BootOK
  <2>2. CASE t # Main
    <3>1. t \in Thread /\ UNCHANGED boot /\ life[t] # "none"
      BY <2>2 DEF Flow
    <3>2. th'[Main] = th[Main] /\ Home(Main)' = Home(Main)
      BY <1>0, <1>1, <2>2
    <3>3. PICK b : b = boot'
      OBVIOUS
    <3>4. PICK q : q = th'[Main]
      OBVIOUS
    <3>5. Stage(b, q)
      BY <1>0, <3>1, <3>2, <3>3, <3>4 DEF BootOK
    <3>6. Stage(b, q)'
      BY <3>5, SameStage
    <3>7. Stage(boot, th[Main])'
      BY <3>3, <3>4, <3>6
    <3> QED
      BY <1>0, <3>1, <3>2, <3>7 DEF BootOK
  <2> QED
    BY <2>1, <2>2
<1>6. PanicOK'
  BY DEF PanicOK, OnlyFailedCreateIsNull
<1> QED
  BY <1>3, <1>4, <1>5, <1>6 DEF VInv

-----------------------------------------------------------------------------
(* The kernel stops *)

\* At most panic changes.
LEMMA StopKeeps ==
    ASSUME VInv, UNCHANGED <<node, mnt, boot, th, life, cwd, fd_table>>,
           panic' \in {"no", "vnode", "file", "wild"}, PanicOK'
    PROVE  VInv'
<1>1. TreeInv'
  <2>1. TypeOK /\ Tidy
    BY DEF VInv, TreeInv, VTypes, TypeOK, Tidy
  <2>2. Tidy'
    BY <2>1, SamePointers
  <2>3. TypeOK'
    BY <2>1, <2>2 DEF TypeOK, Vnodes, Tidy
  <2>4. VTypes' /\ OneCall'
    BY <2>3 DEF VInv, TreeInv, VTypes, OneCall, Flow, Local
  <2>5. Tree'
    BY DEF VInv, TreeInv, Tree, DirectoryOK, RootOK, MountsOK, InSetup, Vnodes
  <2>6. CallsOK'
    BY SameCalls DEF VInv, TreeInv
  <2> QED
    BY <2>4, <2>5, <2>6 DEF TreeInv
<1>2. BootOK'
  BY SameBoot DEF VInv
<1>3. FindInv'
  BY SameFinds DEF VInv
<1> QED
  BY <1>1, <1>2, <1>3 DEF VInv

\* sys_read and sys_write of a descriptor that is not open.
LEMMA UseKeeps ==
    ASSUME VInv, NEW t \in Thread, NEW i \in Fd, Use(t, i)
    PROVE  VInv'
<1>1. panic' = "file" /\ UNCHANGED <<node, mnt, boot, th, life, cwd, fd_table>>
  BY DEF Use
<1>2. PanicOK'
  BY <1>1 DEF PanicOK, OnlyFailedCreateIsNull
<1> QED
  BY <1>1, <1>2, StopKeeps

\* A call that follows a wild pointer of its thread, or the data of an initramfs root.
LEMMA StrayKeeps ==
    ASSUME VInv, NEW t \in Thread, Stray(t)
    PROVE  VInv'
<1>1. panic' = "wild" /\ UNCHANGED <<node, mnt, boot, th, life, cwd, fd_table>>
  BY DEF Stray
<1>2. Tidy
  BY DEF VInv, TreeInv, VTypes, TypeOK, Tidy
<1>3. \/ \E u \in Thread : life[u] = "astray"
      \/ \E u \in Thread, i \in Fd : fd_table[u][i] \in RawRoots
  <2>1. CASE \E i \in Fd : fd_table[t][i] \in RawRoots
    BY <2>1
  <2>2. CASE cwd[t] = WILD \/ \E i \in Fd : fd_table[t][i] = WILD
    BY <1>2, <2>2 DEF Tidy
  <2> QED
    BY <2>1, <2>2 DEF Stray, Astray
<1>4. PanicOK'
  BY <1>1, <1>3 DEF PanicOK, OnlyFailedCreateIsNull, RawRoots, Vnodes
<1> QED
  BY <1>1, <1>4, StopKeeps

\* A lookup that reads the children of an initramfs root.
LEMMA WalkAstrayKeeps ==
    ASSUME VInv, NEW t \in Flow, Walk(t), WalkAstray(t)
    PROVE  VInv'
<1>1. panic' = "wild" /\ UNCHANGED <<node, mnt, boot, th, life, cwd, fd_table>>
      /\ th[t].pc = "walk" /\ Cross(th[t].cur) \in RawRoots
  BY DEF Walk, WalkAstray
<1>2. PanicOK'
  BY <1>1 DEF PanicOK, OnlyFailedCreateIsNull, RawRoots, Vnodes, Cross, Flow
<1> QED
  BY <1>1, <1>2, StopKeeps

\* initramfs_init with an old number of children.
LEMMA BootAstrayKeeps ==
    ASSUME VInv, BootAstray
    PROVE  VInv'
<1>1. panic' = "wild" /\ UNCHANGED <<node, mnt, boot, th, life, cwd, fd_table>> /\ boot = 3
  BY DEF BootAstray
<1>2. PanicOK'
  BY <1>1 DEF PanicOK, OnlyFailedCreateIsNull
<1> QED
  BY <1>1, <1>2, StopKeeps

-----------------------------------------------------------------------------
(* vfs_lookup *)

\* A path that led nowhere leads nowhere.
LEMMA TrailNull ==
    ASSUME NEW p \in Seq(STRING), NEW v, NEW k \in 0 .. Len(p), Trail(p, v)[k] = NULL,
           NEW m \in k .. Len(p)
    PROVE  Trail(p, v)[m] = NULL
<1> DEFINE f == Trail(p, v)
           T == {n \in Nat : n \in k .. Len(p) /\ f[n] # NULL}
<1>1. f[k] = NULL /\ \A i \in 1 .. Len(p) : f[i] = NextVnode(f[i - 1], p[i])
  BY TrailFacts
<1> HIDE DEF f
<1>2. T = {}
  <2> SUFFICES ASSUME T # {} PROVE FALSE
    OBVIOUS
  <2>1. T \subseteq Nat
    OBVIOUS
  <2>2. PICK n \in T : \A i \in T : n <= i
    <3> HIDE DEF T
    <3> QED
      BY <2>1, Least
  <2>3. n \in Nat /\ n \in k .. Len(p) /\ f[n] # NULL /\ n # k
    BY <1>1, <2>2
  <2>4. n - 1 \in Nat /\ n - 1 \in k .. Len(p) /\ n \in 1 .. Len(p) /\ ~ (n <= n - 1)
    BY <2>3
  <2>5. f[n - 1] = NULL
    BY <2>2, <2>4
  <2>6. f[n] = NextVnode(NULL, p[n])
    BY <1>1, <2>4, <2>5
  <2>7. NextVnode(NULL, p[n]) = NULL
    BY DEF NextVnode
  <2> QED
    BY <2>3, <2>6, <2>7
<1>3. m \in Nat
  OBVIOUS
<1>4. f[m] = NULL
  BY <1>2, <1>3
<1> QED
  BY <1>4 DEF f

\* The paths that need no walk.
RootPath == <<"", "">>
HerePaths == {<<"">>, <<".">>}

\* Their components.
LEMMA ShortLens ==
    /\ Len(RootPath) = 2 /\ RootPath[1] = "" /\ RootPath[2] = ""
    /\ \A p \in HerePaths : Len(p) = 1 /\ p[1] \in {"", "."}
    /\ RootPath \notin HerePaths
<1>1. Len(RootPath) = 2 /\ RootPath[1] = "" /\ RootPath[2] = ""
  BY DEF RootPath
<1>2. Len(<<"">>) = 1 /\ <<"">>[1] = "" /\ Len(<<".">>) = 1 /\ <<".">>[1] = "."
  OBVIOUS
<1>3. \A p \in HerePaths : Len(p) = 1 /\ p[1] \in {"", "."}
  BY <1>2, Zenon DEF HerePaths
<1>4. 1 # 2
  OBVIOUS
<1> QED
  BY <1>1, <1>3, <1>4, Zenon

\* Which of them are absolute.
LEMMA ShortAbs ==
    /\ Abs(RootPath)
    /\ \A p \in HerePaths : ~ Abs(p)
<1>1. \A p : (Len(p) = 2 => Len(p) > 1) /\ (Len(p) = 1 => ~ (Len(p) > 1))
  OBVIOUS
<1> QED
  BY <1>1, ShortLens, Zenon DEF Abs

\* The head of vfs_lookup.
LEMMA LookupFacts ==
    ASSUME VTypes, NEW r \in Local, NEW p \in Seq(STRING), NEW c \in Ptr, NEW s, s = Lookup(r, p, c)
    PROVE  /\ s \in Local /\ s.op = r.op /\ s.path = r.path /\ s.arg = r.arg
           /\ s.dir = r.dir /\ s.vnode = r.vnode /\ s.fd = r.fd
           /\ s.pc \in {"walk", "looked"} /\ s.tgt \in Ptr
           /\ s.pc = "walk" => s.cur \in Vnodes /\ s.rest = p /\ s.cur = IF Abs(p) THEN ROOT ELSE c
           /\ s.pc = "looked" =>
                \/ s.res = OK /\ s.tgt \in Vnodes /\ p = RootPath /\ s.tgt = ROOT
                \/ s.res = OK /\ s.tgt \in Vnodes /\ p \in HerePaths /\ s.tgt = c
                \/ s.res = EINTERR /\ c = NULL /\ ~ Abs(p)
<1>0. PICK start : start = IF Abs(p) THEN ROOT ELSE c
  OBVIOUS
<1>c. s = CASE start = NULL -> [r EXCEPT !.pc = "looked", !.tgt = NULL, !.res = EINTERR]
            [] start # NULL /\ p = RootPath -> [r EXCEPT !.pc = "looked", !.tgt = ROOT, !.res = OK]
            [] start # NULL /\ p \in HerePaths -> [r EXCEPT !.pc = "looked", !.tgt = start, !.res = OK]
            [] OTHER -> [r EXCEPT !.pc = "walk", !.rest = p, !.cur = start, !.tgt = NULL]
  BY <1>0, Zenon DEF Lookup, RootPath, HerePaths
<1>1. start \in Ptr /\ ROOT \in Vnodes /\ \A v \in Vnodes : v \in Nat
  BY <1>0, NodeFacts DEF Ptr
<1>2. start \in Nat /\ NULL \in Nat /\ ROOT \in Nat /\ OK \in Int /\ EINTERR \in Int /\ ROOT # NULL
  BY <1>1, Codes DEF Ptr
<1>3. CASE start = NULL
  <2>1. s = [r EXCEPT !.pc = "looked", !.tgt = NULL, !.res = EINTERR]
    BY <1>c, <1>3
  <2>2. s \in Local
    BY <1>2, <2>1 DEF Local
  <2>3. c = NULL /\ ~ Abs(p)
    BY <1>0, <1>2, <1>3
  <2> QED
    BY <1>2, <2>1, <2>2, <2>3 DEF Local, Ptr
<1>4. CASE start # NULL /\ p = RootPath
  <2>1. s = [r EXCEPT !.pc = "looked", !.tgt = ROOT, !.res = OK]
    BY <1>c, <1>4, ShortLens
  <2>2. s \in Local
    BY <1>2, <2>1 DEF Local
  <2> QED
    BY <1>1, <1>2, <1>4, <2>1, <2>2 DEF Local, Ptr
<1>5. CASE start # NULL /\ p \in HerePaths
  <2>1. s = [r EXCEPT !.pc = "looked", !.tgt = start, !.res = OK]
    BY <1>c, <1>5, ShortLens
  <2>2. ~ Abs(p)
    BY <1>5, ShortAbs
  <2>3. start = c /\ c \in Vnodes
    BY <1>0, <1>1, <1>5, <2>2 DEF Ptr
  <2>4. s \in Local
    BY <1>2, <2>1 DEF Local
  <2>5. s.pc = "looked" /\ s.tgt = start /\ s.res = OK /\ s.op = r.op /\ s.path = r.path
        /\ s.arg = r.arg /\ s.dir = r.dir /\ s.vnode = r.vnode /\ s.fd = r.fd
    BY <2>1 DEF Local
  <2> QED
    BY <1>5, <2>3, <2>4, <2>5 DEF Ptr
<1>6. CASE start # NULL /\ p # RootPath /\ p \notin HerePaths
  <2>1. s = [r EXCEPT !.pc = "walk", !.rest = p, !.cur = start, !.tgt = NULL]
    BY <1>c, <1>6
  <2>2. start \in Vnodes
    BY <1>1, <1>6 DEF Ptr
  <2>3. s \in Local
    BY <1>2, <2>1 DEF Local
  <2>4. s.pc = "walk" /\ s.tgt = NULL /\ s.rest = p /\ s.cur = start /\ s.op = r.op /\ s.path = r.path
        /\ s.arg = r.arg /\ s.dir = r.dir /\ s.vnode = r.vnode /\ s.fd = r.fd
    BY <2>1 DEF Local
  <2> QED
    BY <1>0, <2>2, <2>3, <2>4 DEF Ptr
<1> QED
  BY <1>3, <1>4, <1>5, <1>6

\* ... starts the walk at the first vnode of the trail, or ends it.
LEMMA LookupFinds ==
    ASSUME VTypes, NEW r \in Local, NEW p \in Seq(STRING), NEW c \in Ptr,
           NEW s, s = Lookup(r, p, c)
    PROVE  /\ s.pc = "walk" => Follows(s, p, c)
           /\ s.pc = "looked" => Found(s, p, c)
<1>1. /\ s.pc \in {"walk", "looked"}
      /\ s.pc = "walk" => s.cur \in Vnodes /\ s.rest = p /\ s.cur = IF Abs(p) THEN ROOT ELSE c
      /\ s.pc = "looked" =>
                \/ s.res = OK /\ s.tgt \in Vnodes /\ p = RootPath /\ s.tgt = ROOT
                \/ s.res = OK /\ s.tgt \in Vnodes /\ p \in HerePaths /\ s.tgt = c
                \/ s.res = EINTERR /\ c = NULL /\ ~ Abs(p)
  BY LookupFacts
<1> DEFINE f == Trail(p, c)
<1>2. /\ f[0] = IF Abs(p) THEN ROOT ELSE c
      /\ \A i \in 1 .. Len(p) : f[i] = NextVnode(f[i - 1], p[i])
  BY TrailFacts
<1>3. Resolve(p, c) = f[Len(p)]
  BY DEF Resolve
<1> HIDE DEF f
<1>4. CASE s.pc = "walk"
  <2>1. SubSeq(p, 0 + 1, Len(p)) = p /\ 0 \in 0 .. Len(p)
    OBVIOUS
  <2> QED
    BY <1>1, <1>2, <1>4, <2>1 DEF Follows, f
<1>5. CASE s.pc = "looked" /\ s.res = OK /\ s.tgt \in Vnodes /\ p = RootPath /\ s.tgt = ROOT
  <2>1. Abs(p) /\ Len(p) = 2 /\ p[1] = "" /\ p[2] = ""
    BY <1>5, ShortLens, ShortAbs, Zenon
  <2>2. f[0] = ROOT /\ f[1] = NextVnode(f[0], "") /\ f[2] = NextVnode(f[1], "")
    <3>1. \A n : n = 2 => 1 \in 1 .. n /\ 2 \in 1 .. n /\ 1 - 1 = 0 /\ 2 - 1 = 1
      OBVIOUS
    <3> QED
      BY <1>2, <2>1, <3>1, Zenon
  <2>3. NextVnode(ROOT, "") = ROOT
    BY Codes DEF NextVnode
  <2> QED
    BY <1>3, <1>5, <2>1, <2>2, <2>3 DEF Found
<1>6. CASE s.pc = "looked" /\ s.res = OK /\ s.tgt \in Vnodes /\ p \in HerePaths /\ s.tgt = c
  <2>1. ~ Abs(p) /\ Len(p) = 1 /\ p[1] \in {"", "."}
    BY <1>6, ShortLens, ShortAbs, Zenon
  <2>2. f[0] = c /\ f[1] = NextVnode(f[0], p[1]) /\ c # NULL
    <3>1. \A n : n = 1 => 1 \in 1 .. n /\ 1 - 1 = 0
      OBVIOUS
    <3>2. c # NULL
      BY <1>6, NodeFacts
    <3> QED
      BY <1>2, <2>1, <3>1, <3>2, Zenon
  <2>3. NextVnode(c, p[1]) = c
    BY <2>1, <2>2 DEF NextVnode
  <2> QED
    BY <1>3, <1>6, <2>1, <2>2, <2>3 DEF Found
<1>7. CASE s.pc = "looked" /\ s.res = EINTERR /\ c = NULL /\ ~ Abs(p)
  <2>1. f[0] = NULL /\ 0 \in 0 .. Len(p) /\ Len(p) \in 0 .. Len(p)
    BY <1>2, <1>7
  <2>2. f[Len(p)] = NULL
    BY <2>1, TrailNull DEF f
  <2> QED
    BY <1>3, <1>7, <2>2, Codes DEF Found
<1> QED
  BY <1>1, <1>4, <1>5, <1>6, <1>7

-----------------------------------------------------------------------------
(* The loop of vfs_lookup *)

\* A path without its last component.
LEMMA FrontFacts ==
    \A p \in Seq(STRING) : Len(p) > 0 =>
        /\ Front(p) \in Seq(STRING) /\ Len(Front(p)) = Len(p) - 1
        /\ \A i \in 1 .. Len(p) - 1 : Front(p)[i] = p[i]
        /\ Last(p) = p[Len(p)] /\ Last(p) \in STRING
<1> SUFFICES ASSUME NEW p \in Seq(STRING), Len(p) > 0
             PROVE  /\ Front(p) \in Seq(STRING) /\ Len(Front(p)) = Len(p) - 1
                    /\ \A i \in 1 .. Len(p) - 1 : Front(p)[i] = p[i]
                    /\ Last(p) = p[Len(p)] /\ Last(p) \in STRING
  OBVIOUS
<1>1. Front(p) = SubSeq(p, 1, Len(p) - 1) /\ Last(p) = p[Len(p)]
  BY DEF Front, Last
<1>2. Len(p) \in Nat \ {0} /\ Len(p) \in 1 .. Len(p)
  OBVIOUS
<1>3. SubSeq(p, 1, Len(p) - 1) \in Seq(STRING) /\ Len(SubSeq(p, 1, Len(p) - 1)) = Len(p) - 1
      /\ \A i \in 1 .. Len(p) - 1 : SubSeq(p, 1, Len(p) - 1)[i] = p[i]
  <2>1. PICK n \in Nat : n = Len(p) - 1
    BY <1>2
  <2>2. \A i \in 1 .. n : i \in 1 .. Len(p) /\ 1 + i - 1 = i
    BY <1>2, <2>1
  <2>3. SubSeq(p, 1, n) \in Seq(STRING)
    <3>1. \A i \in 1 .. n : p[i] \in STRING
      BY <2>2
    <3> QED
      BY <3>1
  <2>4. Len(SubSeq(p, 1, n)) = n
    BY <1>2, <2>1
  <2>5. \A i \in 1 .. n : SubSeq(p, 1, n)[i] = p[i]
    BY <2>2, <2>4
  <2> QED
    BY <2>1, <2>3, <2>4, <2>5
<1> QED
  BY <1>1, <1>2, <1>3

\* The path of a lookup is a path.
LEMMA SoughtOK ==
    ASSUME NEW r \in Local, Len(r.path) > 0
    PROVE  Sought(r) \in Seq(STRING)
  BY FrontFacts DEF Sought, Local

\* While a walk follows a trail, its next component is the next of the trail.
LEMMA FollowsNext ==
    ASSUME NEW r, NEW p \in Seq(STRING), NEW c, Follows(r, p, c), r.rest # <<>>
    PROVE  \E k \in 0 .. Len(p) - 1 :
              /\ Trail(p, c)[k] = r.cur /\ Trail(p, c)[k + 1] = NextVnode(r.cur, Head(r.rest))
              /\ Tail(r.rest) = SubSeq(p, k + 2, Len(p))
<1>1. PICK k \in 0 .. Len(p) : r.rest = SubSeq(p, k + 1, Len(p)) /\ Trail(p, c)[k] = r.cur
  BY DEF Follows
<1>2. k # Len(p)
  BY <1>1
<1>3. k \in 0 .. Len(p) - 1 /\ k + 1 \in 1 .. Len(p) /\ (k + 1) - 1 = k
  BY <1>2
<1>4. Head(r.rest) = p[k + 1] /\ Tail(r.rest) = SubSeq(p, k + 2, Len(p))
  BY <1>1, <1>3
<1>5. Trail(p, c)[k + 1] = NextVnode(Trail(p, c)[k], p[k + 1])
  BY <1>3, TrailFacts
<1> QED
  BY <1>1, <1>3, <1>4, <1>5

\* A walk goes on along the trail.
LEMMA FollowsOn ==
    ASSUME NEW q, NEW r, NEW p \in Seq(STRING), NEW c, Follows(q, p, c), q.rest # <<>>,
           r.rest = Tail(q.rest), r.cur = NextVnode(q.cur, Head(q.rest))
    PROVE  Follows(r, p, c)
<1>1. PICK k \in 0 .. Len(p) - 1 :
         /\ Trail(p, c)[k] = q.cur /\ Trail(p, c)[k + 1] = NextVnode(q.cur, Head(q.rest))
         /\ Tail(q.rest) = SubSeq(p, k + 2, Len(p))
  BY FollowsNext
<1>2. k + 1 \in 0 .. Len(p) /\ (k + 1) + 1 = k + 2
  OBVIOUS
<1>3. r.rest = SubSeq(p, (k + 1) + 1, Len(p)) /\ Trail(p, c)[k + 1] = r.cur
  BY <1>1, <1>2
<1> QED
  BY <1>2, <1>3 DEF Follows

\* A walk that leads nowhere ends with an error.
LEMMA FollowsEnd ==
    ASSUME NEW q, NEW r, NEW p \in Seq(STRING), NEW c, Follows(q, p, c), q.rest # <<>>,
           NextVnode(q.cur, Head(q.rest)) = NULL, r.res # OK
    PROVE  Found(r, p, c)
<1>1. PICK k \in 0 .. Len(p) - 1 :
         /\ Trail(p, c)[k] = q.cur /\ Trail(p, c)[k + 1] = NextVnode(q.cur, Head(q.rest))
         /\ Tail(q.rest) = SubSeq(p, k + 2, Len(p))
  BY FollowsNext
<1>2. k + 1 \in 0 .. Len(p) /\ Len(p) \in k + 1 .. Len(p)
  OBVIOUS
<1>3. Trail(p, c)[k + 1] = NULL
  BY <1>1
<1>4. Trail(p, c)[Len(p)] = NULL
  BY <1>2, <1>3, TrailNull
<1> QED
  BY <1>4 DEF Found, Resolve

\* A walk that is over found what the path names.
LEMMA FollowsAll ==
    ASSUME NEW q, NEW r, NEW p \in Seq(STRING), NEW c, Follows(q, p, c), q.rest = <<>>,
           r.tgt = q.cur, r.res = OK
    PROVE  Found(r, p, c)
<1>1. PICK k \in 0 .. Len(p) : q.rest = SubSeq(p, k + 1, Len(p)) /\ Trail(p, c)[k] = q.cur
  BY DEF Follows
<1>2. k = Len(p)
  <2>1. Len(SubSeq(p, k + 1, Len(p))) = 0
    BY <1>1
  <2> QED
    BY <2>1
<1> QED
  BY <1>1, <1>2 DEF Found, Resolve

\* The locals after a step of a walk.
Walked(q, r) ==
    /\ r \in Local /\ r.pc \in {"walk", "looked"}
    /\ r.op = q.op /\ r.path = q.path /\ r.arg = q.arg /\ r.dir = q.dir /\ r.vnode = q.vnode
    /\ r.tgt \in Ptr
    /\ r.pc = "walk" => r.cur \in Vnodes
    /\ r.pc = "looked" /\ r.res = OK => r.tgt \in Vnodes
    /\ \A p \in Seq(STRING), c \in Ptr : Follows(q, p, c) =>
          /\ r.pc = "walk" => Follows(r, p, c)
          /\ r.pc = "looked" => Found(r, p, c)

\* They keep the invariant.
LEMMA WalkStep ==
    ASSUME ~ Interruptible, VInv, NEW t \in Flow, Runs(t), th[t].pc = "walk", NEW r, Walked(th[t], r),
           Put(t, r), UNCHANGED <<node, mnt, boot, life, fd_table, panic>>
    PROVE  VInv'
<1> DEFINE q == th[t]
<1>1. /\ panic = "no" /\ \A u \in Flow \ {t} : th[u].pc = "idle"
      /\ t \in Thread => life[t] # "none" /\ q.op # "mknod"
      /\ CallOK(q) /\ FindOK(q, Home(t)) /\ q \in Local
      /\ cwd \in [Flow -> Dirs] /\ Home(t) \in Ptr /\ fd_table \in [Thread -> [Fd -> Dirs]]
      /\ boot \in 1 .. 7 /\ Home(Main) = NULL
      /\ t = Main => Stage(boot, q)
  BY InCall
<1>2. r \in Local /\ th' = [th EXCEPT ![t] = r]
      /\ cwd' = IF r.op = "chdir" THEN [cwd EXCEPT ![t] = r.tgt] ELSE cwd
  BY DEF Walked, Put
<1>3. CallOK(r)
  BY <1>1 DEF Walked, CallOK
<1>4. t = Main => Stage(boot, r) /\ r.op # "chdir"
  BY <1>1 DEF Stage, MkdirStage, MountStage, MknodStage, Walked
<1>5. cwd' \in [Flow -> Dirs] /\ (\A u \in Flow \ {t} : Home(u)' = Home(u)) /\ (t = Main => Home(Main)' = NULL)
      /\ (r.op # "chdir" => cwd' = cwd) /\ Tidy'
  <2>1. cwd' \in [Flow -> Dirs] /\ (\A u \in Flow \ {t} : cwd'[u] = cwd[u]) /\ (r.op # "chdir" => cwd' = cwd)
        /\ cwd'[t] \in {cwd[t], r.tgt} /\ r.tgt # WILD
    BY <1>1, <1>2, InCall DEF Walked, Dirs, Ptr, Vnodes
  <2>2. Tidy /\ Thread \subseteq Flow
    BY InCall DEF Flow
  <2> QED
    BY <1>1, <1>4, <2>1, <2>2 DEF Tidy, Home
<1>6. FindOK(r, Home(t)')
  <2>1. CASE r.op = "chdir"
    BY <2>1 DEF FindOK
  <2>2. CASE r.op # "chdir"
    <3>1. Follows(q, Sought(q), Home(t)) /\ q.op # "chdir"
      BY <1>1, <2>2 DEF FindOK, Walked
    <3>2. Sought(r) = Sought(q) /\ Sought(q) \in Seq(STRING)
      BY <1>1, SoughtOK DEF Walked, Sought, CallOK
    <3>3. (r.pc = "walk" => Follows(r, Sought(r), Home(t))) /\ (r.pc = "looked" => Found(r, Sought(r), Home(t)))
      BY <1>1, <3>1, <3>2 DEF Walked
    <3>4. FindOK(r, Home(t))
      BY <1>1, <2>2, <3>1, <3>3 DEF FindOK, Walked
    <3> QED
      BY <1>5, <2>2, <3>4, SameHome
  <2> QED
    BY <2>1, <2>2
<1>7. r.pc # "setup" /\ q.pc # "setup" /\ q.pc # "idle" /\ r.pc # "idle"
  BY DEF Walked
<1>8. t \in Thread => r.op # "mknod"
  BY <1>1 DEF Walked
<1> QED
  BY <1>1, <1>2, <1>3, <1>4, <1>5, <1>6, <1>7, <1>8, CallStep

\* Every component of a lookup keeps the invariant, and follows no NULL vnode.
LEMMA WalkKeeps ==
    ASSUME ~ Interruptible, VInv, NEW t \in Flow, Walk(t)
    PROVE  VInv'
<1>1. Runs(t) /\ th[t].pc = "walk" /\ UNCHANGED <<node, mnt, boot, life, fd_table>>
  BY DEF Walk
<1>2. PICK q : q = th[t]
  OBVIOUS
<1>3. q \in Local /\ CallOK(q) /\ VTypes /\ RootOK /\ MountsOK /\ Settled /\ q.pc = "walk"
  <2>1. \A u \in Flow \ {t} : th[u].pc = "idle"
    BY <1>1, InCall
  <2>2. Settled
    BY <1>1, <2>1 DEF Settled
  <2> QED
    BY <1>1, <1>2, <2>2, InCall
<1>4. /\ q.cur \in Vnodes /\ q.cur \in Nat /\ q.cur # NULL /\ q.tgt \in Ptr
      /\ q.rest \in Seq(STRING) /\ (q.rest # <<>> => Tail(q.rest) \in Seq(STRING))
      /\ OK \in Int /\ EACCES \in Int \ {OK} /\ ENOENT \in Int \ {OK}
      /\ \A v \in Vnodes : v \in Nat /\ v \in Ptr
  <2>1. q.cur \in Vnodes /\ q.tgt \in Ptr
    BY <1>3 DEF CallOK
  <2>2. q.rest \in Seq(STRING) /\ (q.rest # <<>> => Tail(q.rest) \in Seq(STRING))
    <3>1. q.rest \in Seq(STRING)
      BY <1>3 DEF Local
    <3>2. \A s \in Seq(STRING) : s # <<>> => Tail(s) \in Seq(STRING)
      OBVIOUS
    <3> QED
      BY <3>1, <3>2
  <2>3. \A v \in Vnodes : v \in Nat /\ v \in Ptr /\ v # NULL
    BY <1>3, NodeFacts DEF Ptr
  <2> QED
    BY <2>1, <2>2, <2>3, Codes
<1>5. CASE WalkEnd(t)
  <2>1. PICK r : r = [q EXCEPT !.pc = "looked", !.tgt = q.cur, !.res = OK]
    OBVIOUS
  <2>2. q.rest = <<>> /\ Put(t, r) /\ UNCHANGED panic
    BY <1>2, <1>5, <2>1 DEF WalkEnd
  <2>3. r \in Local
    BY <1>3, <1>4, <2>1 DEF Local
  <2>4. r.pc = "looked" /\ r.tgt = q.cur /\ r.res = OK /\ r.op = q.op /\ r.path = q.path /\ r.arg = q.arg
        /\ r.dir = q.dir /\ r.vnode = q.vnode
    BY <1>3, <2>1 DEF Local
  <2>5. \A p \in Seq(STRING), c \in Ptr : Follows(q, p, c) => Found(r, p, c)
    BY <2>2, <2>4, FollowsAll
  <2>6. Walked(q, r)
    BY <1>4, <2>3, <2>4, <2>5 DEF Walked
  <2> QED
    BY <1>1, <1>2, <2>2, <2>6, WalkStep
<1>6. CASE WalkSkip(t)
  <2>1. PICK r : r = [q EXCEPT !.rest = Tail(q.rest)]
    OBVIOUS
  <2>2. q.rest # <<>> /\ Head(q.rest) \in {"", "."} /\ Put(t, r) /\ UNCHANGED panic
    BY <1>2, <1>6, <2>1 DEF WalkSkip
  <2>3. r \in Local
    BY <1>3, <1>4, <2>1, <2>2 DEF Local
  <2>4. r.pc = "walk" /\ r.rest = Tail(q.rest) /\ r.cur = q.cur /\ r.tgt = q.tgt /\ r.op = q.op
        /\ r.path = q.path /\ r.arg = q.arg /\ r.dir = q.dir /\ r.vnode = q.vnode
    BY <1>3, <2>1 DEF Local
  <2>5. r.cur = NextVnode(q.cur, Head(q.rest))
    BY <1>4, <2>2, <2>4 DEF NextVnode
  <2>6. \A p \in Seq(STRING), c \in Ptr : Follows(q, p, c) => Follows(r, p, c)
    BY <2>2, <2>4, <2>5, FollowsOn
  <2>7. Walked(q, r)
    BY <1>4, <2>3, <2>4, <2>6 DEF Walked
  <2> QED
    BY <1>1, <1>2, <2>2, <2>7, WalkStep
<1>7. CASE WalkUp(t)
  <2>1. PICK v : v = Up(q.cur)
    OBVIOUS
  <2>2. v \in Vnodes /\ v \in Nat /\ v # NULL /\ v \in Ptr
    <3>1. v \in Vnodes
      BY <1>3, <1>4, <2>1, UpOK
    <3> QED
      BY <1>3, <1>4, <3>1, NodeFacts
  <2>3. PICK r : r = IF q.cur = ROOT THEN [q EXCEPT !.rest = Tail(q.rest)]
                     ELSE [q EXCEPT !.rest = Tail(q.rest), !.cur = v, !.tgt = v]
    OBVIOUS
  <2>4. q.rest # <<>> /\ Head(q.rest) = ".." /\ Put(t, r) /\ UNCHANGED panic
    <3>1. q.rest # <<>> /\ Head(q.rest) = ".."
      BY <1>2, <1>7 DEF WalkUp
    <3>2. UNCHANGED panic /\ Put(t, IF q.cur = ROOT THEN [q EXCEPT !.rest = Tail(@)]
                ELSE IF v = NULL THEN [[q EXCEPT !.rest = Tail(@)] EXCEPT !.pc = "looked", !.res = EINTERR]
                ELSE [[q EXCEPT !.rest = Tail(@)] EXCEPT !.cur = v, !.tgt = v])
      BY <1>2, <1>4, <1>7, <2>1, Zenon DEF WalkUp
    <3>3. r = IF q.cur = ROOT THEN [q EXCEPT !.rest = Tail(@)]
                ELSE IF v = NULL THEN [[q EXCEPT !.rest = Tail(@)] EXCEPT !.pc = "looked", !.res = EINTERR]
                ELSE [[q EXCEPT !.rest = Tail(@)] EXCEPT !.cur = v, !.tgt = v]
      BY <1>3, <2>2, <2>3 DEF Local
    <3> QED
      BY <3>1, <3>2, <3>3
  <2>5. r \in Local
    <3>1. [q EXCEPT !.rest = Tail(q.rest)] \in Local
      BY <1>3, <1>4, <2>4 DEF Local
    <3>2. [q EXCEPT !.rest = Tail(q.rest), !.cur = v, !.tgt = v] \in Local
      BY <1>3, <1>4, <2>2, <2>4 DEF Local
    <3> QED
      BY <2>3, <3>1, <3>2
  <2>6. r.pc = "walk" /\ r.rest = Tail(q.rest) /\ r.op = q.op /\ r.path = q.path /\ r.arg = q.arg
        /\ r.dir = q.dir /\ r.vnode = q.vnode
        /\ (q.cur = ROOT => r.cur = q.cur /\ r.tgt = q.tgt)
        /\ (q.cur # ROOT => r.cur = v /\ r.tgt = v)
    BY <1>3, <2>3 DEF Local
  <2>7. r.cur = NextVnode(q.cur, Head(q.rest))
    <3>1. NextVnode(q.cur, Head(q.rest)) = v
      BY <1>4, <2>1, <2>4 DEF NextVnode
    <3>2. q.cur = ROOT => v = ROOT
      BY <2>1 DEF Up
    <3> QED
      BY <2>6, <3>1, <3>2
  <2>8. \A p \in Seq(STRING), c \in Ptr : Follows(q, p, c) => Follows(r, p, c)
    BY <2>4, <2>6, <2>7, FollowsOn
  <2>9. Walked(q, r)
    BY <1>4, <2>2, <2>5, <2>6, <2>8 DEF Walked
  <2> QED
    BY <1>1, <1>2, <2>4, <2>9, WalkStep
<1>8. CASE WalkDown(t)
  <2>1. PICK d : d = Cross(q.cur)
    OBVIOUS
  <2>2. d \in Vnodes /\ d # NULL
    <3>1. d \in Vnodes
      BY <1>3, <1>4, <2>1, CrossOK
    <3> QED
      BY <1>3, <3>1, NodeFacts
  <2>3. PICK k : k = Child(d, Head(q.rest))
    OBVIOUS
  <2>4. k \in Ptr /\ (k # NULL => Cross(k) \in Vnodes)
    <3>1. k \in Ptr
      BY <1>3, <2>2, <2>3, ChildOK
    <3> QED
      BY <1>3, <3>1, CrossOK DEF Ptr
  <2>5. q.rest # <<>> /\ Head(q.rest) \notin {"", ".", ".."} /\ UNCHANGED panic
        /\ Put(t, CASE node[d].type # "dir" -> [q EXCEPT !.pc = "looked", !.res = EACCES]
                    [] node[d].type = "dir" /\ k = NULL -> [q EXCEPT !.pc = "looked", !.res = ENOENT]
                    [] OTHER -> [q EXCEPT !.rest = Tail(@), !.cur = Cross(k)])
    BY <1>2, <1>4, <1>8, <2>1, <2>2, <2>3, Zenon DEF WalkDown
  <2>6. NextVnode(q.cur, Head(q.rest)) =
          IF k = NULL THEN NULL ELSE IF node[d].type # "dir" THEN NULL ELSE Cross(k)
    BY <1>4, <2>1, <2>2, <2>3, <2>5 DEF NextVnode
  <2>7. CASE node[d].type # "dir" \/ k = NULL
    <3>1. PICK e \in Int \ {OK} : Put(t, [q EXCEPT !.pc = "looked", !.res = e])
      <4>1. CASE node[d].type # "dir"
        BY <1>4, <2>5, <4>1
      <4>2. CASE node[d].type = "dir" /\ k = NULL
        BY <1>4, <2>5, <4>2
      <4> QED
        BY <2>7, <4>1, <4>2
    <3>2. PICK r : r = [q EXCEPT !.pc = "looked", !.res = e]
      OBVIOUS
    <3>3. r \in Local
      BY <1>3, <1>4, <3>2 DEF Local
    <3>4. r.pc = "looked" /\ r.res = e /\ r.tgt = q.tgt /\ r.op = q.op /\ r.path = q.path /\ r.arg = q.arg
          /\ r.dir = q.dir /\ r.vnode = q.vnode
      BY <1>3, <3>2 DEF Local
    <3>5. \A p \in Seq(STRING), c \in Ptr : Follows(q, p, c) => Found(r, p, c)
      <4>1. NextVnode(q.cur, Head(q.rest)) = NULL
        BY <2>6, <2>7
      <4>2. r.res # OK
        BY <3>1, <3>4
      <4> QED
        BY <2>5, <4>1, <4>2, FollowsEnd
    <3>6. Walked(q, r)
      BY <1>4, <3>1, <3>3, <3>4, <3>5 DEF Walked
    <3> QED
      BY <1>1, <1>2, <2>5, <3>1, <3>2, <3>6, WalkStep
  <2>8. CASE node[d].type = "dir" /\ k # NULL
    <3>1. PICK r : r = [q EXCEPT !.rest = Tail(q.rest), !.cur = Cross(k)]
      OBVIOUS
    <3>2. Put(t, r)
      BY <2>5, <2>8, <3>1
    <3>3. PICK v \in Vnodes : v = Cross(k) /\ v \in Nat
      BY <1>4, <2>4, <2>8
    <3>4. r \in Local
      BY <1>3, <1>4, <2>5, <3>1, <3>3 DEF Local
    <3>5. r.pc = "walk" /\ r.rest = Tail(q.rest) /\ r.cur = v /\ r.tgt = q.tgt /\ r.op = q.op
          /\ r.path = q.path /\ r.arg = q.arg /\ r.dir = q.dir /\ r.vnode = q.vnode
      BY <1>3, <3>1, <3>3 DEF Local
    <3>6. r.cur = NextVnode(q.cur, Head(q.rest))
      BY <2>6, <2>8, <3>3, <3>5
    <3>7. \A p \in Seq(STRING), c \in Ptr : Follows(q, p, c) => Follows(r, p, c)
      BY <2>5, <3>5, <3>6, FollowsOn
    <3>8. Walked(q, r)
      BY <1>4, <3>3, <3>4, <3>5, <3>7 DEF Walked
    <3> QED
      BY <1>1, <1>2, <2>5, <3>2, <3>8, WalkStep
  <2> QED
    BY <2>7, <2>8
<1>9. CASE WalkAstray(t)
  BY <1>9, WalkAstrayKeeps
<1> QED
  BY <1>5, <1>6, <1>7, <1>8, <1>9 DEF Walk

-----------------------------------------------------------------------------
(* The locals at the beginning and at the end of a call *)

\* A call is over.
LEMMA IdleRec ==
    ASSUME NEW x0 \in Int
    PROVE  /\ Idle(x0) \in Local /\ Idle(x0).pc = "idle" /\ CallOK(Idle(x0))
           /\ \A c : FindOK(Idle(x0), c)
<1> DEFINE r == Idle(x0)
<1>1. r \in Local
  <2>0. (x0 < 0) \in BOOLEAN
    OBVIOUS
  <2>1. PICK b \in BOOLEAN : b = (x0 < 0)
    BY <2>0, Zenon
  <2>4. PICK z \in Fd : z = 0
    BY Constants
  <2>2. r = [pc |-> "idle", op |-> "", path |-> <<>>, arg |-> "", rest |-> <<>>, cur |-> NULL,
             tgt |-> NULL, res |-> OK, dir |-> NULL, vnode |-> NULL, fd |-> z, failed |-> b]
    BY <2>1, <2>4, Zenon DEF Idle
  <2>3. <<>> \in Seq(STRING)
    OBVIOUS
  <2> HIDE DEF r
  <2> QED
    <3>1. PICK n \in Nat : n = NULL
      BY Codes
    <3>2. PICK o \in Int : o = OK
      BY Codes
    <3>3. PICK e \in Seq(STRING) : e = <<>>
      BY <2>3
    <3>4. PICK i \in STRING : i = ""
      BY Strings, Zenon
    <3>5. n \in Int
      OBVIOUS
    <3>6. r = [pc |-> "idle", op |-> i, path |-> e, arg |-> i, rest |-> e, cur |-> n,
               tgt |-> n, res |-> o, dir |-> n, vnode |-> n, fd |-> z, failed |-> b]
      BY <2>2, <3>1, <3>2, <3>3, <3>4
    <3> QED
      BY <3>4, <3>5, <3>6 DEF Local
<1>2. r.pc = "idle" /\ r.op = "" /\ r.tgt = NULL /\ r.vnode = NULL
  BY DEF Idle
<1>3. CallOK(r)
  <2> HIDE DEF r
  <2> QED
    BY <1>2 DEF CallOK, Ptr
<1>4. \A c : FindOK(r, c)
  <2> HIDE DEF r
  <2> QED
    BY <1>2, IdleFind
<1> QED
  BY <1>1, <1>2, <1>3, <1>4

\* A step that ends a call.
LEMMA ReturnStep ==
    ASSUME VInv, NEW t \in Flow, NEW x0 \in Int, Return(t, x0), UNCHANGED <<node, mnt, boot, life, cwd>>,
           panic' = "no", fd_table' \in [Thread -> [Fd -> Dirs]], Tidy' \/ UNCHANGED fd_table,
           \A u \in Flow \ {t} : th[u].pc = "idle", th[t].pc # "setup",
           t \in Thread => life[t] # "none",
           t = Main => th[Main].pc # "idle" /\ \A r : r.pc = "idle" => Stage(boot, r)
    PROVE  VInv'
<1>1. PICK r : r = Idle(x0)
  OBVIOUS
<1>2. th' = [th EXCEPT ![t] = r]
  BY <1>1 DEF Return
<1>3. r \in Local /\ r.pc = "idle" /\ CallOK(r) /\ FindOK(r, Home(t)')
  BY <1>1, IdleRec
<1>4. cwd \in [Flow -> Dirs] /\ boot \in 1 .. 7 /\ Home(Main) = NULL
      /\ Tidy /\ \A u : Home(u)' = Home(u)
  BY SameHome DEF VInv, TreeInv, VTypes, TypeOK, Flow, Ptr, BootOK, Dirs, Tidy
<1> QED
  BY <1>2, <1>3, <1>4, CallStep

\* A call begins.
Fresh(r, op, path, arg) ==
    /\ r \in Local /\ r.pc = "idle" /\ r.op = op /\ r.path = path /\ r.arg = arg
    /\ r.vnode = NULL /\ r.dir = NULL /\ r.tgt = NULL

\* Its locals.
LEMMA CallRec ==
    \A op \in {"open", "mkdir", "mount", "chdir", "mknod"}, path \in Seq(STRING), arg \in STRING :
        Fresh(Call(op, path, arg), op, path, arg)
<1> SUFFICES ASSUME NEW op \in {"open", "mkdir", "mount", "chdir", "mknod"}, NEW path \in Seq(STRING),
                    NEW arg \in STRING
             PROVE  Fresh(Call(op, path, arg), op, path, arg)
  OBVIOUS
<1>1. PICK i : i = Idle(OK)
  OBVIOUS
<1>2. i \in Local /\ i.pc = "idle" /\ i.vnode = NULL /\ i.dir = NULL /\ i.tgt = NULL
  BY <1>1, IdleRec, Codes DEF Idle
<1>3. PICK r : r = [i EXCEPT !.op = op, !.path = path, !.arg = arg]
  OBVIOUS
<1>4. r = Call(op, path, arg)
  BY <1>1, <1>3 DEF Call
<1>5. Fresh(r, op, path, arg)
  BY <1>2, <1>3 DEF Local, Fresh
<1> QED
  BY <1>4, <1>5

\* The locals of a call when a lookup of p began.
Begun(q, p, c, d, z) ==
    /\ z \in Local /\ CallOK(z) /\ z.pc \in {"walk", "looked"}
    /\ z.op = q.op /\ z.path = q.path /\ z.arg = q.arg /\ z.dir = d /\ z.vnode = NULL
    /\ z.pc = "walk" => Follows(z, p, c)
    /\ z.pc = "looked" => Found(z, p, c)
    /\ z.tgt \in Ptr

\* A lookup begins, of the path or of the directory to create in.
LEMMA LookupCall ==
    ASSUME VTypes, NEW q \in Local, NEW p \in Seq(STRING), NEW c \in Ptr
    PROVE  \A d \in Int : \A z :
             /\ z = [Lookup(q, p, c) EXCEPT !.dir = d] /\ d \in {NULL, -1}
             /\ Len(q.path) > 0 /\ q.op # "" /\ q.vnode = NULL
             /\ d = -1 => q.op \in {"open", "mkdir", "mknod"}
             /\ q.op = "mkdir" => d = -1
             /\ q.op = "open" => q.arg \in {"", "O_CREAT"}
             /\ q.op = "open" /\ d # NULL => q.arg = "O_CREAT"
             /\ q.op = "mount" => q.arg \in Registered
             => Begun(q, p, c, d, z)
<1>0. PICK s : s = Lookup(q, p, c)
  OBVIOUS
<1>1. /\ s \in Local /\ s.op = q.op /\ s.path = q.path /\ s.arg = q.arg
      /\ s.dir = q.dir /\ s.vnode = q.vnode /\ s.fd = q.fd
      /\ s.pc \in {"walk", "looked"} /\ s.tgt \in Ptr
      /\ s.pc = "walk" => s.cur \in Vnodes
  BY <1>0, LookupFacts
<1>2. (s.pc = "walk" => Follows(s, p, c)) /\ (s.pc = "looked" => Found(s, p, c))
  BY <1>0, LookupFinds
<1>3. s.pc = "looked" /\ s.res = OK => s.tgt \in Vnodes
  BY <1>0, LookupFacts, Codes
<1> SUFFICES ASSUME NEW d \in Int, NEW z, z = [s EXCEPT !.dir = d], d \in {NULL, -1},
                    Len(q.path) > 0, q.op # "", q.vnode = NULL,
                    d = -1 => q.op \in {"open", "mkdir", "mknod"}, q.op = "mkdir" => d = -1,
                    q.op = "open" => q.arg \in {"", "O_CREAT"}, q.op = "open" /\ d # NULL => q.arg = "O_CREAT",
                    q.op = "mount" => q.arg \in Registered
             PROVE  Begun(q, p, c, d, z)
  BY <1>0, Zenon
<1>4. z \in Local
  BY <1>1 DEF Local
<1>5. z.pc = s.pc /\ z.op = s.op /\ z.path = s.path /\ z.arg = s.arg /\ z.dir = d /\ z.vnode = s.vnode
      /\ z.tgt = s.tgt /\ z.res = s.res /\ z.cur = s.cur /\ z.rest = s.rest
  BY <1>1 DEF Local
<1>6. (z.pc = "walk" => Follows(z, p, c)) /\ (z.pc = "looked" => Found(z, p, c))
  BY <1>2, <1>5 DEF Follows, Found
<1>7. CallOK(z)
  <2>1. z.pc \in {"walk", "looked"} /\ z.tgt \in Ptr /\ z.vnode = NULL /\ z.vnode \in Ptr
        /\ (z.pc = "walk" => z.cur \in Vnodes) /\ (z.pc = "looked" /\ z.res = OK => z.tgt \in Vnodes)
        /\ Len(z.path) > 0 /\ z.op # ""
    BY <1>1, <1>3, <1>5 DEF Ptr
  <2>2. /\ z.op = "open" => z.arg \in {"", "O_CREAT"}
        /\ z.op = "mount" => z.arg \in Registered
        /\ z.dir # NULL /\ z.op = "open" => z.arg = "O_CREAT"
        /\ z.dir \in {NULL, -1} /\ (z.dir = -1 => z.op \in {"open", "mkdir", "mknod"})
        /\ z.op = "mkdir" => z.dir = -1
    BY <1>1, <1>5
  <2> QED
    BY <2>1, <2>2 DEF CallOK
<1> QED
  BY <1>1, <1>4, <1>5, <1>6, <1>7 DEF Begun

\* The trail of a path without its last component is the same.
LEMMA TrailFront ==
    ASSUME NEW p \in Seq(STRING), NEW c, Len(p) > 1, ~ (Len(p) = 2 /\ Abs(p))
    PROVE  \A i \in 0 .. Len(p) - 1 : Trail(Front(p), c)[i] = Trail(p, c)[i]
<1>1. PICK q : q = Front(p)
  OBVIOUS
<1>2. q \in Seq(STRING) /\ Len(q) = Len(p) - 1 /\ \A i \in 1 .. Len(p) - 1 : q[i] = p[i]
  <2>1. Len(p) > 0
    OBVIOUS
  <2> QED
    BY <1>1, <2>1, FrontFacts
<1>3. Abs(q) <=> Abs(p)
  <2>1. 1 \in 1 .. Len(p) - 1
    OBVIOUS
  <2>2. q[1] = p[1]
    BY <1>2, <2>1
  <2>3. Len(q) > 1 <=> Len(p) # 2
    BY <1>2
  <2>4. Len(p) # 2 => Len(p) > 1
    OBVIOUS
  <2> QED
    BY <2>2, <2>3, <2>4, Zenon DEF Abs
<1> DEFINE f == Trail(p, c)
           g == Trail(q, c)
           T == {n \in Nat : n \in 0 .. Len(p) - 1 /\ g[n] # f[n]}
<1>4. /\ f[0] = g[0]
      /\ \A i \in 1 .. Len(p) : f[i] = NextVnode(f[i - 1], p[i])
      /\ \A i \in 1 .. Len(q) : g[i] = NextVnode(g[i - 1], q[i])
  BY <1>2, <1>3, TrailFacts
<1> HIDE DEF f, g
<1>5. T = {}
  <2> SUFFICES ASSUME T # {} PROVE FALSE
    OBVIOUS
  <2>1. T \subseteq Nat
    OBVIOUS
  <2>2. PICK n \in T : \A i \in T : n <= i
    <3> HIDE DEF T
    <3> QED
      BY <2>1, Least
  <2>3. n \in Nat /\ n \in 0 .. Len(p) - 1 /\ g[n] # f[n] /\ n # 0
    BY <1>4, <2>2
  <2>4. n - 1 \in Nat /\ n - 1 \in 0 .. Len(p) - 1 /\ n \in 1 .. Len(p) /\ n \in 1 .. Len(p) - 1
        /\ n \in 1 .. Len(q) /\ ~ (n <= n - 1)
    BY <1>2, <2>3
  <2>5. f[n - 1] = g[n - 1]
    BY <2>2, <2>4
  <2>6. q[n] = p[n]
    BY <1>2, <2>4
  <2>7. f[n] = NextVnode(f[n - 1], p[n]) /\ g[n] = NextVnode(g[n - 1], q[n])
    BY <1>4, <2>4
  <2> QED
    BY <2>3, <2>5, <2>6, <2>7
<1>6. \A i \in 0 .. Len(p) - 1 : i \in Nat
  OBVIOUS
<1>7. \A i \in 0 .. Len(p) - 1 : g[i] = f[i]
  BY <1>5, <1>6
<1> QED
  BY <1>1, <1>7 DEF f, g

\* The directory of a path of one component, or of a name in the root.
LEMMA TrailShort ==
    ASSUME NEW p \in Seq(STRING), NEW c
    PROVE  /\ Len(p) = 1 => Trail(p, c)[Len(p) - 1] = c
           /\ Len(p) = 2 /\ Abs(p) => Trail(p, c)[Len(p) - 1] = ROOT
<1> DEFINE f == Trail(p, c)
<1>1. /\ f[0] = IF Abs(p) THEN ROOT ELSE c
      /\ \A i \in 1 .. Len(p) : f[i] = NextVnode(f[i - 1], p[i])
  BY TrailFacts
<1> HIDE DEF f
<1>2. Len(p) = 1 => f[Len(p) - 1] = c
  <2>1. Len(p) = 1 => ~ Abs(p)
    BY DEF Abs
  <2> QED
    BY <1>1, <2>1
<1>3. ASSUME Len(p) = 2, Abs(p) PROVE f[Len(p) - 1] = ROOT
  <2>1. p[1] = ""
    BY <1>3, Zenon DEF Abs
  <2>2. \A n : n = 2 => 1 \in 1 .. n /\ 1 - 1 = 0 /\ n - 1 = 1
    OBVIOUS
  <2>3. f[0] = ROOT /\ f[1] = NextVnode(f[0], "") /\ f[Len(p) - 1] = f[1]
    BY <1>1, <1>3, <2>1, <2>2, Zenon
  <2>4. NextVnode(ROOT, "") = ROOT
    BY Codes DEF NextVnode
  <2> QED
    BY <2>3, <2>4
<1> QED
  BY <1>2, <1>3 DEF f

\* The path of a name in the root directory.
TopPath(p) == Len(p) = 2 /\ Abs(p)

\* What vfs_open and vfs_mkdir know of the directory in which they create.
LEMMA FindParentFacts ==
    ASSUME VTypes, NEW q \in Local, NEW c \in Ptr, Len(q.path) > 0, q.vnode = NULL,
           q.op \in {"open", "mkdir", "mknod"}, q.op = "open" => q.arg = "O_CREAT", q.tgt \in Ptr,
           NEW z, z = FindParent(q, c)
    PROVE  /\ z \in Local /\ CallOK(z) /\ z.pc \in {"walk", "looked", "create", "result"}
           /\ z.op = q.op /\ z.path = q.path /\ z.arg = q.arg
           /\ (q.op # "mkdir" => Resolve(q.path, c) = NULL) => FindOK(z, c)
           /\ TopPath(q.path) => z.pc = "create" /\ z.dir = ROOT
           /\ Len(q.path) > 2 => z.pc \in {"walk", "looked"} /\ z.dir = -1
<1>1. PICK p \in Seq(STRING) : p = q.path
  BY DEF Local
<1>2. PICK abs : abs = (Len(p) = 2 /\ Abs(p))
  OBVIOUS
<1>3. PICK w : w = [Lookup(q, Front(p), c) EXCEPT !.dir = -1]
  OBVIOUS
<1>4. z = CASE Len(p) = 1 /\ c # NULL -> [q EXCEPT !.pc = "create", !.dir = c]
            [] Len(p) = 1 /\ c = NULL /\ q.op = "mkdir" -> [q EXCEPT !.pc = "result", !.res = EINTERR]
            [] Len(p) = 1 /\ c = NULL /\ q.op # "mkdir" -> [q EXCEPT !.pc = "create", !.dir = ROOT]
            [] abs -> [q EXCEPT !.pc = "create", !.dir = ROOT]
            [] OTHER -> w
  <2>1. \A n : n = 2 => n > 1
    OBVIOUS
  <2>2. Len(p) = 2 /\ p[1] = "" <=> abs
    BY <1>2, <2>1, Zenon DEF Abs
  <2> QED
    BY <1>1, <1>3, <2>2, Zenon DEF FindParent
<1>5. Len(p) \in Nat \ {0} /\ Len(p) > 0 /\ ROOT \in Vnodes /\ ROOT \in Int /\ ROOT # NULL /\ EINTERR \in Int \ {OK}
      /\ (c # NULL => c \in Vnodes) /\ c \in Int /\ \A v \in Vnodes : v \in Nat /\ v # NULL
  <2>1. Len(p) \in Nat \ {0} /\ Len(p) > 0
    BY <1>1
  <2>2. ROOT \in Vnodes /\ \A v \in Vnodes : v \in Nat /\ v # NULL
    BY NodeFacts
  <2> QED
    BY <2>1, <2>2, Codes DEF Ptr
<1>6. CASE \E d \in Vnodes : z = [q EXCEPT !.pc = "create", !.dir = d]
                              /\ (Abs(p) \/ c # NULL => d = Trail(p, c)[Len(p) - 1]) /\ (abs => d = ROOT)
                              /\ Len(p) <= 2
  <2>1. PICK d \in Vnodes : /\ z = [q EXCEPT !.pc = "create", !.dir = d] /\ Len(p) <= 2
                            /\ Abs(p) \/ c # NULL => d = Trail(p, c)[Len(p) - 1]
                            /\ abs => d = ROOT
    BY <1>6
  <2>2. d \in Int /\ d \in Nat /\ d # NULL
    BY <1>5, <2>1
  <2>3. z \in Local
    BY <2>1, <2>2 DEF Local
  <2>4. z.pc = "create" /\ z.op = q.op /\ z.path = q.path /\ z.arg = q.arg /\ z.vnode = q.vnode /\ z.dir = d
        /\ z.tgt = q.tgt
    BY <2>1, <2>2 DEF Local
  <2>5. CallOK(z)
    BY <2>1, <2>2, <2>4 DEF CallOK, Ptr
  <2>6. (q.op # "mkdir" => Resolve(q.path, c) = NULL) => FindOK(z, c)
    BY <1>1, <2>1, <2>4 DEF FindOK
  <2>7. (abs => z.dir = ROOT) /\ ~ (Len(p) > 2)
    BY <1>5, <2>1, <2>4
  <2> QED
    BY <1>1, <1>2, <2>3, <2>4, <2>5, <2>6, <2>7, Zenon DEF TopPath
<1>7. CASE Len(p) = 1
  <2>1. Trail(p, c)[Len(p) - 1] = c
    BY <1>7, TrailShort
  <2>2. ~ abs /\ ~ Abs(p) /\ Len(p) # 2 /\ Len(p) <= 2 /\ ~ (Len(p) > 2)
    <3>1. \A n : n = 1 => n # 2 /\ n <= 2 /\ ~ (n > 2) /\ ~ (n > 1)
      OBVIOUS
    <3> QED
      BY <1>2, <1>7, <3>1, Zenon DEF Abs
  <2>3. CASE c # NULL
    <3>1. z = [q EXCEPT !.pc = "create", !.dir = c]
      BY <1>4, <1>7, <2>2, <2>3
    <3> QED
      BY <1>5, <1>6, <2>1, <2>2, <2>3, <3>1
  <2>4. CASE c = NULL /\ q.op # "mkdir"
    <3>1. z = [q EXCEPT !.pc = "create", !.dir = ROOT]
      BY <1>4, <1>7, <2>2, <2>4
    <3> QED
      BY <1>5, <1>6, <2>1, <2>2, <2>4, <3>1
  <2>5. CASE c = NULL /\ q.op = "mkdir"
    <3>1. z = [q EXCEPT !.pc = "result", !.res = EINTERR]
      BY <1>4, <1>7, <2>2, <2>5
    <3>2. z \in Local
      BY <1>5, <3>1 DEF Local
    <3>3. z.pc = "result" /\ z.op = q.op /\ z.path = q.path /\ z.arg = q.arg /\ z.vnode = q.vnode
          /\ z.tgt = q.tgt /\ z.res = EINTERR
      BY <1>5, <3>1 DEF Local
    <3>4. CallOK(z)
      BY <1>5, <2>5, <3>3 DEF CallOK, Ptr
    <3>5. FindOK(z, c)
      BY <2>5, <3>3 DEF FindOK
    <3>6. ~ TopPath(q.path) /\ ~ (Len(q.path) > 2)
      BY <1>1, <2>2, Zenon DEF TopPath
    <3> QED
      BY <3>2, <3>3, <3>4, <3>5, <3>6
  <2> QED
    BY <2>3, <2>4, <2>5
<1>8. CASE abs
  <2>0. Len(p) = 2 /\ Abs(p)
    BY <1>2, <1>8
  <2>1. Trail(p, c)[Len(p) - 1] = ROOT
    BY <2>0, TrailShort
  <2>2. z = [q EXCEPT !.pc = "create", !.dir = ROOT] /\ Len(p) <= 2
    BY <1>4, <1>8, <2>0
  <2> QED
    BY <1>5, <1>6, <2>1, <2>2
<1>9. CASE Len(p) # 1 /\ ~ abs
  <2>1. z = w
    BY <1>4, <1>9
  <2>0. Len(p) # 1
    BY <1>9, Zenon
  <2>2. Len(p) > 1
    <3>1. \A n \in Nat \ {0} : n # 1 => n > 1
      OBVIOUS
    <3> QED
      BY <1>5, <2>0, <3>1, Zenon
  <2>3. Front(p) \in Seq(STRING)
    BY <1>5, FrontFacts
  <2>4. /\ z \in Local /\ CallOK(z) /\ z.pc \in {"walk", "looked"}
        /\ z.op = q.op /\ z.path = q.path /\ z.arg = q.arg /\ z.dir = -1 /\ z.vnode = NULL
        /\ z.pc = "walk" => Follows(z, Front(p), c)
        /\ z.pc = "looked" => Found(z, Front(p), c)
    <3>1. PICK d \in Int : d = -1
      OBVIOUS
    <3>2. z = [Lookup(q, Front(p), c) EXCEPT !.dir = d] /\ d \in {NULL, -1} /\ d = -1
      BY <1>3, <2>1, <3>1
    <3>3. q.op # "" /\ q.op # "mount"
      OBVIOUS
    <3>4. /\ z \in Local /\ CallOK(z) /\ z.pc \in {"walk", "looked"}
          /\ z.op = q.op /\ z.path = q.path /\ z.arg = q.arg /\ z.dir = d /\ z.vnode = NULL
          /\ z.pc = "walk" => Follows(z, Front(p), c)
          /\ z.pc = "looked" => Found(z, Front(p), c)
      <4>1. PICK f \in Seq(STRING) : f = Front(p)
        BY <2>3
      <4>2. z = [Lookup(q, f, c) EXCEPT !.dir = d]
        BY <3>2, <4>1
      <4>3. d \in {NULL, -1} /\ d = -1
        BY <3>1
      <4>4. Begun(q, f, c, d, z)
        BY <3>3, <4>2, <4>3, LookupCall
      <4> QED
        BY <4>1, <4>4, Zenon DEF Begun
    <3> QED
      BY <3>2, <3>4
  <2>5. (q.op # "mkdir" => Resolve(q.path, c) = NULL) => FindOK(z, c)
    <3>1. Sought(z) = Front(p)
      BY <1>1, <2>4 DEF Sought
    <3>2. Len(z.path) > 1 /\ ~ (Len(z.path) = 2 /\ Abs(z.path))
      BY <1>1, <1>2, <1>9, <2>2, <2>4, Zenon
    <3> QED
      BY <2>4, <3>1, <3>2 DEF FindOK
  <2> QED
    BY <1>1, <1>2, <1>9, <2>4, <2>5, Zenon DEF TopPath
<1> QED
  BY <1>7, <1>8, <1>9

-----------------------------------------------------------------------------
(* The paths of vfs_init *)

\* Their components.
LEMMA BootPaths ==
    /\ InitPath \in Seq(STRING) /\ Len(InitPath) = 2 /\ InitPath[1] = "" /\ InitPath[2] = "initramfs"
    /\ DevPath \in Seq(STRING) /\ Len(DevPath) = 2 /\ DevPath[1] = "" /\ DevPath[2] = "dev"
    /\ \A dev \in STRING :
          /\ FilePath(dev) \in Seq(STRING) /\ Len(FilePath(dev)) = 3
          /\ FilePath(dev)[1] = "" /\ FilePath(dev)[2] = "dev" /\ FilePath(dev)[3] = dev
<1>1. \A S : \A a, b \in S : <<a, b>> \in Seq(S)
  OBVIOUS
<1>2. \A a, b : Len(<<a, b>>) = 2 /\ <<a, b>>[1] = a /\ <<a, b>>[2] = b
  OBVIOUS
<1>3. \A S : \A a, b, c \in S : <<a, b, c>> \in Seq(S)
  OBVIOUS
<1>4. \A a, b, c : Len(<<a, b, c>>) = 3 /\ <<a, b, c>>[1] = a /\ <<a, b, c>>[2] = b /\ <<a, b, c>>[3] = c
  OBVIOUS
<1> QED
  BY <1>1, <1>2, <1>3, <1>4, Strings, Zenon DEF InitPath, DevPath, FilePath

\* They are absolute.
LEMMA BootAbs ==
    Abs(InitPath) /\ Abs(DevPath) /\ \A dev \in STRING : Abs(FilePath(dev))
<1>1. \A n : (n = 2 => n > 1) /\ (n = 3 => n > 1)
  OBVIOUS
<1> QED
  BY <1>1, BootPaths, Zenon DEF Abs

\* The directory and the name of a device file, and the names of the directories.
LEMMA BootFront ==
    /\ Last(InitPath) = "initramfs" /\ Last(DevPath) = "dev"
    /\ \A dev \in STRING : Front(FilePath(dev)) = DevPath /\ Last(FilePath(dev)) = dev
<1>1. \A n : (n = 2 => n > 0) /\ (n = 3 => n > 0 /\ n - 1 = 2 /\ 1 \in 1 .. 2 /\ 2 \in 1 .. 2)
  OBVIOUS
<1>2. Last(InitPath) = "initramfs" /\ Last(DevPath) = "dev"
  <2>1. Last(InitPath) = InitPath[Len(InitPath)] /\ Last(DevPath) = DevPath[Len(DevPath)]
    BY Zenon DEF Last
  <2> QED
    BY <2>1, BootPaths, Zenon
<1>3. ASSUME NEW dev \in STRING
      PROVE  Front(FilePath(dev)) = DevPath /\ Last(FilePath(dev)) = dev
  <2>1. PICK p \in Seq(STRING) : p = FilePath(dev)
    BY BootPaths
  <2>2. PICK f : f = Front(p)
    OBVIOUS
  <2>3. Len(p) = 3 /\ Len(p) > 0 /\ Len(p) - 1 = 2 /\ p[1] = "" /\ p[2] = "dev" /\ p[3] = dev
    BY <1>1, <2>1, BootPaths, Zenon
  <2>4. f \in Seq(STRING) /\ Len(f) = Len(p) - 1 /\ (\A i \in 1 .. Len(p) - 1 : f[i] = p[i]) /\ Last(p) = p[Len(p)]
    BY <2>2, <2>3, FrontFacts, Zenon
  <2>5. Len(f) = 2 /\ f[1] = "" /\ f[2] = "dev" /\ Last(p) = dev
    BY <1>1, <2>3, <2>4, Zenon
  <2>6. f = DevPath
    <3>1. PICK g \in Seq(STRING) : g = DevPath
      BY BootPaths
    <3>2. Len(g) = 2 /\ g[1] = "" /\ g[2] = "dev"
      BY <3>1, BootPaths
    <3>3. Len(f) = Len(g) /\ f[1] = g[1] /\ f[2] = g[2]
      BY <2>5, <3>2
    <3>4. \A i \in 1 .. Len(f) : f[i] = g[i]
      <4>1. \A n : n = 2 => \A i \in 1 .. n : i = 1 \/ i = 2
        OBVIOUS
      <4> QED
        BY <2>5, <3>3, <4>1, Zenon
    <3>5. f = g
      BY <2>4, <3>3, <3>4
    <3> QED
      BY <3>1, <3>5
  <2> QED
    BY <2>1, <2>2, <2>5, <2>6
<1> QED
  BY <1>2, <1>3

\* What absolute paths of two and three components name.
LEMMA ResolveShort ==
    \A p \in Seq(STRING) : \A c : Abs(p) =>
        /\ Len(p) = 2 => Resolve(p, c) = NextVnode(ROOT, p[2])
        /\ Len(p) = 3 => Resolve(p, c) = NextVnode(NextVnode(ROOT, p[2]), p[3])
<1> SUFFICES ASSUME NEW p \in Seq(STRING), Abs(p), NEW c
             PROVE  /\ Len(p) = 2 => Resolve(p, c) = NextVnode(ROOT, p[2])
                    /\ Len(p) = 3 => Resolve(p, c) = NextVnode(NextVnode(ROOT, p[2]), p[3])
  BY Zenon
<1> DEFINE f == Trail(p, c)
<1>1. f[0] = ROOT /\ \A i \in 1 .. Len(p) : f[i] = NextVnode(f[i - 1], p[i])
  BY TrailFacts
<1>2. Resolve(p, c) = f[Len(p)]
  BY DEF Resolve
<1> HIDE DEF f
<1>3. p[1] = "" /\ NextVnode(ROOT, "") = ROOT
  <2>1. NextVnode(ROOT, "") = ROOT
    BY Codes DEF NextVnode
  <2> QED
    BY <2>1, Zenon DEF Abs
<1>4. ASSUME Len(p) = 2 PROVE f[Len(p)] = NextVnode(ROOT, p[2])
  <2>1. \A n : n = 2 => 1 \in 1 .. n /\ 2 \in 1 .. n /\ 1 - 1 = 0 /\ 2 - 1 = 1
    OBVIOUS
  <2>2. f[1] = NextVnode(f[0], p[1]) /\ f[2] = NextVnode(f[1], p[2])
    BY <1>1, <1>4, <2>1, Zenon
  <2> QED
    BY <1>1, <1>3, <1>4, <2>2, Zenon
<1>5. ASSUME Len(p) = 3 PROVE f[Len(p)] = NextVnode(NextVnode(ROOT, p[2]), p[3])
  <2>1. \A n : n = 3 => 1 \in 1 .. n /\ 2 \in 1 .. n /\ 3 \in 1 .. n /\ 1 - 1 = 0 /\ 2 - 1 = 1 /\ 3 - 1 = 2
    OBVIOUS
  <2>2. f[1] = NextVnode(f[0], p[1]) /\ f[2] = NextVnode(f[1], p[2]) /\ f[3] = NextVnode(f[2], p[3])
    BY <1>1, <1>5, <2>1, Zenon
  <2> QED
    BY <1>1, <1>3, <1>5, <2>2, Zenon
<1> QED
  BY <1>2, <1>4, <1>5

\* The only child with a name.
LEMMA ChildIs ==
    ASSUME VTypes, DirectoryOK, NEW d \in Vnodes, NEW i \in DOMAIN node[d].kids
    PROVE  Child(d, node[node[d].kids[i]].name) = node[d].kids[i]
<1> DEFINE x == node[node[d].kids[i]].name
<1>1. Child(d, x) # NULL
  BY ChildOK
<1>2. PICK j \in DOMAIN node[d].kids : Child(d, x) = node[d].kids[j] /\ node[node[d].kids[j]].name = x
  <2>1. PICK y : y = x
    OBVIOUS
  <2>2. \E j \in DOMAIN node[d].kids : Child(d, y) = node[d].kids[j] /\ node[node[d].kids[j]].name = y
    BY <1>1, <2>1, ChildOK
  <2> QED
    BY <2>1, <2>2
<1>3. j = i
  BY <1>2 DEF DirectoryOK
<1> QED
  BY <1>2, <1>3

\* The directories of vfs_init.
LEMMA BuiltKids ==
    ASSUME VTypes, DirectoryOK
    PROVE  /\ \A k \in {1, 2, 3} : Built(k) => /\ InitRoot \in Vnodes
                                               /\ \A x : Child(ROOT, x) = IF x = "initramfs" THEN InitRoot ELSE NULL
           /\ \A k \in {4, 5} : Built(k) =>
                /\ Dev \in Vnodes /\ Dev # ROOT
                /\ Child(ROOT, "dev") = Dev
                /\ \A x : Child(Dev, x) = IF k = 5 /\ x = "uart" THEN Uart ELSE NULL
<1>0. ROOT \in Vnodes /\ \A v \in Vnodes : v # NULL
  BY NodeFacts
<1>1. ASSUME NEW k \in {1, 2, 3}, Built(k)
      PROVE  InitRoot \in Vnodes /\ \A x : Child(ROOT, x) = IF x = "initramfs" THEN InitRoot ELSE NULL
  <2>1. node[ROOT].kids = <<InitRoot>> /\ node[InitRoot].name = "initramfs"
    BY <1>1 DEF Built
  <2>2. DOMAIN node[ROOT].kids = {1} /\ node[ROOT].kids[1] = InitRoot
    BY <2>1
  <2>3. InitRoot \in Vnodes
    BY <1>0, <2>2, NodeFacts
  <2>4. Child(ROOT, "initramfs") = InitRoot
    BY <1>0, <2>1, <2>2, ChildIs
  <2>5. ASSUME NEW x, x # "initramfs" PROVE Child(ROOT, x) = NULL
    BY <1>0, <2>1, <2>2, <2>5, ChildOK
  <2> QED
    BY <2>3, <2>4, <2>5
<1>2. ASSUME NEW k \in {4, 5}, Built(k)
      PROVE  /\ Dev \in Vnodes /\ Dev # ROOT
             /\ Child(ROOT, "dev") = Dev
             /\ \A x : Child(Dev, x) = IF k = 5 /\ x = "uart" THEN Uart ELSE NULL
  <2>1. node[ROOT].kids = <<InitRoot, Dev>> /\ node[Dev].name = "dev"
    BY <1>2 DEF Built
  <2>2. 2 \in DOMAIN node[ROOT].kids /\ node[ROOT].kids[2] = Dev
    BY <2>1
  <2>3. Dev \in Vnodes
    BY <1>0, <2>2, NodeFacts
  <2>4. Child(ROOT, "dev") = Dev
    BY <1>0, <2>1, <2>2, ChildIs
  <2>5. Dev # ROOT
    BY Constants DEF Dev, ROOT
  <2>6. ASSUME k = 4, NEW x PROVE Child(Dev, x) = NULL
    <3>1. node[Dev].kids = <<>>
      BY <1>2, <2>6 DEF Built
    <3>2. DOMAIN node[Dev].kids = {}
      BY <3>1
    <3> QED
      BY <2>3, <3>2, ChildOK
  <2>7. ASSUME k = 5 PROVE \A x : Child(Dev, x) = IF x = "uart" THEN Uart ELSE NULL
    <3>1. node[Dev].kids = <<Uart>> /\ node[Uart].name = "uart"
      BY <1>2, <2>7 DEF Built
    <3>2. DOMAIN node[Dev].kids = {1} /\ node[Dev].kids[1] = Uart
      BY <3>1
    <3>3. Child(Dev, "uart") = Uart
      BY <2>3, <3>1, <3>2, ChildIs
    <3>4. ASSUME NEW x, x # "uart" PROVE Child(Dev, x) = NULL
      BY <2>3, <3>1, <3>2, <3>4, ChildOK
    <3> QED
      BY <3>3, <3>4
  <2>8. k = 4 => k # 5
    OBVIOUS
  <2> QED
    BY <2>3, <2>4, <2>5, <2>6, <2>7, <2>8
<1> QED
  BY <1>1, <1>2

\* What the lookups of vfs_init find.
LEMMA BuiltFinds ==
    ASSUME VTypes, DirectoryOK, NEW c
    PROVE  /\ Built(1) /\ node[InitRoot].mount = 0 => Resolve(InitPath, c) = InitRoot
           /\ Built(2) => Resolve(InitPath, c) = MountedRoot
           /\ \A k \in {4, 5} : Built(k) => Resolve(DevPath, c) = Dev
           /\ Built(4) => Resolve(FilePath("uart"), c) = NULL
           /\ Built(5) => Resolve(FilePath("framebuffer"), c) = NULL
<1>0. ROOT \in Vnodes /\ (\A v \in Vnodes : v # NULL) /\ ROOT # NULL
  BY NodeFacts
<1>1. ASSUME NEW k \in {1, 2, 4, 5}, Built(k) PROVE Cross(ROOT) = ROOT /\ node[ROOT].type = "dir"
  BY <1>1 DEF Cross, Built
<1>2. ASSUME NEW k \in {1, 2, 4, 5}, Built(k), NEW x, x \notin {"", ".", ".."}
      PROVE  NextVnode(ROOT, x) = IF Child(ROOT, x) = NULL THEN NULL ELSE Cross(Child(ROOT, x))
  BY <1>0, <1>1, <1>2 DEF NextVnode
<1>3. ASSUME NEW k \in {1, 2}, Built(k) PROVE Resolve(InitPath, c) = Cross(InitRoot)
  <2>1. Resolve(InitPath, c) = NextVnode(ROOT, "initramfs")
    <3>1. Resolve(InitPath, c) = NextVnode(ROOT, InitPath[2])
      BY BootPaths, BootAbs, ResolveShort, Zenon
    <3> QED
      BY <3>1, BootPaths
  <2>2. Child(ROOT, "initramfs") = InitRoot /\ InitRoot # NULL
    BY <1>0, <1>3, BuiltKids
  <2>3. NextVnode(ROOT, "initramfs") = Cross(InitRoot)
    BY <1>2, <1>3, <2>2
  <2> QED
    BY <2>1, <2>3
<1>4. Built(1) /\ node[InitRoot].mount = 0 => Resolve(InitPath, c) = InitRoot
  BY <1>3 DEF Cross
<1>5. Built(2) => Resolve(InitPath, c) = MountedRoot
  BY <1>3 DEF Cross, Built
<1>6. ASSUME NEW k \in {4, 5}, Built(k)
      PROVE  NextVnode(ROOT, "dev") = Dev /\ Cross(Dev) = Dev /\ node[Dev].type = "dir" /\ Dev # NULL
  <2>1. Child(ROOT, "dev") = Dev /\ Dev # NULL
    BY <1>0, <1>6, BuiltKids
  <2>2. Cross(Dev) = Dev /\ node[Dev].type = "dir"
    BY <1>6 DEF Cross, Built
  <2> QED
    BY <1>2, <1>6, <2>1, <2>2
<1>7. ASSUME NEW k \in {4, 5}, Built(k) PROVE Resolve(DevPath, c) = Dev
  <2>1. Resolve(DevPath, c) = NextVnode(ROOT, "dev")
    <3>1. Resolve(DevPath, c) = NextVnode(ROOT, DevPath[2])
      BY BootPaths, BootAbs, ResolveShort, Zenon
    <3> QED
      BY <3>1, BootPaths
  <2> QED
    BY <1>6, <1>7, <2>1
<1>8. ASSUME NEW k \in {4, 5}, Built(k), NEW dev \in STRING, dev \notin {"", ".", ".."}, Child(Dev, dev) = NULL
      PROVE  Resolve(FilePath(dev), c) = NULL
  <2>1. Resolve(FilePath(dev), c) = NextVnode(NextVnode(ROOT, "dev"), dev)
    <3>1. Resolve(FilePath(dev), c) = NextVnode(NextVnode(ROOT, FilePath(dev)[2]), FilePath(dev)[3])
      BY BootPaths, BootAbs, ResolveShort, Zenon
    <3> QED
      BY <3>1, BootPaths
  <2>2. NextVnode(Dev, dev) = NULL
    BY <1>6, <1>8 DEF NextVnode
  <2> QED
    BY <1>6, <1>8, <2>1, <2>2
<1>9. Built(4) => Resolve(FilePath("uart"), c) = NULL
  <2>1. Built(4) => Child(Dev, "uart") = NULL
    BY BuiltKids
  <2> QED
    BY <1>8, <2>1, Strings
<1>10. Built(5) => Resolve(FilePath("framebuffer"), c) = NULL
  <2>1. Built(5) => Child(Dev, "framebuffer") = NULL
    BY BuiltKids
  <2> QED
    BY <1>8, <2>1, Strings
<1> QED
  BY <1>4, <1>5, <1>7, <1>9, <1>10

-----------------------------------------------------------------------------
(* The calls, where they leave the tree alone *)

\* A thread begins a call.
LEMMA BeginStep ==
    ASSUME ~ Interruptible, VInv, NEW t \in Thread, Runs(t), life[t] # "none", th[t].pc = "idle",
           NEW r \in Local, th' = [th EXCEPT ![t] = r], r.pc # "setup",
           UNCHANGED <<node, mnt, boot, life, fd_table, panic>>, CallOK(r),
           cwd' \in [Flow -> Dirs], \A u \in Flow \ {t} : Home(u)' = Home(u), FindOK(r, Home(t)'),
           r.pc = "idle" \/ r.op # "mknod", Tidy' \/ UNCHANGED cwd
    PROVE  VInv'
<1>1. t \in Flow /\ t # Main
  BY Constants DEF Flow
<1>2. /\ panic = "no" /\ \A u \in Flow \ {t} : th[u].pc = "idle"
      /\ fd_table \in [Thread -> [Fd -> Dirs]]
  BY <1>1, InCall
<1> QED
  BY <1>1, <1>2, CallStep

\* A call goes on or ends.
LEMMA MoveStep ==
    ASSUME ~ Interruptible, VInv, NEW t \in Flow, Runs(t), th[t].pc \notin {"idle", "setup"},
           NEW r \in Local, th' = [th EXCEPT ![t] = r], r.pc # "setup",
           UNCHANGED <<node, mnt, boot, life, cwd, fd_table, panic>>,
           CallOK(r), FindOK(r, Home(t)), t = Main => Stage(boot, r), r.pc = "idle" \/ r.op = th[t].op
    PROVE  VInv'
<1>1. /\ panic = "no" /\ \A u \in Flow \ {t} : th[u].pc = "idle"
      /\ t \in Thread => life[t] # "none" /\ th[t].op # "mknod"
      /\ cwd \in [Flow -> Dirs] /\ fd_table \in [Thread -> [Fd -> Dirs]]
      /\ boot \in 1 .. 7 /\ Home(Main) = NULL
  BY InCall
<1>2. th[t].pc # "idle" /\ th[t].pc # "setup"
  OBVIOUS
<1>3. \A u : Home(u)' = Home(u)
  BY SameHome
<1> QED
  BY <1>1, <1>2, <1>3, CallStep

\* The paths that programs use.
LEMMA Paths ==
    /\ \A o \in Opens : o[1] \in Seq(STRING) /\ Len(o[1]) > 0
    /\ \A p \in Mkdirs \cup Mounts \cup Chdirs : p \in Seq(STRING) /\ Len(p) > 0
<1>1. \A s \in Seq(STRING) : s # <<>> => Len(s) > 0
  OBVIOUS
<1>2. \A o \in Opens : o[1] \in Seq(STRING) /\ o[1] # <<>>
  <2>1. \A o \in Opens : o \in Seq(STRING) \X BOOLEAN
    BY VfsAssumption, Zenon
  <2>2. \A o \in Seq(STRING) \X BOOLEAN : o[1] \in Seq(STRING)
    OBVIOUS
  <2>3. \A o \in Opens : o[1] \in {x[1] : x \in Opens}
    OBVIOUS
  <2>4. \A o \in Opens : o[1] # <<>>
    BY <2>3, VfsAssumption, Zenon
  <2> QED
    BY <2>1, <2>2, <2>4, Zenon
<1>3. \A p \in Mkdirs \cup Mounts \cup Chdirs : p \in Seq(STRING) /\ p # <<>>
  BY VfsAssumption, Zenon
<1> QED
  BY <1>1, <1>2, <1>3, Zenon

\* sys_open begins.
LEMMA OpenKeeps ==
    ASSUME ~ Interruptible, VInv, NEW t \in Thread, NEW o \in Opens, Open(t, o)
    PROVE  VInv'
<1>1. t \in Flow
  BY DEF Flow
<1>2. Runs(t) /\ life[t] # "none" /\ th[t].pc = "idle" /\ FreeFds(t) # {}
      /\ UNCHANGED <<node, mnt, boot, life, cwd, fd_table, panic>>
  BY DEF Open, Between
<1>3. VTypes /\ cwd \in [Flow -> Dirs] /\ Home(t) \in Ptr
  BY <1>1, <1>2, InCall
<1>4. PICK p \in Seq(STRING) : p = o[1] /\ Len(p) > 0
  BY Paths
<1>5. PICK arg \in STRING : arg = (IF o[2] THEN "O_CREAT" ELSE "") /\ arg \in {"", "O_CREAT"}
  BY Strings
<1>6. PICK k : k = Call("open", p, arg)
  OBVIOUS
<1>7. k \in Local /\ k.op = "open" /\ k.path = p /\ k.arg = arg /\ k.vnode = NULL /\ k.dir = NULL
  <2>1. Fresh(k, "open", p, arg)
    BY <1>6, CallRec, Zenon
  <2> QED
    BY <2>1 DEF Fresh
<1>8. PICK i \in Fd : i = FirstFd(t)
  <2>1. FreeFds(t) \subseteq Nat /\ FreeFds(t) \subseteq Fd
    BY Constants DEF FreeFds, Fd
  <2>2. \E i \in FreeFds(t) : \A j \in FreeFds(t) : i <= j
    BY <1>2, <2>1, Least
  <2>3. FirstFd(t) \in FreeFds(t)
    BY <2>2 DEF FirstFd
  <2> QED
    BY <2>1, <2>3
<1>9. PICK q : q = [k EXCEPT !.fd = i]
  OBVIOUS
<1>10. q \in Local /\ q.op = "open" /\ q.path = p /\ q.arg = arg /\ q.vnode = NULL /\ q.dir = NULL
  BY <1>7, <1>9 DEF Local
<1>11. PICK r : r = Lookup(q, p, Home(t))
  OBVIOUS
<1>12. th' = [th EXCEPT ![t] = r]
  BY <1>4, <1>5, <1>6, <1>8, <1>9, <1>11, Zenon DEF Open
<1>13. r \in Local /\ r.dir = NULL
  BY <1>3, <1>10, <1>11, LookupFacts
<1>14. Begun(q, p, Home(t), NULL, r)
  <2>1. r = [Lookup(q, p, Home(t)) EXCEPT !.dir = NULL]
    BY <1>11, <1>13 DEF Local
  <2>2. NULL \in Int /\ NULL \in {NULL, -1} /\ NULL # -1 /\ Len(q.path) > 0
    BY <1>4, <1>10, Codes
  <2>3. q.op # "" /\ q.op # "mkdir" /\ q.op # "mount" /\ (q.op = "open" => q.arg \in {"", "O_CREAT"})
    BY <1>5, <1>10
  <2> QED
    BY <1>3, <1>10, <2>1, <2>2, <2>3, LookupCall
<1>15. CallOK(r) /\ r.pc # "setup" /\ FindOK(r, Home(t))
  <2>1. /\ CallOK(r) /\ r.pc \in {"walk", "looked"} /\ r.op = "open" /\ r.path = p /\ r.dir = NULL
        /\ r.pc = "walk" => Follows(r, p, Home(t))
        /\ r.pc = "looked" => Found(r, p, Home(t))
    BY <1>10, <1>14 DEF Begun
  <2>2. NULL # -1
    BY Codes
  <2> QED
    BY <2>1, <2>2 DEF FindOK, Sought
<1>16. r.op # "mknod"
  BY <1>10, <1>14 DEF Begun
<1>17. \A u : Home(u)' = Home(u)
  BY <1>2, SameHome
<1> QED
  BY <1>2, <1>3, <1>12, <1>13, <1>15, <1>16, <1>17, BeginStep

\* sys_close.
LEMMA CloseKeeps ==
    ASSUME ~ Interruptible, VInv, NEW t \in Thread, NEW i \in Fd, Close(t, i)
    PROVE  VInv'
<1>1. t \in Flow /\ t # Main
  BY Constants DEF Flow
<1>2. Runs(t) /\ life[t] # "none" /\ th[t].pc = "idle" /\ UNCHANGED <<node, mnt, boot, life, cwd, panic>>
      /\ fd_table' = [fd_table EXCEPT ![t][i] = NULL]
  BY DEF Close, Between
<1>3. panic = "no" /\ (\A u \in Flow \ {t} : th[u].pc = "idle") /\ fd_table \in [Thread -> [Fd -> Dirs]]
      /\ Tidy /\ NULL # WILD
  BY <1>1, <1>2, InCall DEF Ptr
<1>4. fd_table' \in [Thread -> [Fd -> Dirs]] /\ Tidy'
  <2>1. fd_table' \in [Thread -> [Fd -> Dirs]]
    BY <1>2, <1>3 DEF Ptr, Dirs
  <2>2. \A u \in Thread, j \in Fd : fd_table'[u][j] \in {NULL, fd_table[u][j]}
    BY <1>2, <1>3
  <2> QED
    BY <1>2, <1>3, <2>1, <2>2 DEF Tidy
<1>5. PICK x0 \in Int : Return(t, x0)
  BY Codes DEF Close
<1> QED
  BY <1>1, <1>2, <1>3, <1>4, <1>5, ReturnStep

\* sys_mkdir begins.
LEMMA MkdirKeeps ==
    ASSUME ~ Interruptible, VInv, NEW t \in Thread, NEW p \in Mkdirs, Mkdir(t, p)
    PROVE  VInv'
<1>1. t \in Flow
  BY DEF Flow
<1>2. Runs(t) /\ life[t] # "none" /\ th[t].pc = "idle"
      /\ UNCHANGED <<node, mnt, boot, life, cwd, fd_table, panic>>
      /\ th' = [th EXCEPT ![t] = FindParent(Call("mkdir", p, ""), Home(t))]
  BY DEF Mkdir, Between
<1>3. VTypes /\ cwd \in [Flow -> Dirs] /\ Home(t) \in Ptr
  BY <1>1, <1>2, InCall
<1>4. p \in Seq(STRING) /\ Len(p) > 0
  BY Paths
<1>5. PICK q : q = Call("mkdir", p, "")
  OBVIOUS
<1>6. q \in Local /\ q.op = "mkdir" /\ q.path = p /\ q.vnode = NULL /\ q.tgt = NULL
  <2>1. Fresh(q, "mkdir", p, "")
    BY <1>4, <1>5, CallRec, Strings, Zenon
  <2> QED
    BY <2>1 DEF Fresh
<1>7. PICK r : r = FindParent(q, Home(t))
  OBVIOUS
<1>8. r \in Local /\ CallOK(r) /\ r.pc # "setup" /\ FindOK(r, Home(t))
  <2>1. q.op # "open" /\ q.op \in {"open", "mkdir", "mknod"} /\ Len(q.path) > 0 /\ q.tgt \in Ptr
    BY <1>4, <1>6 DEF Ptr
  <2> QED
    BY <1>3, <1>6, <1>7, <2>1, FindParentFacts
<1>9. r.op # "mknod"
  <2>1. q.op # "open" /\ q.op \in {"open", "mkdir", "mknod"} /\ Len(q.path) > 0 /\ q.tgt \in Ptr
    BY <1>4, <1>6 DEF Ptr
  <2>2. r.op = q.op
    BY <1>3, <1>6, <1>7, <2>1, FindParentFacts
  <2> QED
    BY <1>6, <2>2
<1>10. \A u : Home(u)' = Home(u)
  BY <1>2, SameHome
<1> QED
  BY <1>2, <1>3, <1>5, <1>7, <1>8, <1>9, <1>10, BeginStep

\* sys_mount begins.
LEMMA MountBegins ==
    ASSUME VTypes, NEW p \in Seq(STRING), Len(p) > 0, NEW fs \in STRING, fs \in Registered, NEW c \in Ptr,
           NEW r, r = Lookup(Call("mount", p, fs), p, c)
    PROVE  /\ r \in Local /\ CallOK(r) /\ r.pc \in {"walk", "looked"} /\ FindOK(r, c)
           /\ r.op = "mount" /\ r.path = p /\ r.arg = fs
<1>1. PICK q : q = Call("mount", p, fs)
  OBVIOUS
<1>2. q \in Local /\ q.op = "mount" /\ q.path = p /\ q.vnode = NULL /\ q.arg = fs /\ q.dir = NULL
  <2>1. Fresh(q, "mount", p, fs)
    BY <1>1, CallRec, Zenon
  <2> QED
    BY <2>1 DEF Fresh
<1>3. r \in Local /\ r.dir = NULL
  BY <1>1, <1>2, LookupFacts
<1>4. Begun(q, p, c, NULL, r)
  <2>1. r = [Lookup(q, p, c) EXCEPT !.dir = NULL]
    BY <1>1, <1>3 DEF Local
  <2>2. NULL \in Int /\ NULL \in {NULL, -1} /\ NULL # -1 /\ Len(q.path) > 0
    BY <1>2, Codes
  <2>3. q.op # "" /\ q.op # "mkdir" /\ q.op # "open" /\ q.arg \in Registered
    BY <1>2
  <2> QED
    BY <1>2, <2>1, <2>2, <2>3, LookupCall
<1>5. /\ CallOK(r) /\ r.pc \in {"walk", "looked"} /\ r.op = "mount" /\ r.path = p /\ r.arg = fs
      /\ r.pc = "walk" => Follows(r, p, c)
      /\ r.pc = "looked" => Found(r, p, c)
  BY <1>2, <1>4 DEF Begun
<1>6. FindOK(r, c)
  <2>1. NULL # -1
    BY Codes
  <2> QED
    BY <1>3, <1>5, <2>1 DEF FindOK, Sought
<1> QED
  BY <1>3, <1>5, <1>6

\* sys_mount.
LEMMA DoMountKeeps ==
    ASSUME ~ Interruptible, VInv, NEW t \in Thread, NEW p \in Mounts, NEW fs \in FsNames, DoMount(t, p, fs)
    PROVE  VInv'
<1>1. t \in Flow
  BY DEF Flow
<1>2. Runs(t) /\ life[t] # "none" /\ th[t].pc = "idle"
      /\ UNCHANGED <<node, mnt, boot, life, cwd, fd_table, panic>> /\ MountCall(t, p, fs)
  BY DEF DoMount, Between
<1>3. VTypes /\ cwd \in [Flow -> Dirs] /\ Home(t) \in Ptr
  BY <1>1, <1>2, InCall
<1>10. \A u : Home(u)' = Home(u)
  BY <1>2, SameHome
<1>4. p \in Seq(STRING) /\ Len(p) > 0
  BY Paths
<1>5. fs \in STRING
  BY VfsAssumption
<1>6. CASE fs \in Registered
  <2>1. PICK r : r = Lookup(Call("mount", p, fs), p, Home(t))
    OBVIOUS
  <2>2. th' = [th EXCEPT ![t] = r]
    BY <1>2, <1>6, <2>1 DEF MountCall
  <2>3. r \in Local /\ CallOK(r) /\ r.pc # "setup" /\ FindOK(r, Home(t)) /\ r.op # "mknod"
    BY <1>3, <1>4, <1>5, <1>6, <2>1, MountBegins
  <2> QED
    BY <1>2, <1>3, <1>10, <2>2, <2>3, BeginStep
<1>7. CASE fs \notin Registered
  <2>1. PICK r : r = Idle(ENODEV)
    OBVIOUS
  <2>2. th' = [th EXCEPT ![t] = r]
    BY <1>2, <1>7, <2>1 DEF MountCall
  <2>3. r \in Local /\ CallOK(r) /\ r.pc = "idle" /\ r.pc # "setup" /\ FindOK(r, Home(t))
    BY <2>1, IdleRec, Codes
  <2> QED
    BY <1>2, <1>3, <1>10, <2>2, <2>3, BeginStep
<1> QED
  BY <1>6, <1>7

\* sys_chdir begins: the working directory is the target of the lookup.
LEMMA ChdirKeeps ==
    ASSUME ~ Interruptible, VInv, NEW t \in Thread, NEW p \in Chdirs, Chdir(t, p)
    PROVE  VInv'
<1>1. t \in Flow
  BY DEF Flow
<1>2. Runs(t) /\ life[t] # "none" /\ th[t].pc = "idle" /\ UNCHANGED <<node, mnt, boot, life, fd_table, panic>>
  BY DEF Chdir, Between
<1>3. VTypes /\ cwd \in [Flow -> Dirs]
  BY <1>1, <1>2, InCall
<1>4. p \in Seq(STRING) /\ Len(p) > 0
  BY Paths
<1>5. PICK q : q = Call("chdir", p, "")
  OBVIOUS
<1>6. q \in Local /\ q.op = "chdir" /\ q.path = p /\ q.vnode = NULL /\ q.dir = NULL
  <2>1. Fresh(q, "chdir", p, "")
    BY <1>4, <1>5, CallRec, Strings, Zenon
  <2> QED
    BY <2>1 DEF Fresh
<1>7. PICK c \in Ptr : c = NULL
  BY DEF Ptr
<1>8. PICK r : r = Lookup(q, p, c)
  OBVIOUS
<1>9. r \in Local /\ r.dir = NULL
  BY <1>3, <1>4, <1>6, <1>8, LookupFacts
<1>10. Begun(q, p, c, NULL, r)
  <2>1. r = [Lookup(q, p, c) EXCEPT !.dir = NULL]
    BY <1>8, <1>9 DEF Local
  <2>2. NULL \in Int /\ NULL \in {NULL, -1} /\ NULL # -1 /\ Len(q.path) > 0
    BY <1>4, <1>6, Codes
  <2>3. q.op # "" /\ q.op # "mkdir" /\ q.op # "open" /\ q.op # "mount"
    BY <1>6
  <2> QED
    BY <1>3, <1>4, <1>6, <2>1, <2>2, <2>3, LookupCall
<1>11. CallOK(r) /\ r.pc # "setup" /\ r.op = "chdir" /\ r.tgt \in Ptr
  BY <1>6, <1>10 DEF Begun
<1>12. th' = [th EXCEPT ![t] = r] /\ cwd' = [cwd EXCEPT ![t] = r.tgt]
  <2>1. Put(t, r)
    BY <1>5, <1>7, <1>8, Zenon DEF Chdir
  <2> QED
    BY <1>11, <2>1 DEF Put
<1>13. cwd' \in [Flow -> Dirs] /\ (\A u \in Flow \ {t} : Home(u)' = Home(u)) /\ Tidy'
  <2>1. cwd' \in [Flow -> Dirs] /\ (\A u \in Flow \ {t} : cwd'[u] = cwd[u]) /\ cwd'[t] = r.tgt
    BY <1>1, <1>3, <1>11, <1>12 DEF Dirs
  <2>2. Tidy /\ r.tgt # WILD /\ Thread \subseteq Flow
    BY <1>1, <1>2, <1>11, InCall DEF Flow
  <2> QED
    BY <1>2, <2>1, <2>2 DEF Tidy, Home
<1>14. FindOK(r, Home(t)')
  BY <1>11 DEF FindOK
<1> QED
  BY <1>2, <1>9, <1>11, <1>12, <1>13, <1>14, BeginStep

\* sys_chdir ends.
LEMMA ChdirLookedKeeps ==
    ASSUME ~ Interruptible, VInv, NEW t \in Flow, ChdirLooked(t)
    PROVE  VInv'
<1>1. Runs(t) /\ th[t].pc = "looked" /\ th[t].op = "chdir" /\ Return(t, th[t].res)
      /\ UNCHANGED <<node, mnt, boot, life, cwd, fd_table, panic>>
  BY DEF ChdirLooked
<1>2. th[t] \in Local /\ (t = Main => Stage(boot, th[t])) /\ boot \in 1 .. 7
  BY <1>1, InCall
<1>3. t # Main
  BY <1>1, <1>2 DEF Stage, MkdirStage, MountStage, MknodStage
<1>4. PICK r : r = Idle(th[t].res)
  OBVIOUS
<1>5. r \in Local /\ CallOK(r) /\ r.pc = "idle" /\ FindOK(r, Home(t))
  <2>1. th[t].res \in Int
    BY <1>2 DEF Local
  <2> QED
    BY <1>4, <2>1, IdleRec
<1> QED
  BY <1>1, <1>3, <1>4, <1>5, MoveStep DEF Return

\* The directory to create in was looked up.
LEMMA ParentFoundKeeps ==
    ASSUME ~ Interruptible, VInv, NEW t \in Flow, ParentFound(t)
    PROVE  VInv'
<1>1. Runs(t) /\ th[t].pc = "looked" /\ th[t].dir = -1
      /\ UNCHANGED <<node, mnt, boot, life, cwd, fd_table, panic>>
  BY DEF ParentFound
<1>2. PICK q : q = th[t]
  OBVIOUS
<1>3. /\ q \in Local /\ CallOK(q) /\ FindOK(q, Home(t)) /\ q.pc = "looked" /\ q.dir = -1
      /\ VTypes /\ DirectoryOK /\ boot \in 1 .. 7 /\ Home(Main) = NULL
      /\ t = Main => Stage(boot, q)
  BY <1>1, <1>2, InCall
<1>4. /\ q.op \in {"open", "mkdir", "mknod"} /\ Len(q.path) > 0 /\ q.path \in Seq(STRING) /\ q.res \in Int
      /\ q.tgt \in Ptr /\ (q.res = OK => q.tgt \in Vnodes) /\ q.vnode = NULL
      /\ q.op = "open" => q.arg = "O_CREAT"
  <2>1. NULL # -1
    BY Codes
  <2> QED
    BY <1>3, <2>1 DEF CallOK, Local
<1>5. /\ Found(q, Front(q.path), Home(t))
      /\ Len(q.path) > 1 /\ ~ (Len(q.path) = 2 /\ Abs(q.path))
      /\ q.op # "mkdir" => Resolve(q.path, Home(t)) = NULL
  <2>1. NULL # -1
    BY Codes
  <2> QED
    BY <1>3, <1>4, <2>1 DEF FindOK, Sought
<1>6. PICK x : x = IF q.res = OK /\ q.tgt = NULL THEN EACCES ELSE q.res
  OBVIOUS
<1>7. th' = [th EXCEPT ![t] = IF x = OK THEN [q EXCEPT !.pc = "create", !.dir = q.tgt]
                              ELSE Idle(IF q.op = "open" THEN -x ELSE x)]
  BY <1>2, <1>6 DEF ParentFound
<1>8. x = q.res
  <2>1. q.res = OK => q.tgt # NULL
    BY <1>3, <1>4, NodeFacts
  <2> QED
    BY <1>6, <2>1
<1>9. CASE q.res = OK
  <2>1. PICK d \in Vnodes : d = q.tgt
    BY <1>4, <1>9
  <2>2. d \in Int /\ d \in Nat /\ d # NULL
    BY <1>3, <2>1, NodeFacts
  <2>3. PICK r : r = [q EXCEPT !.pc = "create", !.dir = d]
    OBVIOUS
  <2>4. th' = [th EXCEPT ![t] = r]
    BY <1>7, <1>8, <1>9, <2>1, <2>3
  <2>5. r \in Local
    BY <1>3, <2>2, <2>3 DEF Local
  <2>6. r.pc = "create" /\ r.dir = d /\ r.op = q.op /\ r.path = q.path /\ r.arg = q.arg /\ r.vnode = q.vnode
        /\ r.tgt = q.tgt
    BY <1>3, <2>2, <2>3 DEF Local
  <2>7. CallOK(r)
    BY <1>3, <1>4, <2>2, <2>6 DEF CallOK, Ptr
  <2>8. FindOK(r, Home(t))
    <3>1. Resolve(Front(q.path), Home(t)) = d
      BY <1>5, <1>9, <2>1 DEF Found
    <3>2. Trail(q.path, Home(t))[Len(q.path) - 1] = d
      <4>1. PICK p \in Seq(STRING) : p = q.path
        BY <1>4
      <4>2. Len(p) > 1 /\ ~ (Len(p) = 2 /\ Abs(p))
        BY <1>5, <4>1
      <4>3. \A i \in 0 .. Len(p) - 1 : Trail(Front(p), Home(t))[i] = Trail(p, Home(t))[i]
        BY <4>2, TrailFront
      <4>4. Len(Front(p)) = Len(p) - 1 /\ Len(p) - 1 \in 0 .. Len(p) - 1
        <5>1. Len(p) > 0
          BY <1>4, <4>1
        <5>2. Len(p) - 1 \in 0 .. Len(p) - 1
          BY <5>1
        <5> QED
          BY <5>1, <5>2, FrontFacts
      <4> QED
        BY <3>1, <4>1, <4>3, <4>4 DEF Resolve
    <3> QED
      BY <1>5, <2>6, <3>2 DEF FindOK
  <2>9. ASSUME t = Main PROVE Stage(boot, r)
    <3>1. Stage(boot, q) /\ Home(t) = NULL
      BY <1>3, <2>9
    <3>2. (boot = 6 \/ boot = 7) /\ q.op = "mknod"
      BY <1>3, <1>4, <3>1 DEF Stage, MkdirStage, MountStage, MknodStage
    <3>3. d = Dev
      <4>1. \E k \in {4, 5}, dev \in {"uart", "framebuffer"} : Built(k) /\ q.path = FilePath(dev)
        BY <1>3, <3>1, <3>2 DEF Stage, MknodStage
      <4>2. Front(q.path) = DevPath
        BY <4>1, BootFront, Strings
      <4>3. Resolve(DevPath, Home(t)) = Dev
        BY <1>3, <4>1, BuiltFinds
      <4> QED
        BY <1>5, <1>9, <2>1, <4>2, <4>3 DEF Found
    <3> QED
      BY <1>3, <2>6, <3>1, <3>2, <3>3 DEF Stage, MknodStage
  <2>10. r.pc # "setup" /\ th[t].pc \notin {"idle", "setup"}
    BY <1>1, <2>6
  <2> QED
    BY <1>1, <1>2, <2>4, <2>5, <2>6, <2>7, <2>8, <2>9, <2>10, MoveStep
<1>10. CASE q.res # OK
  <2>1. PICK y \in Int : y = IF q.op = "open" THEN -x ELSE x
    BY <1>4, <1>8
  <2>2. PICK r : r = Idle(y)
    OBVIOUS
  <2>3. th' = [th EXCEPT ![t] = r]
    BY <1>7, <1>8, <1>10, <2>1, <2>2
  <2>4. r \in Local /\ CallOK(r) /\ r.pc = "idle" /\ FindOK(r, Home(t))
    BY <2>2, IdleRec
  <2>5. t # Main
    <3> SUFFICES ASSUME t = Main PROVE FALSE
      OBVIOUS
    <3>1. Stage(boot, q) /\ Home(t) = NULL
      BY <1>3
    <3>2. \E k \in {4, 5}, dev \in {"uart", "framebuffer"} : Built(k) /\ q.path = FilePath(dev)
      BY <1>3, <1>4, <3>1 DEF Stage, MkdirStage, MountStage, MknodStage
    <3>3. Front(q.path) = DevPath
      BY <3>2, BootFront, Strings
    <3>4. Resolve(DevPath, Home(t)) = Dev /\ Dev # NULL
      BY <1>3, <3>2, BuiltFinds, BuiltKids, NodeFacts
    <3> QED
      BY <1>5, <1>10, <3>3, <3>4 DEF Found
  <2>6. r.pc # "setup" /\ th[t].pc \notin {"idle", "setup"}
    BY <1>1, <2>4
  <2> QED
    BY <1>1, <2>3, <2>4, <2>5, <2>6, MoveStep
<1> QED
  BY <1>9, <1>10

\* Every call of vfs_init passes the checks.
LEMMA BootChecks ==
    ASSUME VTypes, DirectoryOK, NEW q \in Local, NEW b \in 1 .. 7, Stage(b, q), q.pc = "create"
    PROVE  /\ q.op \in {"mkdir", "mknod"} /\ Last(q.path) # ""
           /\ node[q.dir].fs = "tmpfs" /\ tmpfs_create_check(q.dir, Last(q.path)) = OK
<1>1. \/ q.op = "mkdir" /\ q.dir = ROOT /\ \/ q.path = InitPath /\ Built(0)
                                           \/ q.path = DevPath /\ Built(3)
      \/ q.op = "mknod" /\ q.dir = Dev /\ \/ q.path = FilePath("uart") /\ Built(4)
                                          \/ q.path = FilePath("framebuffer") /\ Built(5)
  BY DEF Stage, MkdirStage, MountStage, MknodStage
<1>2. {"initramfs", "dev", "uart", "framebuffer"} \cap LongName = {} /\ MAX_CHILDREN \in Nat /\ MAX_CHILDREN >= 2
  BY VfsAssumption
<1>3. ASSUME NEW d \in Vnodes, NEW x \in {"initramfs", "dev", "uart", "framebuffer"}, node[d].type = "dir",
             Child(d, x) = NULL, Len(node[d].kids) \in {0, 1}
      PROVE  tmpfs_create_check(d, x) = OK
  <2>1. ~ (Len(node[d].kids) >= MAX_CHILDREN)
    <3>1. \A n \in Nat : n >= 2 => ~ (0 >= n) /\ ~ (1 >= n)
      OBVIOUS
    <3> QED
      BY <1>2, <1>3, <3>1, Zenon
  <2>2. x \notin LongName /\ x # ""
    BY <1>2, Strings
  <2> QED
    BY <1>3, <2>1, <2>2 DEF tmpfs_create_check
<1>4. ROOT \in Vnodes /\ \A v \in Vnodes : v # NULL
  BY NodeFacts
<1>5. CASE q.op = "mkdir" /\ q.dir = ROOT /\ q.path = InitPath /\ Built(0)
  <2>1. node[ROOT].fs = "tmpfs" /\ node[ROOT].type = "dir" /\ node[ROOT].kids = <<>>
    BY <1>5 DEF Built
  <2>2. Len(node[ROOT].kids) = 0 /\ DOMAIN node[ROOT].kids = {}
    BY <2>1
  <2>3. \A x : Child(ROOT, x) = NULL
    BY <1>4, <2>2, ChildOK
  <2>4. Last(q.path) = "initramfs"
    BY <1>5, BootFront
  <2> QED
    BY <1>3, <1>4, <1>5, <2>1, <2>2, <2>3, <2>4
<1>6. CASE q.op = "mkdir" /\ q.dir = ROOT /\ q.path = DevPath /\ Built(3)
  <2>1. node[ROOT].fs = "tmpfs" /\ node[ROOT].type = "dir" /\ node[ROOT].kids = <<InitRoot>>
    BY <1>6 DEF Built
  <2>2. Len(node[ROOT].kids) = 1
    BY <2>1
  <2>3. Child(ROOT, "dev") = NULL
    BY <1>6, BuiltKids
  <2>4. Last(q.path) = "dev"
    BY <1>6, BootFront
  <2> QED
    BY <1>3, <1>4, <1>6, <2>1, <2>2, <2>3, <2>4
<1>7. ASSUME NEW k \in {4, 5}, Built(k), NEW dev \in {"uart", "framebuffer"}, k = 5 => dev = "framebuffer",
             q.op = "mknod", q.dir = Dev, q.path = FilePath(dev)
      PROVE  /\ q.op \in {"mkdir", "mknod"} /\ Last(q.path) # ""
             /\ node[q.dir].fs = "tmpfs" /\ tmpfs_create_check(q.dir, Last(q.path)) = OK
  <2>1. node[Dev].fs = "tmpfs" /\ node[Dev].type = "dir" /\ (node[Dev].kids = <<>> \/ node[Dev].kids = <<Uart>>)
    BY <1>7 DEF Built
  <2>2. Len(node[Dev].kids) \in {0, 1}
    <3>1. Len(<<>>) = 0 /\ \A a : Len(<<a>>) = 1
      OBVIOUS
    <3> QED
      BY <2>1, <3>1
  <2>3. Dev \in Vnodes /\ Child(Dev, dev) = NULL
    BY <1>7, BuiltKids
  <2>4. Last(q.path) = dev
    BY <1>7, BootFront, Strings
  <2> QED
    BY <1>3, <1>7, <2>1, <2>2, <2>3, <2>4
<1>8. CASE q.op = "mknod" /\ q.dir = Dev /\ q.path = FilePath("uart") /\ Built(4)
  <2>1. "uart" # "framebuffer" /\ 4 # 5
    OBVIOUS
  <2> QED
    BY <1>7, <1>8, <2>1
<1>9. CASE q.op = "mknod" /\ q.dir = Dev /\ q.path = FilePath("framebuffer") /\ Built(5)
  BY <1>7, <1>9
<1> QED
  BY <1>1, <1>5, <1>6, <1>8, <1>9, Zenon

\* The checks before a name is inserted.
LEMMA CheckKeeps ==
    ASSUME ~ Interruptible, VInv, NEW t \in Flow, Check(t)
    PROVE  VInv'
<1>1. Runs(t) /\ th[t].pc = "create" /\ UNCHANGED <<node, mnt, boot, life, cwd, fd_table, panic>>
  BY DEF Check
<1>2. PICK q : q = th[t]
  OBVIOUS
<1>3. /\ q \in Local /\ CallOK(q) /\ FindOK(q, Home(t)) /\ q.pc = "create"
      /\ VTypes /\ DirectoryOK /\ boot \in 1 .. 7
      /\ t = Main => Stage(boot, q)
  BY <1>1, <1>2, InCall
<1>4. q.dir \in Vnodes /\ q.vnode = NULL /\ q.op \in {"open", "mkdir", "mknod"}
  BY <1>3 DEF CallOK
<1>5. PICK res : res = IF q.op = "mkdir" /\ Last(q.path) = "" THEN EINVAL
                       ELSE IF node[q.dir].fs = "initramfs" THEN initramfs_create
                       ELSE tmpfs_create_check(q.dir, Last(q.path))
  OBVIOUS
<1>6. PICK pc : pc = IF res = OK THEN "insert" ELSE "result"
  OBVIOUS
<1>7. res \in Int
  BY <1>5, Codes DEF initramfs_create, tmpfs_create_check
<1>8. res = OK => /\ node[q.dir].type = "dir" /\ Last(q.path) # ""
                  /\ Child(q.dir, Last(q.path)) = NULL
                  /\ Len(node[q.dir].kids) < MAX_CHILDREN
  <2>1. res = OK => tmpfs_create_check(q.dir, Last(q.path)) = OK
    BY <1>5, Codes DEF initramfs_create
  <2>2. ASSUME NEW d \in Vnodes, NEW x, tmpfs_create_check(d, x) = OK
        PROVE  node[d].type = "dir" /\ x # "" /\ Child(d, x) = NULL /\ Len(node[d].kids) < MAX_CHILDREN
    <3>1. MAX_CHILDREN \in Nat /\ Len(node[d].kids) \in Nat
      BY <1>3, NodeFacts, Constants
    <3>2. ~ (Len(node[d].kids) >= MAX_CHILDREN)
      BY <2>2, Codes DEF tmpfs_create_check
    <3>3. node[d].type = "dir" /\ x # "" /\ Child(d, x) = NULL
      BY <2>2, Codes DEF tmpfs_create_check
    <3>4. PICK n \in Nat : n = Len(node[d].kids)
      BY <3>1
    <3>5. n < MAX_CHILDREN
      BY <3>1, <3>2, <3>4
    <3> QED
      BY <3>3, <3>4, <3>5
  <2> QED
    BY <1>4, <2>1, <2>2
<1>9. PICK r : r = [q EXCEPT !.res = res, !.pc = pc]
  OBVIOUS
<1>10. th' = [th EXCEPT ![t] = r]
  <2>1. th' = [th EXCEPT ![t].res = res, ![t].pc = pc]
    BY <1>2, <1>5, <1>6, Zenon DEF Check
  <2>2. th \in [Flow -> Local]
    BY <1>3 DEF VTypes
  <2> QED
    BY <1>2, <1>9, <2>1, <2>2
<1>11. r \in Local
  BY <1>3, <1>6, <1>7, <1>9 DEF Local
<1>12. r.pc = pc /\ r.res = res /\ r.dir = q.dir /\ r.op = q.op /\ r.path = q.path /\ r.arg = q.arg
       /\ r.vnode = q.vnode /\ r.tgt = q.tgt
  BY <1>3, <1>9 DEF Local
<1>13. CallOK(r)
  <2>1. q.dir # NULL
    BY <1>3, <1>4, NodeFacts
  <2>2. pc \in {"insert", "result"} /\ (pc = "insert" <=> res = OK)
    BY <1>6
  <2> QED
    BY <1>3, <1>4, <1>8, <1>12, <2>1, <2>2 DEF CallOK
<1>14. FindOK(r, Home(t))
  <2>1. pc \in {"insert", "result"}
    BY <1>6
  <2> QED
    BY <1>3, <1>4, <1>12, <2>1 DEF FindOK
<1>15. ASSUME t = Main PROVE Stage(boot, r)
  <2>1. Stage(boot, q)
    BY <1>3, <1>15
  <2>2. /\ q.op \in {"mkdir", "mknod"} /\ Last(q.path) # ""
        /\ node[q.dir].fs = "tmpfs" /\ tmpfs_create_check(q.dir, Last(q.path)) = OK
    BY <1>3, <2>1, BootChecks
  <2>3. res = OK /\ pc = "insert"
    BY <1>5, <1>6, <2>2
  <2> QED
    BY <1>3, <1>12, <2>1, <2>3 DEF Stage, MkdirStage, MountStage, MknodStage
<1>16. r.pc # "setup" /\ th[t].pc \notin {"idle", "setup"}
  BY <1>1, <1>6, <1>12
<1> QED
  BY <1>1, <1>2, <1>10, <1>11, <1>12, <1>13, <1>14, <1>15, <1>16, MoveStep

\* What create or mkdir returned.
LEMMA CreatedKeeps ==
    ASSUME ~ Interruptible, VInv, NEW t \in Flow, Created(t)
    PROVE  VInv'
<1>1. Runs(t) /\ th[t].pc = "result" /\ UNCHANGED <<node, mnt, boot, life, cwd, fd_table, panic>>
  BY DEF Created
<1>2. PICK q : q = th[t]
  OBVIOUS
<1>3. /\ q \in Local /\ CallOK(q) /\ FindOK(q, Home(t)) /\ q.pc = "result" /\ boot \in 1 .. 7
      /\ t = Main => Stage(boot, q)
  BY <1>1, <1>2, InCall
<1>4. CASE q.op = "mkdir"
  <2>1. PICK r : r = Idle(q.res)
    OBVIOUS
  <2>2. th' = [th EXCEPT ![t] = r]
    BY <1>2, <1>4, <2>1 DEF Created
  <2>3. r \in Local /\ CallOK(r) /\ r.pc = "idle" /\ FindOK(r, Home(t))
    <3>1. q.res \in Int
      BY <1>3 DEF Local
    <3> QED
      BY <2>1, <3>1, IdleRec
  <2>4. t = Main => Stage(boot, r)
    BY <1>3, <1>4, <2>3 DEF Stage, MkdirStage, MountStage, MknodStage
  <2>5. r.pc # "setup" /\ th[t].pc \notin {"idle", "setup"}
    BY <1>1, <2>3
  <2> QED
    BY <1>1, <2>2, <2>3, <2>4, <2>5, MoveStep
<1>5. CASE q.op # "mkdir"
  <2>1. PICK r : r = [q EXCEPT !.pc = "open"]
    OBVIOUS
  <2>2. th' = [th EXCEPT ![t] = r]
    BY <1>2, <1>5, <2>1 DEF Created
  <2>3. r \in Local
    BY <1>3, <2>1 DEF Local
  <2>4. r.pc = "open" /\ r.res = q.res /\ r.dir = q.dir /\ r.op = q.op /\ r.path = q.path /\ r.arg = q.arg
        /\ r.vnode = q.vnode /\ r.tgt = q.tgt
    BY <1>3, <2>1 DEF Local
  <2>5. CallOK(r)
    BY <1>3, <1>5, <2>4 DEF CallOK
  <2>6. FindOK(r, Home(t))
    BY <1>3, <1>5, <2>4 DEF FindOK
  <2>7. t = Main => Stage(boot, r)
    BY <1>3, <1>5, <2>4 DEF Stage, MkdirStage, MountStage, MknodStage
  <2>8. r.pc # "setup" /\ th[t].pc \notin {"idle", "setup"}
    BY <1>1, <2>4
  <2> QED
    BY <1>1, <1>2, <2>2, <2>3, <2>4, <2>5, <2>6, <2>7, <2>8, MoveStep
<1> QED
  BY <1>4, <1>5

\* The first lookup of vfs_open is over.
LEMMA OpenLookedKeeps ==
    ASSUME ~ Interruptible, VInv, NEW t \in Flow, OpenLooked(t)
    PROVE  VInv'
<1>1. Runs(t) /\ th[t].pc = "looked" /\ th[t].op \in {"open", "mknod"} /\ th[t].dir # -1
      /\ UNCHANGED <<node, mnt, boot, life, cwd, fd_table, panic>>
  BY DEF OpenLooked
<1>2. PICK q : q = th[t]
  OBVIOUS
<1>3. /\ q \in Local /\ CallOK(q) /\ FindOK(q, Home(t)) /\ q.pc = "looked" /\ q.dir # -1 /\ q.op \in {"open", "mknod"}
      /\ VTypes /\ DirectoryOK /\ boot \in 1 .. 7 /\ Home(Main) = NULL /\ Home(t) \in Ptr
      /\ t = Main => Stage(boot, q)
  BY <1>1, <1>2, InCall
<1>4. /\ Len(q.path) > 0 /\ q.res \in Int /\ q.tgt \in Ptr /\ (q.res = OK => q.tgt \in Vnodes)
      /\ q.vnode = NULL /\ q.dir = NULL
      /\ q.op = "open" => q.arg \in {"", "O_CREAT"}
  BY <1>3 DEF CallOK, Local
<1>5. Resolve(q.path, Home(t)) = IF q.res = OK THEN q.tgt ELSE NULL
  <2>1. q.op # "chdir" /\ Sought(q) = q.path
    BY <1>3 DEF Sought
  <2> QED
    BY <1>3, <2>1 DEF FindOK, Found
<1>6. ASSUME t = Main
      PROVE  /\ q.op = "mknod" /\ q.res # OK /\ Len(q.path) > 2 /\ q.arg # ""
             /\ \A r : (r.pc \in {"walk", "looked"} /\ r.op = q.op /\ r.path = q.path /\ r.arg = q.arg)
                       => Stage(boot, r)
  <2>1. Stage(boot, q) /\ Home(t) = NULL
    BY <1>3, <1>6
  <2>2. (boot = 6 \/ boot = 7) /\ q.op = "mknod"
    BY <1>3, <2>1 DEF Stage, MkdirStage, MountStage, MknodStage
  <2>3. \/ Built(4) /\ q.path = FilePath("uart") /\ q.arg = "uart"
        \/ Built(5) /\ q.path = FilePath("framebuffer") /\ q.arg = "framebuffer"
    BY <1>3, <2>1, <2>2 DEF Stage, MknodStage
  <2>4. Resolve(q.path, Home(t)) = NULL
    BY <1>3, <2>3, BuiltFinds
  <2>5. q.res # OK
    BY <1>3, <1>4, <1>5, <2>4, NodeFacts
  <2>6. Len(q.path) > 2
    <3>1. \A n : n = 3 => n > 2
      OBVIOUS
    <3> QED
      BY <2>3, <3>1, BootPaths, Strings, ZenonT(30)
  <2>7. ASSUME NEW r, r.pc \in {"walk", "looked"}, r.op = q.op, r.path = q.path, r.arg = q.arg
        PROVE  Stage(boot, r)
    BY <1>3, <2>1, <2>2, <2>7 DEF Stage, MknodStage
  <2>8. q.arg # ""
    <3>1. "uart" # "" /\ "framebuffer" # ""
      OBVIOUS
    <3> QED
      BY <2>3, <3>1
  <2>9. \A r : (r.pc \in {"walk", "looked"} /\ r.op = q.op /\ r.path = q.path /\ r.arg = q.arg)
                => Stage(boot, r)
    BY <2>7
  <2> QED
    BY <2>2, <2>5, <2>6, <2>8, <2>9, Zenon
<1>7. th[t].pc \notin {"idle", "setup"}
  BY <1>1
<1>8. CASE q.res = OK
  <2>1. PICK v \in Vnodes : v = q.tgt /\ v \in Nat /\ v # NULL
    BY <1>3, <1>4, <1>8, NodeFacts
  <2>2. PICK r : r = [q EXCEPT !.pc = "open", !.vnode = v]
    OBVIOUS
  <2>3. th' = [th EXCEPT ![t] = r]
    BY <1>2, <1>8, <2>1, <2>2 DEF OpenLooked
  <2>4. r \in Local
    BY <1>3, <2>1, <2>2 DEF Local
  <2>5. r.pc = "open" /\ r.res = q.res /\ r.dir = q.dir /\ r.op = q.op /\ r.path = q.path /\ r.arg = q.arg
        /\ r.vnode = v /\ r.tgt = q.tgt
    BY <1>3, <2>1, <2>2 DEF Local
  <2>6. CallOK(r)
    BY <1>3, <1>4, <2>1, <2>5 DEF CallOK, Ptr
  <2>7. FindOK(r, Home(t))
    BY <1>5, <1>8, <2>1, <2>5 DEF FindOK
  <2>8. t # Main /\ r.pc # "setup"
    BY <1>6, <1>8, <2>5
  <2> QED
    BY <1>1, <1>2, <1>7, <2>3, <2>4, <2>5, <2>6, <2>7, <2>8, MoveStep
<1>9. CASE q.res # OK /\ q.arg = ""
  <2>1. PICK y \in Int : y = - q.res
    <3>1. \A x \in Int : - x \in Int
      OBVIOUS
    <3> QED
      BY <1>4, <3>1
  <2>2. PICK r : r = Idle(y)
    OBVIOUS
  <2>3. th' = [th EXCEPT ![t] = r]
    BY <1>2, <1>9, <2>1, <2>2 DEF OpenLooked
  <2>4. r \in Local /\ CallOK(r) /\ r.pc = "idle" /\ FindOK(r, Home(t))
    BY <2>2, IdleRec
  <2>5. t # Main /\ r.pc # "setup"
    BY <1>6, <1>9, <2>4
  <2> QED
    BY <1>1, <1>7, <2>3, <2>4, <2>5, MoveStep
<1>10. CASE q.res # OK /\ q.arg # ""
  <2>1. PICK r : r = FindParent(q, Home(t))
    OBVIOUS
  <2>2. th' = [th EXCEPT ![t] = r]
    BY <1>2, <1>10, <2>1 DEF OpenLooked
  <2>3. q.op \in {"open", "mkdir", "mknod"} /\ (q.op = "open" => q.arg = "O_CREAT")
    BY <1>3, <1>4, <1>10
  <2>4. /\ r \in Local /\ CallOK(r) /\ r.pc \in {"walk", "looked", "create", "result"}
        /\ r.op = q.op /\ r.path = q.path /\ r.arg = q.arg
        /\ (q.op # "mkdir" => Resolve(q.path, Home(t)) = NULL) => FindOK(r, Home(t))
        /\ Len(q.path) > 2 => r.pc \in {"walk", "looked"} /\ r.dir = -1
    <3>1. /\ VTypes /\ q \in Local /\ Home(t) \in Ptr /\ Len(q.path) > 0 /\ q.vnode = NULL /\ q.tgt \in Ptr
      BY <1>3, <1>4
    <3> QED
      BY <2>1, <2>3, <3>1, FindParentFacts, ZenonT(30)
  <2>5. FindOK(r, Home(t)) /\ r.pc # "setup"
    BY <1>5, <1>10, <2>4
  <2>6. t = Main => Stage(boot, r)
    BY <1>6, <2>4
  <2> QED
    BY <1>1, <1>2, <1>7, <2>2, <2>4, <2>5, <2>6, MoveStep
<1> QED
  BY <1>8, <1>9, <1>10

\* The mount point was looked up: it is there.
LEMMA MountLookedKeeps ==
    ASSUME ~ Interruptible, VInv, NEW t \in Flow, MountLooked(t)
    PROVE  VInv'
<1>1. Runs(t) /\ th[t].pc = "looked" /\ th[t].op = "mount" /\ UNCHANGED <<node, mnt, boot, life, cwd, fd_table>>
  BY DEF MountLooked
<1>2. PICK q : q = th[t]
  OBVIOUS
<1>3. /\ q \in Local /\ CallOK(q) /\ FindOK(q, Home(t)) /\ q.pc = "looked" /\ q.op = "mount"
      /\ VTypes /\ DirectoryOK /\ boot \in 1 .. 7 /\ Home(Main) = NULL /\ Home(t) \in Ptr
      /\ t = Main => Stage(boot, q)
  BY <1>1, <1>2, InCall
<1>4. /\ Len(q.path) > 0 /\ q.res \in Int /\ q.tgt \in Ptr /\ (q.res = OK => q.tgt \in Vnodes /\ q.tgt # NULL)
      /\ q.arg \in Registered /\ q.vnode = NULL /\ q.dir = NULL
  <2>1. q.res = OK => q.tgt \in Vnodes
    BY <1>3 DEF CallOK
  <2>2. q.dir \in {NULL, -1} /\ q.dir # -1
    BY <1>3 DEF CallOK
  <2> QED
    BY <1>3, <2>1, <2>2, NodeFacts DEF CallOK, Local
<1>5. UNCHANGED panic
      /\ th' = [th EXCEPT ![t] = IF q.res # OK THEN Idle(q.res) ELSE IF Busy(q.tgt) THEN Idle(EBUSY)
                                 ELSE [q EXCEPT !.pc = "mount"]]
  BY <1>2, <1>4 DEF MountLooked
<1>6. th[t].pc \notin {"idle", "setup"}
  BY <1>1
<1>7. ASSUME t = Main PROVE q.res = OK /\ q.tgt = InitRoot /\ ~ Busy(q.tgt)
  <2>1. Stage(boot, q) /\ Home(t) = NULL
    BY <1>3, <1>7
  <2>2. q.path = InitPath /\ Built(1) /\ node[InitRoot].mount = 0
    BY <1>3, <2>1 DEF Stage, MkdirStage, MountStage, MknodStage
  <2>3. Resolve(q.path, Home(t)) = InitRoot
    BY <1>3, <2>2, BuiltFinds
  <2>4. Found(q, q.path, Home(t))
    <3>1. NULL # -1
      BY Codes
    <3> QED
      BY <1>3, <1>4, <3>1 DEF FindOK, Sought
  <2>5. InitRoot # NULL
    BY DEF InitRoot, NULL
  <2>6. ~ node[InitRoot].isroot
    BY <2>2 DEF Built
  <2> QED
    BY <2>2, <2>3, <2>4, <2>5, <2>6 DEF Found, Busy
<1>8. CASE \E y \in Int : th' = [th EXCEPT ![t] = Idle(y)] /\ (q.res = OK => Busy(q.tgt))
  <2>1. PICK y \in Int : th' = [th EXCEPT ![t] = Idle(y)] /\ (q.res = OK => Busy(q.tgt))
    BY <1>8
  <2>2. PICK r : r = Idle(y)
    OBVIOUS
  <2>3. r \in Local /\ CallOK(r) /\ r.pc = "idle" /\ r.pc # "setup" /\ FindOK(r, Home(t))
    BY <2>2, IdleRec
  <2>4. t # Main
    BY <1>7, <2>1
  <2> QED
    BY <1>1, <1>5, <1>6, <2>1, <2>2, <2>3, <2>4, MoveStep
<1>9. CASE q.res = OK /\ ~ Busy(q.tgt)
  <2>1. PICK r : r = [q EXCEPT !.pc = "mount"]
    OBVIOUS
  <2>2. th' = [th EXCEPT ![t] = r]
    BY <1>5, <1>9, <2>1
  <2>3. r \in Local
    BY <1>3, <2>1 DEF Local
  <2>4. r.pc = "mount" /\ r.res = q.res /\ r.dir = q.dir /\ r.op = q.op /\ r.path = q.path /\ r.arg = q.arg
        /\ r.vnode = q.vnode /\ r.tgt = q.tgt
    BY <1>3, <2>1 DEF Local
  <2>5. CallOK(r)
    BY <1>3, <1>4, <1>9, <2>4 DEF CallOK
  <2>6. FindOK(r, Home(t))
    BY <2>4 DEF FindOK
  <2>7. t = Main => Stage(boot, r)
    BY <1>3, <1>7, <2>4 DEF Stage, MkdirStage, MountStage, MknodStage
  <2>8. r.pc # "setup"
    BY <2>4
  <2> QED
    BY <1>1, <1>2, <1>5, <1>6, <2>2, <2>3, <2>4, <2>5, <2>6, <2>7, <2>8, MoveStep
<1> QED
  BY <1>4, <1>5, <1>8, <1>9, Codes

-----------------------------------------------------------------------------
(* Steps that change the tree *)

\* The types after such a step.
LEMMA TreeTypes ==
    ASSUME VTypes, node' \in Seq(Vnode), Len(node') \in Nat \ {0}, Len(node') <= MAX_VNODE,
           Vnodes \subseteq Vnodes',
           \A v \in Vnodes' : /\ node'[v].parent \in Ptr'
                              /\ \A i \in DOMAIN node'[v].kids : node'[v].kids[i] \in Vnodes',
           mnt' \in [Mount -> Ptr' \cup {FREE}], UNCHANGED <<cwd, life, panic>>,
           fd_table' \in [Thread -> [Fd -> Dirs']], Tidy' \/ UNCHANGED fd_table,
           boot' \in 1 .. 7, th' \in [Flow -> Local]
    PROVE  VTypes'
<1>1. node' # <<>>
  BY Len(<<>>) = 0
<1>2. \A v \in Vnodes' : node'[v] \in Vnode
  BY DEF Vnodes
<1>3. cwd' \in [Flow -> Dirs']
  <2>1. cwd \in [Flow -> Dirs]
    BY DEF VTypes, TypeOK, Ptr, Flow, Dirs, Tidy
  <2> QED
    BY <2>1 DEF Ptr, Dirs
<1>4. panic' \in {"no", "vnode", "file", "wild"} /\ life' \in [Thread -> {"none", "live", "astray"}]
  BY DEF VTypes, TypeOK
<1>5. Tidy'
  BY SamePointers DEF VTypes, TypeOK, Tidy
<1>6. TypeOK'
  BY <1>2, <1>3, <1>4, <1>5 DEF TypeOK, Dirs, Tidy, Ptr, Flow
<1> QED
  BY <1>1, <1>4, <1>6 DEF VTypes

\* A step of one flow of control that changes the tree.
LEMMA TreeStep ==
    ASSUME VInv, NEW t \in Flow, NEW r \in Local, th' = [th EXCEPT ![t] = r],
           \A u \in Flow \ {t} : th[u].pc = "idle", panic = "no",
           UNCHANGED <<life, cwd, panic>>, boot' \in 1 .. 7,
           VTypes', DirectoryOK', RootOK', MountsOK', Vnodes \subseteq Vnodes',
           CallOK(r)', NEW c, c = Home(t), FindOK(r, c)', NEW b, b = boot',
           t \in Thread => life[t] # "none" /\ UNCHANGED boot /\ (r.pc = "idle" \/ r.op # "mknod"),
           t = Main => (boot < 7 \/ th[Main].pc # "idle") /\ Stage(b, r)'
    PROVE  VInv'
<1>0. VTypes /\ CallsOK /\ BootOK /\ OneCall /\ th \in [Flow -> Local] /\ Main \in Flow /\ Main \notin Thread
  BY Constants DEF VInv, TreeInv, VTypes, Flow
<1>1. th'[t] = r /\ \A u \in Flow \ {t} : th'[u] = th[u]
  BY <1>0
<1>2. OneCall'
  BY <1>0, <1>1 DEF OneCall, Flow
<1>3. CallsOK'
  <2> SUFFICES ASSUME NEW u \in Flow PROVE CallOK(th[u])'
    BY DEF CallsOK, Flow
  <2>1. PICK q : q = th'[u]
    OBVIOUS
  <2>2. CallOK(q)'
    <3>1. CASE u = t
      BY <1>1, <2>1, <3>1
    <3>2. CASE u # t
      <4>1. q.pc = "idle" /\ q = th[u]
        BY <1>1, <2>1, <3>2
      <4>2. CallOK(q)
        BY <1>0, <4>1 DEF CallsOK
      <4> QED
        BY <4>1, <4>2, IdleCall
    <3> QED
      BY <3>1, <3>2
  <2> QED
    BY <2>1, <2>2
<1>7. \A u : Home(u)' = Home(u)
  BY SameHome
<1>4. FindInv'
  <2> SUFFICES ASSUME NEW u \in Flow PROVE FindOK(th[u], Home(u))'
    BY DEF FindInv, Flow
  <2>1. PICK q : q = th'[u]
    OBVIOUS
  <2>2. PICK w : w = Home(u)'
    OBVIOUS
  <2>3. FindOK(q, w)'
    <3>1. CASE u = t
      BY <1>1, <1>7, <2>1, <2>2, <3>1
    <3>2. CASE u # t
      <4>1. q.pc = "idle"
        BY <1>1, <2>1, <3>2
      <4> QED
        BY <4>1, IdleFindNext
    <3> QED
      BY <3>1, <3>2
  <2> QED
    BY <2>1, <2>2, <2>3
<1>5. BootOK'
  <2>1. CASE t = Main
    <3>1. \A u \in Thread : life'[u] = "none"
      BY <1>0, <2>1 DEF BootOK
    <3>2. PICK q : q = th'[Main]
      OBVIOUS
    <3>3. Stage(b, q)'
      BY <1>1, <2>1, <3>2
    <3>4. Stage(boot, th[Main])'
      BY <3>2, <3>3
    <3> QED
      BY <1>0, <1>7, <3>1, <3>4 DEF BootOK
  <2>2. CASE t # Main
    <3>1. t \in Thread /\ UNCHANGED boot /\ life[t] # "none"
      BY <2>2 DEF Flow
    <3>2. boot = 7 /\ th[Main].pc = "idle"
      BY <3>1, Booted
    <3>3. PICK q : q = th'[Main]
      OBVIOUS
    <3>4. q.pc = "idle"
      BY <1>0, <1>1, <2>2, <3>2, <3>3
    <3>5. Stage(7, q)'
      BY <3>4 DEF Stage, MknodStage
    <3>6. Stage(boot, th[Main])'
      BY <3>1, <3>2, <3>3, <3>5
    <3> QED
      BY <1>0, <1>7, <3>1, <3>2, <3>3, <3>4, <3>6 DEF BootOK
  <2> QED
    BY <2>1, <2>2
<1>6. PanicOK'
  BY DEF PanicOK, OnlyFailedCreateIsNull
<1> QED
  BY <1>2, <1>3, <1>4, <1>5, <1>6 DEF VInv, TreeInv, Tree

\* Where the trails of two trees begin alike, they go on alike as long as each component
\* of the first leads to the same vnode in the second.
LEMMA SamePrefix ==
    ASSUME NEW p \in Seq(STRING), NEW f, NEW g, NEW k \in 0 .. Len(p), f[0] = g[0],
           \A i \in 1 .. Len(p) : g[i] = NextVnode(g[i - 1], p[i])',
           \A i \in 1 .. k : NextVnode(f[i - 1], p[i])' = f[i]
    PROVE  g[k] = f[k]
<1> DEFINE T == {n \in Nat : n \in 0 .. k /\ g[n] # f[n]}
<1>1. T = {}
  <2> SUFFICES ASSUME T # {} PROVE FALSE
    OBVIOUS
  <2>1. T \subseteq Nat
    OBVIOUS
  <2>2. PICK n \in T : \A i \in T : n <= i
    <3> HIDE DEF T
    <3> QED
      BY <2>1, Least
  <2>3. n \in Nat /\ n \in 0 .. k /\ g[n] # f[n] /\ n # 0
    BY <2>2
  <2>4. n - 1 \in Nat /\ n - 1 \in 0 .. k /\ n \in 1 .. k /\ n \in 1 .. Len(p) /\ ~ (n <= n - 1)
    BY <2>3
  <2>5. g[n - 1] = f[n - 1]
    BY <2>2, <2>4
  <2>6. PICK v : v = f[n - 1]
    OBVIOUS
  <2>7. PICK x : x = p[n]
    OBVIOUS
  <2>8. g[n] = NextVnode(v, x)'
    BY <2>4, <2>5, <2>6, <2>7
  <2>9. NextVnode(v, x)' = f[n]
    BY <2>4, <2>6, <2>7
  <2> QED
    BY <2>3, <2>8, <2>9
<1>2. k \in Nat /\ k \in 0 .. k
  OBVIOUS
<1> QED
  BY <1>1, <1>2

-----------------------------------------------------------------------------
(* A new name in a directory *)

\* l is s with one more element x.
Longer(l, s, x, S) ==
    /\ l \in Seq(S) /\ Len(l) = Len(s) + 1 /\ l[Len(s) + 1] = x
    /\ DOMAIN l = DOMAIN s \cup {Len(s) + 1} /\ Len(s) + 1 \notin DOMAIN s
    /\ \A i \in DOMAIN s : i \in DOMAIN l /\ l[i] = s[i]
    /\ Len(s) \in Nat /\ DOMAIN s = 1 .. Len(s)

\* That is what Append returns.
LEMMA AppendFacts ==
    \A S : \A s \in Seq(S) : \A x \in S : Longer(Append(s, x), s, x, S)
<1> SUFFICES ASSUME NEW S, NEW s \in Seq(S), NEW x \in S
             PROVE  Longer(Append(s, x), s, x, S)
  OBVIOUS
<1>0. PICK l : l = Append(s, x)
  OBVIOUS
<1>1. l \in Seq(S) /\ Len(l) = Len(s) + 1 /\ l[Len(s) + 1] = x
  BY <1>0
<1>2. Len(s) \in Nat /\ DOMAIN s = 1 .. Len(s) /\ DOMAIN l = 1 .. Len(s) + 1
  BY <1>1
<1>3. \A k \in Nat : 1 .. k + 1 = (1 .. k) \cup {k + 1} /\ k + 1 \notin 1 .. k
  OBVIOUS
<1>4. \A i \in 1 .. Len(s) : l[i] = s[i]
  BY <1>0
<1>5. DOMAIN l = DOMAIN s \cup {Len(s) + 1} /\ Len(s) + 1 \notin DOMAIN s
  BY <1>2, <1>3
<1>6. \A i \in DOMAIN s : i \in DOMAIN l /\ l[i] = s[i]
  BY <1>2, <1>4, <1>5
<1>7. Longer(l, s, x, S)
  BY <1>1, <1>2, <1>5, <1>6 DEF Longer
<1> QED
  BY <1>0, <1>7

\* d gets a child w of that name.
Added(d, w) ==
    /\ d \in Vnodes /\ w \in Vnode /\ Len(node) < MAX_VNODE /\ UNCHANGED mnt
    /\ w.kids = <<>> /\ w.parent = d /\ w.mount = node[d].mount /\ ~ w.isroot
    /\ node' = AddChild(d, w)

\* The vnodes after that.
LEMMA AddedNodes ==
    ASSUME VTypes, NEW d, NEW w, Added(d, w), NEW n, n = Len(node) + 1
    PROVE  /\ n \in Nat /\ n # NULL /\ n \notin Vnodes /\ Len(node') = n /\ n <= MAX_VNODE
           /\ Vnodes' = Vnodes \cup {n} /\ node' \in Seq(Vnode)
           /\ node'[n] = w
           /\ \A v \in Vnodes \ {d} : node'[v] = node[v]
           /\ node'[d] = [node[d] EXCEPT !.kids = Append(node[d].kids, n)]
<1>1. /\ node \in Seq(Vnode) /\ Len(node) \in Nat \ {0} /\ DOMAIN node = Vnodes /\ Vnodes = 1 .. Len(node)
      /\ \A v \in Vnodes : node[v] \in Vnode /\ node[v].kids \in Seq(Nat)
  BY NodeFacts
<1>2. d \in Vnodes /\ w \in Vnode /\ Len(node) < MAX_VNODE
      /\ node' = Append([node EXCEPT ![d].kids = Append(@, Len(node) + 1)], w)
  BY DEF Added, AddChild
<1>3. n \in Nat /\ n # NULL /\ n \notin Vnodes /\ n <= MAX_VNODE /\ n \in 1 .. n /\ 1 .. n = (1 .. Len(node)) \cup {n}
  BY <1>1, <1>2, Constants DEF NULL
<1>4. PICK k \in Seq(Nat) : k = Append(node[d].kids, n)
  <2>1. node[d].kids \in Seq(Nat) /\ n \in Nat
    BY <1>1, <1>2, <1>3
  <2> QED
    <3>1. Longer(Append(node[d].kids, n), node[d].kids, n, Nat)
      BY <2>1, AppendFacts, Zenon
    <3> QED
      BY <3>1 DEF Longer
<1>5. PICK x \in Vnode : x = [node[d] EXCEPT !.kids = k]
  BY <1>1, <1>2 DEF Vnode
<1>6. PICK s : s = [node EXCEPT ![d] = x]
  OBVIOUS
<1>7. node' = Append(s, w)
  BY <1>2, <1>3, <1>4, <1>5, <1>6
<1>8. s \in Seq(Vnode) /\ Len(s) = Len(node)
  BY <1>1, <1>2, <1>5, <1>6
<1>9. Len(node') = n /\ node' \in Seq(Vnode) /\ node'[n] = w /\ \A v \in 1 .. Len(node) : node'[v] = s[v]
  <2>1. /\ node' \in Seq(Vnode) /\ Len(node') = Len(s) + 1 /\ node'[Len(s) + 1] = w
        /\ Len(s) \in Nat /\ DOMAIN s = 1 .. Len(s) /\ \A v \in DOMAIN s : node'[v] = s[v]
    <3>1. Longer(node', s, w, Vnode)
      BY <1>2, <1>7, <1>8, AppendFacts, Zenon
    <3> QED
      BY <3>1 DEF Longer
  <2> QED
    BY <1>8, <2>1
<1>10. node'[d] = x /\ \A v \in Vnodes \ {d} : node'[v] = node[v]
  BY <1>1, <1>2, <1>6, <1>9
<1>11. Vnodes' = Vnodes \cup {n}
  BY <1>1, <1>3, <1>9 DEF Vnodes
<1> QED
  BY <1>3, <1>4, <1>5, <1>9, <1>10, <1>11

\* Its name is one of its directory's, and what the old vnodes are does not change.
LEMMA AddedFields ==
    ASSUME VTypes, NEW d, NEW w, Added(d, w), NEW n, n = Len(node) + 1
    PROVE  /\ \A v \in Vnodes : /\ node'[v].fs = node[v].fs /\ node'[v].type = node[v].type
                                /\ node'[v].name = node[v].name /\ node'[v].parent = node[v].parent
                                /\ node'[v].mount = node[v].mount /\ node'[v].isroot = node[v].isroot
           /\ \A v \in Vnodes \ {d} : node'[v].kids = node[v].kids
           /\ \A v \in Vnodes : \A i \in DOMAIN node[v].kids :
                 i \in DOMAIN node'[v].kids /\ node'[v].kids[i] = node[v].kids[i]
           /\ Len(node'[d].kids) = Len(node[d].kids) + 1
           /\ node'[d].kids[Len(node[d].kids) + 1] = n
           /\ DOMAIN node'[d].kids = DOMAIN node[d].kids \cup {Len(node[d].kids) + 1}
           /\ node'[d].kids \in Seq(Nat) /\ node'[d].kids = Append(node[d].kids, n)
           /\ Len(node[d].kids) + 1 \notin DOMAIN node[d].kids
<1>1. /\ n \in Nat /\ \A v \in Vnodes \ {d} : node'[v] = node[v]
      /\ node'[d] = [node[d] EXCEPT !.kids = Append(node[d].kids, n)]
  BY AddedNodes
<1>2. d \in Vnodes /\ node[d] \in Vnode /\ node[d].kids \in Seq(Nat)
  BY NodeFacts DEF Added
<1>3. PICK k \in Seq(Nat) : k = node[d].kids
  BY <1>2
<1>4. PICK l \in Seq(Nat) : l = Append(k, n)
  <2>1. Longer(Append(k, n), k, n, Nat)
    BY <1>1, AppendFacts, Zenon
  <2> QED
    BY <2>1 DEF Longer
<1>5. node'[d] = [node[d] EXCEPT !.kids = l]
  BY <1>1, <1>3, <1>4
<1>6. /\ node'[d].fs = node[d].fs /\ node'[d].type = node[d].type
      /\ node'[d].name = node[d].name /\ node'[d].parent = node[d].parent
      /\ node'[d].mount = node[d].mount /\ node'[d].isroot = node[d].isroot /\ node'[d].kids = l
  BY <1>2, <1>5 DEF Vnode
<1>7. /\ Len(l) = Len(k) + 1 /\ l[Len(k) + 1] = n /\ DOMAIN l = DOMAIN k \cup {Len(k) + 1}
      /\ Len(k) + 1 \notin DOMAIN k
      /\ \A i \in DOMAIN k : i \in DOMAIN l /\ l[i] = k[i]
  <2>1. Longer(l, k, n, Nat)
    BY <1>1, <1>4, AppendFacts, Zenon
  <2> QED
    BY <2>1 DEF Longer
<1>8. \A v \in Vnodes \ {d} : \A i \in DOMAIN node[v].kids :
         i \in DOMAIN node'[v].kids /\ node'[v].kids[i] = node[v].kids[i]
  BY <1>1
<1>9. \A v \in Vnodes \ {d} : /\ node'[v].fs = node[v].fs /\ node'[v].type = node[v].type
                                /\ node'[v].name = node[v].name /\ node'[v].parent = node[v].parent
                                /\ node'[v].mount = node[v].mount /\ node'[v].isroot = node[v].isroot
                                /\ node'[v].kids = node[v].kids
  BY <1>1
<1>10. \A i \in DOMAIN node[d].kids : i \in DOMAIN node'[d].kids /\ node'[d].kids[i] = node[d].kids[i]
  BY <1>3, <1>6, <1>7
<1>11. /\ Len(node'[d].kids) = Len(node[d].kids) + 1
       /\ node'[d].kids[Len(node[d].kids) + 1] = n
       /\ DOMAIN node'[d].kids = DOMAIN node[d].kids \cup {Len(node[d].kids) + 1}
       /\ node'[d].kids \in Seq(Nat) /\ node'[d].kids = Append(node[d].kids, n)
       /\ Len(node[d].kids) + 1 \notin DOMAIN node[d].kids
  BY <1>3, <1>4, <1>6, <1>7
<1> QED
  BY <1>6, <1>8, <1>9, <1>10, <1>11

\* It is a directory with one more name.
LEMMA AddedTree ==
    ASSUME VTypes, Tree, \A m \in Mount : mnt[m] # NULL, NEW d, NEW w, Added(d, w),
           Child(d, w.name) = NULL, Len(node[d].kids) < MAX_CHILDREN
    PROVE  /\ DirectoryOK' /\ RootOK' /\ MountsOK'
           /\ \A v \in Vnodes' : /\ node'[v].parent \in Ptr'
                                 /\ \A i \in DOMAIN node'[v].kids : node'[v].kids[i] \in Vnodes'
<1>0. PICK n : n = Len(node) + 1
  OBVIOUS
<1>1. /\ n \in Nat /\ n # NULL /\ n \notin Vnodes /\ Vnodes' = Vnodes \cup {n} /\ node'[n] = w
  BY <1>0, AddedNodes
<1>2. /\ \A v \in Vnodes : /\ node'[v].fs = node[v].fs /\ node'[v].type = node[v].type
                           /\ node'[v].name = node[v].name /\ node'[v].parent = node[v].parent
                           /\ node'[v].mount = node[v].mount /\ node'[v].isroot = node[v].isroot
      /\ \A v \in Vnodes \ {d} : node'[v].kids = node[v].kids
      /\ \A v \in Vnodes : \A i \in DOMAIN node[v].kids :
            i \in DOMAIN node'[v].kids /\ node'[v].kids[i] = node[v].kids[i]
      /\ Len(node'[d].kids) = Len(node[d].kids) + 1
      /\ node'[d].kids[Len(node[d].kids) + 1] = n
      /\ DOMAIN node'[d].kids = DOMAIN node[d].kids \cup {Len(node[d].kids) + 1}
  BY <1>0, AddedFields
<1>3. /\ d \in Vnodes /\ w.kids = <<>> /\ w.parent = d /\ w.mount = node[d].mount /\ ~ w.isroot /\ UNCHANGED mnt
  BY DEF Added
<1>4. DirectoryOK /\ RootOK /\ MountsOK
  BY DEF Tree
<1>5. /\ ROOT \in Vnodes /\ \A v \in Vnodes : node[v].parent \in Ptr /\ v # NULL
      /\ \A v \in Vnodes : \A i \in DOMAIN node[v].kids : node[v].kids[i] \in Vnodes
  BY NodeFacts
<1>6. DOMAIN w.kids = {} /\ Len(w.kids) = 0
  BY <1>3
<1>7. ASSUME NEW v \in Vnodes'
      PROVE  node'[v].parent \in Ptr' /\ \A i \in DOMAIN node'[v].kids : node'[v].kids[i] \in Vnodes'
  <2>1. Ptr' = Ptr \cup {n}
    BY <1>1 DEF Ptr
  <2>2. CASE v = n
    BY <1>1, <1>3, <1>6, <2>1, <2>2 DEF Ptr
  <2>3. CASE v \in Vnodes /\ v # d
    BY <1>1, <1>2, <1>5, <2>1, <2>3
  <2>4. CASE v = d
    BY <1>1, <1>2, <1>3, <1>5, <2>1, <2>4
  <2> QED
    BY <1>1, <2>2, <2>3, <2>4
<1>8. DirectoryOK'
  <2> SUFFICES ASSUME NEW v \in Vnodes'
               PROVE  /\ Len(node'[v].kids) <= MAX_CHILDREN
                      /\ \A i, j \in DOMAIN node'[v].kids :
                            node'[node'[v].kids[i]].name = node'[node'[v].kids[j]].name => i = j
                      /\ \A i \in DOMAIN node'[v].kids : node'[node'[v].kids[i]].parent = v
    BY DEF DirectoryOK
  <2>1. CASE v = n
    BY <1>1, <1>6, <2>1, Constants
  <2>2. CASE v \in Vnodes /\ v # d
    <3>1. node'[v].kids = node[v].kids
      BY <1>2, <2>2
    <3>2. \A i \in DOMAIN node[v].kids : /\ node'[node[v].kids[i]].name = node[node[v].kids[i]].name
                                         /\ node'[node[v].kids[i]].parent = node[node[v].kids[i]].parent
      BY <1>2, <1>5, <2>2
    <3>3. /\ Len(node[v].kids) <= MAX_CHILDREN
          /\ \A i, j \in DOMAIN node[v].kids :
                node[node[v].kids[i]].name = node[node[v].kids[j]].name => i = j
          /\ \A i \in DOMAIN node[v].kids : node[node[v].kids[i]].parent = v
      BY <1>4, <2>2 DEF DirectoryOK
    <3> QED
      BY <3>1, <3>2, <3>3
  <2>3. CASE v = d
    <3>1. Len(node'[d].kids) <= MAX_CHILDREN
      <4>1. PICK a \in Nat : a = Len(node[d].kids)
        <5>1. node[d].kids \in Seq(Nat)
          BY <1>3, NodeFacts
        <5> QED
          BY <5>1
      <4>2. a + 1 <= MAX_CHILDREN
        BY <4>1, Constants
      <4> QED
        BY <1>2, <4>1, <4>2
    <3>2. \A i \in DOMAIN node[d].kids : node[node[d].kids[i]].name # w.name
      BY <1>3, ChildOK
    <3>3. \A i \in DOMAIN node[d].kids : /\ node'[d].kids[i] = node[d].kids[i]
                                         /\ node'[node[d].kids[i]].name = node[node[d].kids[i]].name
                                         /\ node'[node[d].kids[i]].parent = d
      BY <1>2, <1>3, <1>4, <1>5 DEF DirectoryOK
    <3>4. node'[n].name = w.name /\ node'[n].parent = d
      BY <1>1, <1>3
    <3>5. \A i, j \in DOMAIN node[d].kids :
             node[node[d].kids[i]].name = node[node[d].kids[j]].name => i = j
      BY <1>3, <1>4 DEF DirectoryOK
    <3>6. PICK e : e = Len(node[d].kids) + 1
      OBVIOUS
    <3>7. DOMAIN node'[d].kids = DOMAIN node[d].kids \cup {e} /\ node'[d].kids[e] = n
      BY <1>2, <3>6
    <3>8. \A i, j \in DOMAIN node'[d].kids :
             node'[node'[d].kids[i]].name = node'[node'[d].kids[j]].name => i = j
      BY <3>2, <3>3, <3>4, <3>5, <3>7
    <3>9. \A i \in DOMAIN node'[d].kids : node'[node'[d].kids[i]].parent = d
      BY <3>3, <3>4, <3>7
    <3> QED
      BY <2>3, <3>1, <3>8, <3>9
  <2> QED
    BY <1>1, <2>1, <2>2, <2>3
<1>9. RootOK'
  BY <1>1, <1>2, <1>3, <1>4, <1>5 DEF RootOK
<1>10. MountsOK'
  <2>1. ASSUME NEW r \in Vnodes' \ {ROOT}, node'[r].isroot
        PROVE  node'[node'[r].parent].mount # 0 /\ mnt'[node'[node'[r].parent].mount] = r
    BY <1>1, <1>2, <1>3, <1>4, <2>1 DEF MountsOK, RootOK
  <2>2. ASSUME NEW v \in Vnodes', node'[v].mount # 0
        PROVE  /\ mnt'[node'[v].mount] # FREE
               /\ \/ mnt'[node'[v].mount] = NULL
                  \/ mnt'[node'[v].mount] # NULL /\ node'[mnt'[node'[v].mount]].parent = v
                  \/ v # ROOT /\ node'[node'[v].parent].mount = node'[v].mount
    <3>1. CASE v = n
      BY <1>1, <1>2, <1>3, <1>4, <1>5, <2>2, <3>1 DEF MountsOK
    <3>2. CASE v \in Vnodes
      <4>1. node'[v].mount = node[v].mount /\ node'[v].parent = node[v].parent /\ node[v].mount # 0
        BY <1>2, <2>2, <3>2
      <4>2. PICK m : m = node[v].mount
        OBVIOUS
      <4>3. m \in Mount /\ mnt[m] \in Ptr \cup {FREE}
        BY <3>2, <4>1, <4>2, NodeFacts, Constants DEF Mount
      <4>4. mnt[m] # FREE
        BY <1>4, <3>2, <4>1, <4>2 DEF MountsOK
      <4>5. mnt[m] \in Vnodes
        BY <4>3, <4>4 DEF Ptr
      <4>6. node'[mnt[m]].parent = node[mnt[m]].parent
        BY <1>2, <4>5
      <4>7. v # ROOT => node'[node[v].parent].mount = node[node[v].parent].mount
        BY <1>2, <1>4, <3>2 DEF RootOK
      <4>8. node[mnt[m]].parent = v \/ (v # ROOT /\ node[node[v].parent].mount = m)
        <5>1. mnt[m] # NULL
          BY <4>3
        <5> QED
          <6>1. \/ mnt[node[v].mount] = NULL
                \/ mnt[node[v].mount] # NULL /\ node[mnt[node[v].mount]].parent = v
                \/ v # ROOT /\ node[node[v].parent].mount = node[v].mount
            BY <1>4, <3>2, <4>1, Zenon DEF MountsOK
          <6> QED
            BY <4>2, <5>1, <6>1
      <4> QED
        BY <1>3, <4>1, <4>2, <4>3, <4>4, <4>6, <4>7, <4>8
    <3> QED
      BY <1>1, <3>1, <3>2
  <2>3. \A m \in Mount : mnt'[m] # NULL
    BY <1>3
  <2> QED
    BY <2>1, <2>2, <2>3 DEF MountsOK
<1> QED
  BY <1>7, <1>8, <1>9, <1>10

\* The name of a child leads to it.
LEMMA ChildIsEver ==
    VTypes /\ DirectoryOK => \A d \in Vnodes : \A i \in DOMAIN node[d].kids : \A x :
                                x = node[node[d].kids[i]].name => Child(d, x) = node[d].kids[i]
  BY ChildIs

\* ... and in the next state.
LEMMA ChildIsNext ==
    (VTypes /\ DirectoryOK => \A d \in Vnodes : \A i \in DOMAIN node[d].kids : \A x :
                                x = node[node[d].kids[i]].name => Child(d, x) = node[d].kids[i])'
  BY ChildIsEver, PTL

\* The trail of a path in the next state.
LEMMA TrailFactsNext ==
    (\A p \in Seq(STRING) : \A v :
        /\ Trail(p, v)[0] = IF Abs(p) THEN ROOT ELSE v
        /\ \A i \in 1 .. Len(p) : Trail(p, v)[i] = NextVnode(Trail(p, v)[i - 1], p[i]))'
  BY TrailFacts, PTL

\* After a name was added, a component that led somewhere leads there.
LEMMA AddedNext ==
    ASSUME VTypes, Tree, Settled, VTypes', DirectoryOK', NEW d, NEW w, Added(d, w),
           NEW c \in Vnodes, NEW x, NextVnode(c, x) # NULL
    PROVE  NextVnode(c, x)' = NextVnode(c, x)
<1>0. PICK n : n = Len(node) + 1
  OBVIOUS
<1>1. /\ DirectoryOK /\ RootOK /\ MountsOK /\ UNCHANGED mnt /\ Vnodes \subseteq Vnodes' /\ c # NULL
      /\ \A v \in Vnodes : v # NULL
  <2>1. DirectoryOK /\ RootOK /\ MountsOK /\ UNCHANGED mnt
    BY DEF Tree, Added
  <2>2. Vnodes \subseteq Vnodes'
    <3>1. Vnodes' = Vnodes \cup {n}
      BY <1>0, AddedNodes
    <3> QED
      BY <3>1
  <2>3. \A v \in Vnodes : v # NULL
    BY NodeFacts
  <2> QED
    BY <2>1, <2>2, <2>3
<1>2. /\ \A v \in Vnodes : /\ node'[v].type = node[v].type
                           /\ node'[v].name = node[v].name /\ node'[v].parent = node[v].parent
                           /\ node'[v].mount = node[v].mount
      /\ \A v \in Vnodes : \A i \in DOMAIN node[v].kids :
            i \in DOMAIN node'[v].kids /\ node'[v].kids[i] = node[v].kids[i]
  BY <1>0, AddedFields
<1>3. ASSUME NEW v \in Vnodes PROVE Cross(v)' = Cross(v)
  BY <1>1, <1>2 DEF Cross
<1>4. CASE x \in {"", "."}
  BY <1>1, <1>4 DEF NextVnode
<1>5. CASE x = ".."
  <2>1. node[c].parent # NULL => node[c].parent \in Vnodes
    BY NodeFacts DEF Ptr
  <2>2. Up(c)' = Up(c)
    BY <1>1, <1>2, <2>1 DEF Up
  <2>3. x \notin {"", "."}
    BY <1>5
  <2> QED
    BY <1>1, <1>5, <2>2, <2>3 DEF NextVnode
<1>6. CASE x \notin {"", ".", ".."}
  <2>1. PICK a : a = Cross(c)
    OBVIOUS
  <2>2. a \in Vnodes /\ a # NULL /\ Cross(c)' = a
    BY <1>1, <1>3, <2>1, CrossOK
  <2>3. PICK k : k = Child(a, x)
    OBVIOUS
  <2>4. k # NULL /\ node[a].type = "dir" /\ NextVnode(c, x) = Cross(k)
    BY <1>1, <1>6, <2>1, <2>2, <2>3 DEF NextVnode
  <2>5. PICK i \in DOMAIN node[a].kids : k = node[a].kids[i] /\ node[node[a].kids[i]].name = x
    BY <2>2, <2>3, <2>4, ChildOK
  <2>6. k \in Vnodes
    BY <2>2, <2>5, NodeFacts
  <2>7. a \in Vnodes' /\ i \in DOMAIN node'[a].kids /\ node'[a].kids[i] = k /\ node'[node'[a].kids[i]].name = x
    BY <1>1, <1>2, <2>2, <2>5, <2>6
  <2>8. (VTypes /\ DirectoryOK => \A v \in Vnodes : \A j \in DOMAIN node[v].kids : \A y :
                                y = node[node[v].kids[j]].name => Child(v, y) = node[v].kids[j])'
    BY ChildIsNext
  <2>9. Child(a, x)' = k
    BY <2>7, <2>8
  <2>10. node'[a].type = "dir" /\ Cross(k)' = Cross(k)
    BY <1>2, <1>3, <2>2, <2>4, <2>6
  <2> QED
    BY <1>1, <1>6, <2>2, <2>4, <2>9, <2>10 DEF NextVnode
<1> QED
  BY <1>4, <1>5, <1>6

\* The new name leads to the new vnode.
LEMMA AddedFound ==
    ASSUME VTypes, Tree, Settled, VTypes', DirectoryOK', NEW d, NEW w, Added(d, w),
           NEW x, x = w.name, node[d].type = "dir", node[d].mount = 0, NextVnode(d, x) = NULL,
           NEW n, n = Len(node) + 1
    PROVE  NextVnode(d, x)' = n
<1>1. /\ DirectoryOK /\ RootOK /\ MountsOK /\ UNCHANGED mnt /\ d \in Vnodes /\ d # NULL /\ w.mount = 0
      /\ n # NULL /\ n \in Vnodes' /\ d \in Vnodes' /\ node'[n] = w
  <2>1. DirectoryOK /\ RootOK /\ MountsOK /\ UNCHANGED mnt /\ d \in Vnodes /\ w.mount = 0
    BY DEF Tree, Added
  <2>2. n # NULL /\ node'[n] = w /\ Vnodes' = Vnodes \cup {n}
    BY AddedNodes
  <2>3. \A v \in Vnodes : v # NULL
    BY NodeFacts
  <2> QED
    BY <2>1, <2>2, <2>3
<1>2. /\ node'[d].mount = 0 /\ node'[d].type = "dir"
      /\ node'[d].kids[Len(node[d].kids) + 1] = n
      /\ Len(node[d].kids) + 1 \in DOMAIN node'[d].kids
  BY <1>1, AddedFields
<1>3. Up(d) \in Vnodes /\ Up(d) # NULL
  BY <1>1, UpOK, NodeFacts
<1>4. x \notin {"", ".", ".."}
  BY <1>1, <1>3 DEF NextVnode
<1>5. (VTypes /\ DirectoryOK => \A v \in Vnodes : \A j \in DOMAIN node[v].kids : \A y :
                                y = node[node[v].kids[j]].name => Child(v, y) = node[v].kids[j])'
  BY ChildIsNext
<1>6. Child(d, x)' = n
  <2>1. node'[n].name = x
    BY <1>1
  <2>2. PICK e : e = Len(node[d].kids) + 1
    OBVIOUS
  <2>3. e \in DOMAIN node'[d].kids /\ node'[d].kids[e] = n
    BY <1>2, <2>2
  <2> QED
    BY <1>1, <1>5, <2>1, <2>3
<1>7. Cross(d)' = d /\ Cross(n)' = n
  BY <1>1, <1>2 DEF Cross
<1> QED
  BY <1>1, <1>2, <1>4, <1>6, <1>7 DEF NextVnode

\* The path of a file that was not there leads to the new vnode.
LEMMA AddedResolve ==
    ASSUME VTypes, Tree, Settled, VTypes', DirectoryOK', NEW d, NEW w, Added(d, w),
           node[d].type = "dir", node[d].mount = 0,
           NEW p \in Seq(STRING), Len(p) > 0, w.name = Last(p),
           NEW c \in Ptr, d = Trail(p, c)[Len(p) - 1], Resolve(p, c) = NULL,
           NEW n, n = Len(node) + 1
    PROVE  Resolve(p, c)' = n
<1>1. PICK f : f = Trail(p, c)
  OBVIOUS
<1>2. PICK g : g = Trail(p, c)'
  OBVIOUS
<1>3. PICK k \in Nat : k = Len(p) - 1
  OBVIOUS
<1>4. k \in 0 .. Len(p) /\ Len(p) \in 1 .. Len(p) /\ Len(p) - 1 = k /\ Last(p) = p[Len(p)]
      /\ \A i \in 1 .. k : i \in 1 .. Len(p) /\ i - 1 \in 0 .. Len(p) /\ k \in i - 1 .. Len(p)
                           /\ i \in 0 .. Len(p) /\ k \in i .. Len(p)
  BY <1>3, FrontFacts
<1>5. /\ f[0] = (IF Abs(p) THEN ROOT ELSE c)
      /\ \A i \in 1 .. Len(p) : f[i] = NextVnode(f[i - 1], p[i])
  BY <1>1, TrailFacts
<1>6. (\A s \in Seq(STRING) : \A v :
        /\ Trail(s, v)[0] = IF Abs(s) THEN ROOT ELSE v
        /\ \A i \in 1 .. Len(s) : Trail(s, v)[i] = NextVnode(Trail(s, v)[i - 1], s[i]))'
  BY TrailFactsNext
<1>7. /\ g[0] = (IF Abs(p) THEN ROOT ELSE c)
      /\ \A i \in 1 .. Len(p) : g[i] = NextVnode(g[i - 1], p[i])'
  BY <1>2, <1>6
<1>8. d \in Vnodes /\ d # NULL /\ f[k] = d /\ \A v \in Vnodes : v # NULL
  BY <1>1, <1>3, NodeFacts DEF Added
<1>9. \A i \in 0 .. k : f[i] # NULL
  <2> SUFFICES ASSUME NEW i \in 0 .. k, f[i] = NULL PROVE FALSE
    OBVIOUS
  <2>1. i \in 0 .. Len(p) /\ k \in i .. Len(p)
    BY <1>3
  <2>2. f[k] = NULL
    BY <1>1, <2>1, TrailNull
  <2> QED
    BY <1>8, <2>2
<1>10. \A i \in 0 .. k : f[i] \in Vnodes
  <2> DEFINE T == {m \in Nat : m \in 0 .. k /\ f[m] \notin Vnodes}
  <2>1. T = {}
    <3> SUFFICES ASSUME T # {} PROVE FALSE
      OBVIOUS
    <3>1. T \subseteq Nat
      OBVIOUS
    <3>2. PICK m \in T : \A i \in T : m <= i
      <4> HIDE DEF T
      <4> QED
        BY <3>1, Least
    <3>3. m \in 0 .. k /\ m \in Nat /\ f[m] \notin Vnodes /\ f[m] # NULL
      BY <1>9, <3>2
    <3>4. CASE m = 0
      <4>1. c = NULL \/ c \in Vnodes
        BY DEF Ptr
      <4> QED
        BY <1>5, <3>3, <3>4, <4>1, NodeFacts
    <3>5. CASE m # 0
      <4>1. m - 1 \in Nat /\ m - 1 \in 0 .. k /\ m \in 1 .. Len(p) /\ ~ (m <= m - 1)
        BY <1>3, <3>3, <3>5
      <4>2. f[m - 1] \in Vnodes
        BY <3>2, <4>1
      <4>3. f[m] \in Ptr
        BY <1>5, <4>1, <4>2, NextOK DEF Ptr, Tree
      <4> QED
        BY <3>3, <4>3 DEF Ptr
    <3> QED
      BY <3>4, <3>5
  <2> QED
    BY <2>1, <1>3
<1>11. \A i \in 1 .. k : NextVnode(f[i - 1], p[i])' = f[i]
  <2> SUFFICES ASSUME NEW i \in 1 .. k PROVE NextVnode(f[i - 1], p[i])' = f[i]
    OBVIOUS
  <2>1. PICK v : v = f[i - 1]
    OBVIOUS
  <2>2. PICK x : x = p[i]
    OBVIOUS
  <2>3. i - 1 \in 0 .. k /\ i \in 0 .. k
    BY <1>3
  <2>4. v \in Vnodes /\ NextVnode(v, x) = f[i] /\ f[i] # NULL
    BY <1>4, <1>5, <1>9, <1>10, <2>1, <2>2, <2>3
  <2>5. NextVnode(v, x)' = NextVnode(v, x)
    BY <2>4, AddedNext
  <2> QED
    BY <2>1, <2>2, <2>4, <2>5
<1>12. g[k] = f[k]
  <2>1. f[0] = g[0] /\ k \in 0 .. Len(p)
    BY <1>4, <1>5, <1>7
  <2>2. \A i \in 1 .. Len(p) : g[i] = NextVnode(g[i - 1], p[i])'
    BY <1>7
  <2> QED
    BY <1>11, <2>1, <2>2, SamePrefix, ZenonT(30)
<1>13. PICK x : x = p[Len(p)]
  OBVIOUS
<1>14. NextVnode(d, x) = NULL
  <2>1. f[Len(p)] = NULL
    BY <1>1 DEF Resolve
  <2> QED
    BY <1>4, <1>5, <1>8, <1>13, <2>1
<1>15. NextVnode(d, x)' = n
  BY <1>4, <1>13, <1>14, AddedFound
<1>16. g[Len(p)] = NextVnode(d, x)'
  BY <1>4, <1>7, <1>8, <1>12, <1>13
<1> QED
  BY <1>2, <1>15, <1>16 DEF Resolve

\* The fields of a new vnode.
Made(w, fs, type, name, parent, m, isroot) ==
    /\ w \in Vnode /\ w.fs = fs /\ w.type = type /\ w.name = name /\ w.parent = parent /\ w.mount = m
    /\ w.isroot = isroot /\ w.kids = <<>>

\* They are those of a vnode.
LEMMA NewVnodeFacts ==
    \A fs \in Registered, type \in {"dir", "file"}, name \in STRING, parent \in Nat, m \in 0 .. MAX_MOUNT,
       isroot \in BOOLEAN :
        Made(NewVnode(fs, type, name, parent, m, isroot), fs, type, name, parent, m, isroot)
<1> SUFFICES ASSUME NEW fs \in Registered, NEW type \in {"dir", "file"}, NEW name \in STRING,
                    NEW parent \in Nat, NEW m \in 0 .. MAX_MOUNT, NEW isroot \in BOOLEAN
             PROVE  Made(NewVnode(fs, type, name, parent, m, isroot), fs, type, name, parent, m, isroot)
  OBVIOUS
<1>1. PICK e \in Seq(Nat) : e = <<>>
  <2>1. <<>> \in Seq(Nat)
    OBVIOUS
  <2> QED
    BY <2>1
<1>2. fs \in STRING
  BY Strings DEF Registered
<1>3. PICK w : w = [fs |-> fs, type |-> type, ops |-> fs, name |-> name, parent |-> parent,
                    mount |-> m, isroot |-> isroot, kids |-> e]
  OBVIOUS
<1>4. w = NewVnode(fs, type, name, parent, m, isroot)
  BY <1>1, <1>3 DEF NewVnode
<1>5. w \in Vnode
  BY <1>2, <1>3 DEF Vnode
<1>6. w.fs = fs /\ w.type = type /\ w.name = name /\ w.parent = parent /\ w.mount = m
      /\ w.isroot = isroot /\ w.kids = e
  BY <1>3
<1> QED
  BY <1>1, <1>4, <1>5, <1>6 DEF Made

\* vfs_init has room for its files and finds them where it made them.
LEMMA InsertStage ==
    ASSUME VTypes, NEW q \in Local, NEW b \in 1 .. 7, Stage(b, q), q.pc = "insert", Len(q.path) > 0
    PROVE  /\ Len(node) < MAX_VNODE
           /\ \A w, r : /\ Added(q.dir, w) /\ w.name = Last(q.path) /\ w.fs = "tmpfs"
                        /\ w.type = (IF q.op = "mkdir" THEN "dir" ELSE "file")
                        /\ r.pc = "result" /\ r.op = q.op /\ r.vnode # NULL
                        => Stage(b, r)'
<1>1. \/ b = 2 /\ q.op = "mkdir" /\ q.dir = ROOT /\ q.path = InitPath /\ Built(0)
      \/ b = 5 /\ q.op = "mkdir" /\ q.dir = ROOT /\ q.path = DevPath /\ Built(3)
      \/ b = 6 /\ q.op = "mknod" /\ q.dir = Dev /\ q.path = FilePath("uart") /\ Built(4)
      \/ b = 7 /\ q.op = "mknod" /\ q.dir = Dev /\ q.path = FilePath("framebuffer") /\ Built(5)
  BY DEF Stage, MkdirStage, MountStage, MknodStage
<1>2. PICK a \in Nat : a = ArchiveLen /\ MAX_VNODE \in Nat /\ MAX_VNODE >= a + 6
  BY Constants
<1>3. \A k \in {0, 3, 4, 5} : Built(k) =>
         /\ Len(node) < MAX_VNODE
         /\ Len(node) + 1 = CASE k = 0 -> InitRoot [] k = 3 -> Dev [] k = 4 -> Uart [] OTHER -> a + 6
  BY <1>2 DEF Built, InitRoot, Dev, Uart
<1>4. Len(node) < MAX_VNODE
  BY <1>1, <1>3
<1>5. ASSUME NEW w, NEW r, Added(q.dir, w), w.name = Last(q.path), w.fs = "tmpfs",
             w.type = (IF q.op = "mkdir" THEN "dir" ELSE "file"),
             r.pc = "result", r.op = q.op, r.vnode # NULL
      PROVE  Stage(b, r)'
  <2>1. PICK n : n = Len(node) + 1
    OBVIOUS
  <2>2. PICK d : d = q.dir
    OBVIOUS
  <2>3. Added(d, w)
    BY <1>5, <2>2
  <2>4. /\ n \notin Vnodes /\ Len(node') = n /\ node'[n] = w
        /\ \A v \in Vnodes \ {d} : node'[v] = node[v]
    BY <2>1, <2>3, AddedNodes
  <2>5. /\ \A v \in Vnodes : /\ node'[v].fs = node[v].fs /\ node'[v].type = node[v].type
                             /\ node'[v].name = node[v].name
                             /\ node'[v].mount = node[v].mount /\ node'[v].isroot = node[v].isroot
        /\ node'[d].kids = Append(node[d].kids, n)
    BY <2>1, <2>3, AddedFields
  <2>6. /\ w.kids = <<>> /\ w.parent = d /\ w.mount = node[d].mount /\ ~ w.isroot /\ UNCHANGED mnt
        /\ d \in Vnodes
    BY <2>3 DEF Added
  <2>7. ROOT \in Vnodes
    BY NodeFacts
  <2>8. CASE b = 2 /\ q.op = "mkdir" /\ q.dir = ROOT /\ q.path = InitPath /\ Built(0)
    <3>1. n = InitRoot /\ d = ROOT /\ w.name = "initramfs"
      BY <1>3, <1>5, <2>1, <2>2, <2>8, BootFront
    <3>2. node[ROOT].kids = <<>> /\ node[ROOT].fs = "tmpfs" /\ node[ROOT].type = "dir" /\ node[ROOT].mount = 0
          /\ \A m \in Mount : mnt[m] \in {NULL, FREE}
      BY <2>8 DEF Built
    <3>3. node'[ROOT].kids = <<InitRoot>>
      BY <2>5, <3>1, <3>2
    <3>4. Built(1)'
      BY <2>4, <2>5, <2>6, <2>7, <3>1, <3>2, <3>3 DEF Built, InitRoot
    <3> QED
      BY <1>5, <2>8, <3>4 DEF Stage, MkdirStage
  <2>9. CASE b = 5 /\ q.op = "mkdir" /\ q.dir = ROOT /\ q.path = DevPath /\ Built(3)
    <3>1. n = Dev /\ d = ROOT /\ w.name = "dev" /\ w.type = "dir"
      BY <1>3, <1>5, <2>1, <2>2, <2>9, BootFront
    <3>2. node[ROOT].kids = <<InitRoot>> /\ node[ROOT].fs = "tmpfs" /\ node[ROOT].type = "dir" /\ node[ROOT].mount = 0
          /\ node[InitRoot].name = "initramfs"
      BY <2>9 DEF Built
    <3>3. node'[ROOT].kids = <<InitRoot, Dev>>
      BY <2>5, <3>1, <3>2
    <3>4. InitRoot \in Vnodes
      <4>1. Len(node) = a + 3
        BY <1>2, <2>9 DEF Built
      <4> QED
        BY <4>1 DEF Vnodes, InitRoot
    <3>5. Len(node') = ArchiveLen + 4
      BY <2>4, <3>1 DEF Dev
    <3>6. node'[ROOT].fs = "tmpfs" /\ node'[ROOT].type = "dir" /\ node'[ROOT].mount = 0
          /\ node'[InitRoot].name = "initramfs"
      BY <2>5, <2>7, <3>2, <3>4
    <3>7. node'[Dev].name = "dev" /\ node'[Dev].fs = "tmpfs" /\ node'[Dev].type = "dir"
                /\ node'[Dev].mount = 0 /\ node'[Dev].kids = <<>>
      BY <1>5, <2>4, <2>6, <3>1, <3>2
    <3>8. Built(4)'
      BY <3>3, <3>5, <3>6, <3>7 DEF Built
    <3> QED
      BY <1>5, <2>9, <3>8 DEF Stage, MkdirStage
  <2>10. CASE b = 6 /\ q.op = "mknod" /\ q.dir = Dev /\ q.path = FilePath("uart") /\ Built(4)
    <3>1. n = Uart /\ d = Dev /\ w.name = "uart"
      <4>1. Last(FilePath("uart")) = "uart"
        BY BootFront, Strings
      <4>2. w.name = "uart" /\ d = Dev
        BY <1>5, <2>2, <2>10, <4>1
      <4>3. Len(node) + 1 = Uart
        BY <1>3, <2>10
      <4> QED
        BY <2>1, <4>2, <4>3
    <3>2. node[ROOT].kids = <<InitRoot, Dev>> /\ node[ROOT].fs = "tmpfs" /\ node[ROOT].type = "dir"
          /\ node[ROOT].mount = 0 /\ node[InitRoot].name = "initramfs"
          /\ node[Dev].name = "dev" /\ node[Dev].fs = "tmpfs" /\ node[Dev].type = "dir"
          /\ node[Dev].mount = 0 /\ node[Dev].kids = <<>>
      BY <2>10 DEF Built
    <3>3. node'[Dev].kids = <<Uart>>
      BY <2>5, <3>1, <3>2
    <3>4. InitRoot \in Vnodes /\ Dev # ROOT
      <4>1. Len(node) = a + 4
        BY <1>2, <2>10 DEF Built
      <4> QED
        BY <1>2, <4>1 DEF Vnodes, InitRoot, Dev, ROOT
    <3>5. Len(node') = ArchiveLen + 5
      BY <2>4, <3>1 DEF Uart
    <3>6. node'[ROOT].fs = "tmpfs" /\ node'[ROOT].type = "dir" /\ node'[ROOT].mount = 0
          /\ node'[InitRoot].name = "initramfs" /\ node'[ROOT].kids = <<InitRoot, Dev>>
      BY <2>4, <2>5, <2>7, <3>1, <3>2, <3>4
    <3>7. node'[Dev].name = "dev" /\ node'[Dev].fs = "tmpfs" /\ node'[Dev].type = "dir"
                /\ node'[Dev].mount = 0
      BY <2>5, <2>6, <3>1, <3>2
    <3>8. node'[Uart].name = "uart"
      BY <2>4, <3>1
    <3>9. Built(5)'
      BY <3>3, <3>5, <3>6, <3>7, <3>8 DEF Built
    <3> QED
      BY <1>5, <2>10, <3>9 DEF Stage, MknodStage
  <2>11. CASE b = 7 /\ q.op = "mknod"
    BY <1>5, <2>11 DEF Stage, MknodStage
  <2> QED
    BY <1>1, <2>8, <2>9, <2>10, <2>11
<1> QED
  BY <1>4, <1>5

\* A name is inserted, unless memory is short.
LEMMA InsertKeeps ==
    ASSUME ~ Interruptible, VInv, NEW t \in Flow, Insert(t)
    PROVE  VInv'
<1>1. Runs(t) /\ th[t].pc = "insert" /\ UNCHANGED <<mnt, boot, life, cwd, fd_table, panic>>
  BY DEF Insert
<1>2. PICK q : q = th[t]
  OBVIOUS
<1>3. /\ q \in Local /\ CallOK(q) /\ FindOK(q, Home(t)) /\ q.pc = "insert"
      /\ VTypes /\ RootOK /\ MountsOK /\ DirectoryOK /\ boot \in 1 .. 7 /\ Home(Main) = NULL /\ Home(t) \in Ptr
      /\ panic = "no" /\ (\A u \in Flow \ {t} : th[u].pc = "idle")
      /\ (t \in Thread => life[t] # "none" /\ q.op # "mknod")
      /\ fd_table \in [Thread -> [Fd -> Dirs]] /\ th \in [Flow -> Local]
      /\ t = Main => Stage(boot, q)
  BY <1>1, <1>2, InCall DEF VTypes
<1>4. PICK d : d = q.dir
  OBVIOUS
<1>5. /\ d \in Vnodes /\ d # NULL /\ d \in Nat /\ q.vnode = NULL /\ q.op \in {"open", "mkdir", "mknod"}
      /\ node[d].type = "dir" /\ Last(q.path) # "" /\ Child(d, Last(q.path)) = NULL
      /\ Len(node[d].kids) < MAX_CHILDREN /\ Len(q.path) > 0 /\ q.tgt \in Ptr
      /\ (q.op = "open" => q.arg \in {"", "O_CREAT"}) /\ (q.op = "open" => q.arg = "O_CREAT")
      /\ q.path \in Seq(STRING) /\ Last(q.path) \in STRING
  <2>1. q.dir \in Vnodes /\ q.dir # NULL /\ q.dir \in Nat
    BY <1>3, NodeFacts DEF CallOK
  <2>2. q.path \in Seq(STRING) /\ Len(q.path) > 0
    BY <1>3 DEF CallOK, Local
  <2>3. Last(q.path) \in STRING
    BY <2>2, FrontFacts
  <2> QED
    BY <1>3, <1>4, <2>1, <2>2, <2>3 DEF CallOK
<1>6. PICK w : w = NewVnode("tmpfs", IF q.op = "mkdir" THEN "dir" ELSE "file", Last(q.path), d,
                            node[d].mount, FALSE)
  OBVIOUS
<1>7. Made(w, "tmpfs", IF q.op = "mkdir" THEN "dir" ELSE "file", Last(q.path), d, node[d].mount, FALSE)
  <2>1. PICK type \in {"dir", "file"} : type = IF q.op = "mkdir" THEN "dir" ELSE "file"
    OBVIOUS
  <2>2. node[d].mount \in 0 .. MAX_MOUNT /\ "tmpfs" \in Registered /\ FALSE \in BOOLEAN
    <3>1. node[d].mount \in 0 .. MAX_MOUNT
      BY <1>3, <1>5, NodeFacts
    <3>2. "tmpfs" \in Registered
      BY DEF Registered
    <3> QED
      BY <3>1, <3>2
  <2>3. Made(NewVnode("tmpfs", type, Last(q.path), d, node[d].mount, FALSE),
             "tmpfs", type, Last(q.path), d, node[d].mount, FALSE)
    BY <1>5, <2>2, NewVnodeFacts, Zenon
  <2> QED
    BY <1>6, <2>1, <2>3
<1>8. PICK n : n = Len(node) + 1
  OBVIOUS
<1>9. t = Main => Len(node) < MAX_VNODE
  BY <1>3, <1>5, InsertStage
<1>10. CASE Len(node) < MAX_VNODE
  <2>1. Added(d, w)
    <3>1. node' = AddChild(d, w)
      BY <1>2, <1>4, <1>6, <1>10, Zenon DEF Insert
    <3> QED
      BY <1>1, <1>5, <1>7, <1>10, <3>1 DEF Added, Made
  <2>2. /\ n \in Nat /\ n # NULL /\ n \notin Vnodes /\ Len(node') = n /\ n <= MAX_VNODE
        /\ Vnodes' = Vnodes \cup {n} /\ node' \in Seq(Vnode) /\ node'[n] = w
    <3>1. VTypes
      BY <1>3
    <3> QED
      BY <1>8, <2>1, <3>1, AddedNodes
  <2>3. \A m \in Mount : mnt[m] # NULL
    BY <1>3, <1>2 DEF MountsOK, InSetup
  <2>4. Settled
    BY <1>3, <1>2 DEF Settled
  <2>5. Tree
    BY <1>3 DEF Tree
  <2>6. w.name = Last(q.path)
    BY <1>7 DEF Made
  <2>7. /\ DirectoryOK' /\ RootOK' /\ MountsOK'
        /\ \A v \in Vnodes' : /\ node'[v].parent \in Ptr'
                              /\ \A i \in DOMAIN node'[v].kids : node'[v].kids[i] \in Vnodes'
    BY <1>3, <1>5, <2>1, <2>3, <2>5, <2>6, AddedTree
  <2>8. PICK r : r = [q EXCEPT !.pc = "result", !.vnode = n]
    OBVIOUS
  <2>9. r \in Local
    BY <1>3, <2>2, <2>8 DEF Local
  <2>10. r.pc = "result" /\ r.res = q.res /\ r.dir = d /\ r.op = q.op /\ r.path = q.path /\ r.arg = q.arg
         /\ r.vnode = n /\ r.tgt = q.tgt
    BY <1>3, <1>4, <2>2, <2>8 DEF Local
  <2>11. th' = [th EXCEPT ![t] = r]
    <3>1. th' = [th EXCEPT ![t].pc = "result", ![t].vnode = n]
      BY <1>8, <1>10, Zenon DEF Insert
    <3> QED
      BY <1>2, <1>3, <2>8, <3>1
  <2>12. VTypes'
    <3>1. Vnodes \subseteq Vnodes' /\ Ptr \subseteq Ptr'
      BY <2>2 DEF Ptr
    <3>2. mnt' \in [Mount -> Ptr' \cup {FREE}]
      <4>1. mnt \in [Mount -> Ptr \cup {FREE}] /\ mnt' = mnt
        BY <1>1, <1>3, NodeFacts
      <4> QED
        BY <3>1, <4>1
    <3>3. fd_table' \in [Thread -> [Fd -> Dirs']]
      BY <1>1, <1>3, <3>1 DEF Dirs
    <3>4. th' \in [Flow -> Local] /\ boot' \in 1 .. 7
      BY <1>1, <1>3, <2>9, <2>11
    <3>5. Len(node') \in Nat \ {0} /\ Len(node') <= MAX_VNODE
      BY <2>2, Codes DEF NULL
    <3> QED
      BY <1>1, <1>3, <2>2, <2>7, <3>1, <3>2, <3>3, <3>4, <3>5, TreeTypes
  <2>13. CallOK(r)'
    <3>1. r.tgt \in Ptr' /\ r.vnode \in Ptr'
      BY <1>5, <2>2, <2>10 DEF Ptr
    <3> QED
      BY <1>5, <2>2, <2>10, <3>1 DEF CallOK
  <2>14. PICK c \in Ptr : c = Home(t)
    BY <1>3
  <2>15. FindOK(r, c)'
    <3>1. ASSUME r.op # "mkdir", Abs(r.path) \/ c # NULL, node'[d].mount = 0
          PROVE  Resolve(r.path, c)' = n
      <4>1. node[d].mount = 0
        BY <1>3, <1>5, <1>8, <2>1, <3>1, AddedFields
      <4>2. d = Trail(q.path, c)[Len(q.path) - 1] /\ Resolve(q.path, c) = NULL
        BY <1>3, <1>4, <1>5, <2>10, <2>14, <3>1 DEF FindOK
      <4>3. PICK p : p = q.path
        OBVIOUS
      <4>4. Resolve(p, c)' = n
        <5>1. p \in Seq(STRING) /\ Len(p) > 0 /\ w.name = Last(p)
              /\ d = Trail(p, c)[Len(p) - 1] /\ Resolve(p, c) = NULL
          BY <1>5, <2>6, <4>2, <4>3
        <5>2. VTypes /\ node[d].type = "dir" /\ DirectoryOK'
          BY <1>3, <1>5, <2>7
        <5> QED
          BY <1>8, <2>1, <2>4, <2>5, <2>12, <4>1, <5>1, <5>2, AddedResolve
      <4> QED
        BY <2>10, <4>3, <4>4
    <3>2. d > 0
      <4>1. \A x \in Nat : x # NULL => x > 0
        BY DEF NULL
      <4> QED
        BY <1>5, <4>1
    <3> QED
      BY <2>10, <3>1, <3>2 DEF FindOK
  <2>16. PICK b : b = boot'
    OBVIOUS
  <2>17. t = Main => Stage(b, r)'
    <3> SUFFICES ASSUME t = Main PROVE Stage(b, r)'
      OBVIOUS
    <3>1. b \in 1 .. 7 /\ Stage(b, q)
      BY <1>1, <1>3, <2>16
    <3>2. \A x, y : /\ Added(q.dir, x) /\ x.name = Last(q.path) /\ x.fs = "tmpfs"
                   /\ x.type = (IF q.op = "mkdir" THEN "dir" ELSE "file")
                   /\ y.pc = "result" /\ y.op = q.op /\ y.vnode # NULL
                   => Stage(b, y)'
      BY <1>3, <1>5, <3>1, InsertStage
    <3>3. w.fs = "tmpfs" /\ w.type = (IF q.op = "mkdir" THEN "dir" ELSE "file")
      BY <1>7 DEF Made
    <3> QED
      BY <1>4, <2>1, <2>2, <2>6, <2>10, <3>2, <3>3, Zenon
  <2> QED
    BY <1>1, <1>2, <1>3, <2>2, <2>7, <2>9, <2>10, <2>11, <2>12, <2>13, <2>14, <2>15, <2>16, <2>17, TreeStep
<1>11. CASE ~ (Len(node) < MAX_VNODE)
  <2>1. PICK e \in Int : e = ENOMEM /\ e # OK
    BY Codes
  <2>2. PICK r : r = [q EXCEPT !.pc = "result", !.res = e]
    OBVIOUS
  <2>3. r \in Local
    BY <1>3, <2>2 DEF Local
  <2>4. r.pc = "result" /\ r.res # OK /\ r.dir = d /\ r.op = q.op /\ r.path = q.path /\ r.arg = q.arg
        /\ r.vnode = NULL /\ r.tgt = q.tgt
    BY <1>3, <1>4, <1>5, <2>1, <2>2 DEF Local
  <2>5. th' = [th EXCEPT ![t] = r] /\ UNCHANGED node
    <3>1. th' = [th EXCEPT ![t].pc = "result", ![t].res = e] /\ UNCHANGED node
      BY <1>11, <2>1, Zenon DEF Insert
    <3> QED
      BY <1>2, <1>3, <2>2, <3>1
  <2>6. CallOK(r)
    <3>1. r.vnode \in Ptr
      BY <2>4 DEF Ptr
    <3> QED
      BY <1>5, <2>4, <3>1 DEF CallOK
  <2>7. FindOK(r, Home(t))
    BY <2>4 DEF FindOK
  <2>8. t # Main /\ th[t].pc \notin {"idle", "setup"} /\ r.pc # "setup"
    BY <1>1, <1>9, <1>11, <2>4
  <2> QED
    BY <1>1, <1>2, <2>3, <2>4, <2>5, <2>6, <2>7, <2>8, MoveStep
<1> QED
  BY <1>10, <1>11

-----------------------------------------------------------------------------
(* The end of open, and mount *)

\* One vnode changes.
LEMMA NodeSet ==
    ASSUME VTypes, NEW v \in Vnodes, NEW y \in Vnode, node' = [node EXCEPT ![v] = y]
    PROVE  /\ node' \in Seq(Vnode) /\ Len(node') = Len(node) /\ Vnodes' = Vnodes /\ Ptr' = Ptr
           /\ node'[v] = y /\ \A u \in Vnodes \ {v} : node'[u] = node[u]
<1>1. node \in Seq(Vnode) /\ DOMAIN node = Vnodes
  BY NodeFacts
<1>2. node' \in Seq(Vnode) /\ Len(node') = Len(node)
  BY <1>1
<1>3. Vnodes' = Vnodes
  BY <1>2 DEF Vnodes
<1>4. node'[v] = y /\ \A u \in Vnodes \ {v} : node'[u] = node[u]
  BY <1>1
<1> QED
  BY <1>2, <1>3, <1>4 DEF Ptr

\* The names in the directories do not change.
LEMMA SameDirectories ==
    ASSUME VTypes, DirectoryOK, Vnodes \subseteq Vnodes',
           \A v \in Vnodes : /\ node'[v].name = node[v].name /\ node'[v].parent = node[v].parent
                             /\ node'[v].kids = node[v].kids,
           \A v \in Vnodes' \ Vnodes : node'[v].kids = <<>>
    PROVE  DirectoryOK'
<1> SUFFICES ASSUME NEW v \in Vnodes'
             PROVE  /\ Len(node'[v].kids) <= MAX_CHILDREN
                    /\ \A i, j \in DOMAIN node'[v].kids :
                          node'[node'[v].kids[i]].name = node'[node'[v].kids[j]].name => i = j
                    /\ \A i \in DOMAIN node'[v].kids : node'[node'[v].kids[i]].parent = v
  BY DEF DirectoryOK
<1>1. CASE v \in Vnodes
  <2>1. node'[v].kids = node[v].kids
    BY <1>1
  <2>2. \A i \in DOMAIN node[v].kids : node[v].kids[i] \in Vnodes
    BY <1>1, NodeFacts
  <2>3. \A i \in DOMAIN node[v].kids : /\ node'[node[v].kids[i]].name = node[node[v].kids[i]].name
                                       /\ node'[node[v].kids[i]].parent = node[node[v].kids[i]].parent
    BY <2>2
  <2>4. /\ Len(node[v].kids) <= MAX_CHILDREN
        /\ \A i, j \in DOMAIN node[v].kids :
              node[node[v].kids[i]].name = node[node[v].kids[j]].name => i = j
        /\ \A i \in DOMAIN node[v].kids : node[node[v].kids[i]].parent = v
    BY <1>1 DEF DirectoryOK
  <2> QED
    BY <2>1, <2>3, <2>4
<1>2. CASE v \notin Vnodes
  <2>1. node'[v].kids = <<>>
    BY <1>2
  <2>2. Len(node'[v].kids) = 0 /\ DOMAIN node'[v].kids = {}
    BY <2>1
  <2> QED
    BY <2>2, Constants
<1> QED
  BY <1>1, <1>2

\* open and mknod end.
LEMMA OpenFileKeeps ==
    ASSUME ~ Interruptible, VInv, NEW t \in Flow, OpenFile(t)
    PROVE  VInv'
<1>1. Runs(t) /\ th[t].pc = "open" /\ UNCHANGED <<mnt, boot, life, cwd>>
  BY DEF OpenFile
<1>2. PICK q : q = th[t]
  OBVIOUS
<1>3. /\ q \in Local /\ CallOK(q) /\ q.pc = "open"
      /\ VTypes /\ RootOK /\ MountsOK /\ DirectoryOK /\ boot \in 1 .. 7 /\ Home(Main) = NULL /\ Home(t) \in Ptr
      /\ panic = "no" /\ (\A u \in Flow \ {t} : th[u].pc = "idle")
      /\ (t \in Thread => life[t] # "none" /\ q.op # "mknod")
      /\ fd_table \in [Thread -> [Fd -> Dirs]] /\ th \in [Flow -> Local]
      /\ t = Main => Stage(boot, q)
  BY <1>1, <1>2, InCall DEF VTypes
<1>4. q.op \in {"open", "mknod"} /\ q.vnode \in Ptr /\ q.fd \in Fd /\ q.arg \in STRING
      /\ (q.vnode = NULL => q.res # OK /\ q.dir # NULL)
      /\ (q.op = "open" /\ q.dir # NULL => q.arg = "O_CREAT")
  BY <1>3 DEF CallOK, Local
<1>5. t = Main => q.op = "mknod" /\ q.vnode # NULL /\ (boot = 6 \/ boot = 7) /\ (boot = 6 => Built(5))
  BY <1>3 DEF Stage, MkdirStage, MountStage, MknodStage
<1>6. CASE q.vnode = NULL
  <2>1. panic' = "vnode" /\ UNCHANGED <<node, mnt, boot, th, life, cwd, fd_table>>
    BY <1>1, <1>2, <1>6 DEF OpenFile
  <2>2. t \in Thread
    BY <1>5, <1>6 DEF Flow
  <2>3. q.op = "open"
    BY <1>3, <1>4, <2>2
  <2>4. PanicOK'
    <3>1. th'[t].pc = "open" /\ th'[t].res # OK /\ th'[t].arg = "O_CREAT"
      BY <1>2, <1>3, <1>4, <1>6, <2>1, <2>3
    <3> QED
      BY <2>1, <2>2, <3>1 DEF PanicOK, OnlyFailedCreateIsNull
  <2> QED
    BY <2>1, <2>4, StopKeeps
<1>7. CASE q.vnode # NULL /\ q.op = "mknod"
  <2>1. PICK v \in Vnodes : v = q.vnode
    BY <1>4, <1>7 DEF Ptr
  <2>2. PICK y : y = [node[v] EXCEPT !.ops = q.arg]
    OBVIOUS
  <2>3. node[v] \in Vnode
    BY <1>3, NodeFacts
  <2>4. /\ y \in Vnode /\ y.fs = node[v].fs /\ y.type = node[v].type /\ y.name = node[v].name
        /\ y.parent = node[v].parent /\ y.mount = node[v].mount /\ y.isroot = node[v].isroot /\ y.kids = node[v].kids
    BY <1>4, <2>2, <2>3 DEF Vnode
  <2>5. node' = [node EXCEPT ![v] = y] /\ Return(t, OK) /\ UNCHANGED <<fd_table, panic>>
    <3>1. node' = [node EXCEPT ![v].ops = q.arg] /\ Return(t, OK) /\ UNCHANGED <<fd_table, panic>>
      BY <1>2, <1>7, <2>1 DEF OpenFile
    <3> QED
      BY <2>2, <3>1
  <2>6. /\ node' \in Seq(Vnode) /\ Len(node') = Len(node) /\ Vnodes' = Vnodes /\ Ptr' = Ptr
        /\ node'[v] = y /\ \A u \in Vnodes \ {v} : node'[u] = node[u]
    BY <1>3, <2>4, <2>5, NodeSet
  <2>7. \A u \in Vnodes : /\ node'[u].fs = node[u].fs /\ node'[u].type = node[u].type
                          /\ node'[u].name = node[u].name /\ node'[u].parent = node[u].parent
                          /\ node'[u].mount = node[u].mount /\ node'[u].isroot = node[u].isroot
                          /\ node'[u].kids = node[u].kids
    BY <2>4, <2>6
  <2>8. PICK r : r = Idle(OK)
    OBVIOUS
  <2>9. r \in Local /\ r.pc = "idle" /\ CallOK(r) /\ th' = [th EXCEPT ![t] = r]
    BY <2>5, <2>8, IdleRec, Codes DEF Return
  <2>10. ROOT \in Vnodes /\ \A u \in Vnodes : /\ node[u].parent \in Ptr
                                              /\ \A i \in DOMAIN node[u].kids : node[u].kids[i] \in Vnodes
    BY <1>3, NodeFacts
  <2>11. mnt \in [Mount -> Ptr \cup {FREE}] /\ Len(node) \in Nat \ {0} /\ Len(node) <= MAX_VNODE
    BY <1>3, NodeFacts
  <2>12. VTypes'
    <3>1. \A u \in Vnodes' : /\ node'[u].parent \in Ptr'
                             /\ \A i \in DOMAIN node'[u].kids : node'[u].kids[i] \in Vnodes'
      BY <2>6, <2>7, <2>10
    <3>2. mnt' \in [Mount -> Ptr' \cup {FREE}] /\ Len(node') \in Nat \ {0} /\ Len(node') <= MAX_VNODE
      BY <1>1, <2>6, <2>11
    <3>3. fd_table' \in [Thread -> [Fd -> Dirs']] /\ boot' \in 1 .. 7 /\ th' \in [Flow -> Local]
      BY <1>1, <1>3, <2>5, <2>6, <2>9 DEF Dirs
    <3> QED
      BY <1>1, <1>3, <2>5, <2>6, <3>1, <3>2, <3>3, TreeTypes
  <2>13. DirectoryOK'
    BY <1>3, <2>6, <2>7, <2>10, SameDirectories
  <2>14. RootOK'
    BY <1>3, <2>6, <2>7, <2>10 DEF RootOK
  <2>15. \A m \in Mount : mnt[m] # NULL
    BY <1>2, <1>3 DEF MountsOK, InSetup
  <2>16. MountsOK'
    <3>1. \A u \in Vnodes \ {ROOT} : node[u].parent \in Vnodes
      BY <1>3 DEF RootOK
    <3>2. \A u \in Vnodes \ {ROOT} : node'[node'[u].parent].mount = node[node[u].parent].mount
      BY <2>7, <3>1
    <3>3. \A u \in Vnodes : node[u].mount # 0 /\ mnt[node[u].mount] # FREE => mnt[node[u].mount] \in Vnodes
      <4>1. \A u \in Vnodes : node[u].mount # 0 => node[u].mount \in Mount
        BY <1>3, NodeFacts, Constants DEF Mount
      <4> QED
        BY <2>11, <2>15, <4>1 DEF Ptr
    <3>4. ASSUME NEW u \in Vnodes', node'[u].mount # 0
          PROVE  /\ mnt'[node'[u].mount] # FREE
                 /\ \/ mnt'[node'[u].mount] = NULL
                    \/ mnt'[node'[u].mount] # NULL /\ node'[mnt'[node'[u].mount]].parent = u
                    \/ u # ROOT /\ node'[node'[u].parent].mount = node'[u].mount
      <4>1. u \in Vnodes /\ node[u].mount # 0 /\ node'[u].mount = node[u].mount /\ mnt' = mnt
        BY <1>1, <2>6, <2>7, <3>4
      <4>2. /\ mnt[node[u].mount] # FREE
            /\ \/ mnt[node[u].mount] = NULL
               \/ mnt[node[u].mount] # NULL /\ node[mnt[node[u].mount]].parent = u
               \/ u # ROOT /\ node[node[u].parent].mount = node[u].mount
        BY <1>3, <4>1 DEF MountsOK
      <4>3. node'[mnt[node[u].mount]].parent = node[mnt[node[u].mount]].parent
        BY <2>7, <3>3, <4>1, <4>2
      <4> QED
        BY <3>2, <4>1, <4>2, <4>3
    <3>5. \A u \in Vnodes' \ {ROOT} : node'[u].isroot =>
             node'[node'[u].parent].mount # 0 /\ mnt'[node'[node'[u].parent].mount] = u
      BY <1>1, <1>3, <2>6, <2>7, <3>2 DEF MountsOK
    <3>6. \A m \in Mount : mnt'[m] # NULL
      BY <1>1, <2>15
    <3> QED
      BY <3>4, <3>5, <3>6 DEF MountsOK
  <2>17. CallOK(r)'
    BY <2>6, <2>9, IdleCall
  <2>18. PICK c : c = Home(t)
    OBVIOUS
  <2>19. FindOK(r, c)'
    BY <2>9, IdleFindNext
  <2>20. PICK b : b = boot'
    OBVIOUS
  <2>21. t = Main => Stage(b, r)'
    <3> SUFFICES ASSUME t = Main PROVE Stage(b, r)'
      OBVIOUS
    <3>1. CASE b = 7
      BY <2>9, <3>1 DEF Stage, MknodStage
    <3>2. CASE b = 6
      <4>1. Built(5)
        BY <1>1, <1>5, <2>20, <3>2
      <4>2. Dev \in Vnodes /\ InitRoot \in Vnodes /\ Uart \in Vnodes
        <5>1. PICK a \in Nat : a = ArchiveLen
          BY Constants
        <5>2. Len(node) = a + 5
          BY <4>1, <5>1 DEF Built
        <5> QED
          BY <5>1, <5>2 DEF Vnodes, Dev, InitRoot, Uart
      <4>3. Built(5)'
        BY <2>6, <2>7, <2>10, <4>1, <4>2 DEF Built
      <4> QED
        BY <2>9, <3>2, <4>3 DEF Stage, MknodStage
    <3> QED
      BY <1>1, <1>5, <2>20, <3>1, <3>2
  <2> QED
    BY <1>1, <1>2, <1>3, <2>5, <2>6, <2>9, <2>12, <2>13, <2>14, <2>16, <2>17, <2>18, <2>19, <2>20, <2>21,
       TreeStep
<1>8. CASE q.vnode # NULL /\ q.op = "open"
  <2>1. fd_table' = [fd_table EXCEPT ![t][q.fd] = q.vnode] /\ Return(t, q.fd) /\ UNCHANGED <<node, panic>>
    BY <1>2, <1>8 DEF OpenFile
  <2>2. t # Main /\ t \in Thread
    BY <1>5, <1>8 DEF Flow
  <2>3. fd_table' \in [Thread -> [Fd -> Dirs]] /\ Tidy'
    <3>1. fd_table' \in [Thread -> [Fd -> Dirs]]
      BY <1>3, <1>4, <2>1, <2>2 DEF Dirs
    <3>2. \A u \in Thread, i \in Fd : fd_table'[u][i] \in {q.vnode, fd_table[u][i]}
      BY <1>3, <1>4, <2>1, <2>2
    <3>3. Tidy /\ q.vnode # WILD
      BY <1>1, <1>4, InCall
    <3> QED
      BY <1>1, <3>1, <3>2, <3>3 DEF Tidy
  <2>4. q.fd \in Int
    BY <1>4, Constants DEF Fd
  <2> QED
    BY <1>1, <1>2, <1>3, <2>1, <2>2, <2>3, <2>4, ReturnStep
<1> QED
  BY <1>4, <1>6, <1>7, <1>8

\* The mount of a vnode changes.
LEMMA MountField ==
    \A x \in Vnode, m \in 0 .. MAX_MOUNT : \A y : y = [x EXCEPT !.mount = m] =>
        /\ y \in Vnode /\ y.fs = x.fs /\ y.type = x.type /\ y.name = x.name
        /\ y.parent = x.parent /\ y.mount = m /\ y.isroot = x.isroot /\ y.kids = x.kids
<1> SUFFICES ASSUME NEW x \in Vnode, NEW m \in 0 .. MAX_MOUNT, NEW y, y = [x EXCEPT !.mount = m]
             PROVE  /\ y \in Vnode /\ y.fs = x.fs /\ y.type = x.type /\ y.name = x.name
                    /\ y.parent = x.parent /\ y.mount = m /\ y.isroot = x.isroot /\ y.kids = x.kids
  OBVIOUS
<1>1. PICK M : M = 0 .. MAX_MOUNT
  OBVIOUS
<1>2. Vnode = [fs : Registered, type : {"dir", "file"}, ops : STRING, name : STRING,
               parent : Nat, mount : M, isroot : BOOLEAN, kids : Seq(Nat)]
  BY <1>1 DEF Vnode
<1>3. m \in M
  BY <1>1
<1> QED
  BY <1>2, <1>3

\* The struct mount is there, its root not yet.
LEMMA MountSetKeeps ==
    ASSUME ~ Interruptible, VInv, NEW t \in Flow, MountSet(t)
    PROVE  VInv'
<1>1. Runs(t) /\ th[t].pc = "mount" /\ UNCHANGED <<boot, life, cwd, fd_table, panic>>
  BY DEF MountSet
<1>2. PICK q : q = th[t]
  OBVIOUS
<1>3. /\ q \in Local /\ CallOK(q) /\ q.pc = "mount"
      /\ VTypes /\ RootOK /\ MountsOK /\ DirectoryOK /\ boot \in 1 .. 7 /\ Home(Main) = NULL /\ Home(t) \in Ptr
      /\ panic = "no" /\ (\A u \in Flow \ {t} : th[u].pc = "idle")
      /\ (t \in Thread => life[t] # "none" /\ q.op # "mknod")
      /\ fd_table \in [Thread -> [Fd -> Dirs]] /\ th \in [Flow -> Local]
      /\ t = Main => Stage(boot, q)
  BY <1>1, <1>2, InCall DEF VTypes
<1>4. PICK v \in Vnodes : v = q.tgt
  BY <1>3 DEF CallOK
<1>5. node[v].mount = 0 /\ ~ node[v].isroot /\ q.op = "mount" /\ q.arg \in Registered /\ Len(q.path) > 0
  BY <1>3, <1>4 DEF CallOK, Busy
<1>6. q.vnode \in Ptr /\ (q.dir # NULL /\ q.op = "open" => q.arg = "O_CREAT")
  BY <1>3 DEF CallOK
<1>7. t = Main => boot = 3 /\ q.arg = "initramfs" /\ q.path = InitPath /\ Built(1) /\ v = InitRoot
  BY <1>3, <1>4 DEF Stage, MkdirStage, MountStage, MknodStage
<1>8. mnt \in [Mount -> Ptr \cup {FREE}] /\ Len(node) \in Nat \ {0} /\ Len(node) <= MAX_VNODE
      /\ ROOT \in Vnodes
      /\ \A u \in Vnodes : /\ node[u].parent \in Ptr /\ node[u] \in Vnode /\ u # NULL
                           /\ (node[u].mount # 0 => node[u].mount \in Mount)
                           /\ \A i \in DOMAIN node[u].kids : node[u].kids[i] \in Vnodes
  BY <1>3, NodeFacts, Constants DEF Mount
<1>9. \A m \in Mount : mnt[m] # NULL
  BY <1>2, <1>3 DEF MountsOK, InSetup
<1>10. CASE \E m \in Mount : mnt[m] = FREE
  <2>1. PICK m \in Mount : m = CHOOSE x \in Mount : mnt[x] = FREE
    BY <1>10
  <2>2. mnt[m] = FREE
    BY <1>10, <2>1
  <2>3. m # 0 /\ m \in Nat /\ m \in 0 .. MAX_MOUNT
    BY Constants DEF Mount
  <2>4. mnt' = [mnt EXCEPT ![m] = NULL] /\ node' = [node EXCEPT ![v].mount = m]
        /\ th' = [th EXCEPT ![t].pc = "setup", ![t].cur = m]
    BY <1>2, <1>4, <1>10, <2>1, Zenon DEF MountSet
  <2>5. PICK y : y = [node[v] EXCEPT !.mount = m]
    OBVIOUS
  <2>6. /\ y \in Vnode /\ y.fs = node[v].fs /\ y.type = node[v].type /\ y.name = node[v].name
        /\ y.parent = node[v].parent /\ y.mount = m /\ y.isroot = node[v].isroot /\ y.kids = node[v].kids
    BY <1>8, <2>3, <2>5, MountField
  <2>7. node' = [node EXCEPT ![v] = y]
    BY <2>4, <2>5
  <2>8. /\ node' \in Seq(Vnode) /\ Len(node') = Len(node) /\ Vnodes' = Vnodes /\ Ptr' = Ptr
        /\ node'[v] = y /\ \A u \in Vnodes \ {v} : node'[u] = node[u]
    BY <1>3, <2>6, <2>7, NodeSet
  <2>9. \A u \in Vnodes : /\ node'[u].fs = node[u].fs /\ node'[u].type = node[u].type
                          /\ node'[u].name = node[u].name /\ node'[u].parent = node[u].parent
                          /\ node'[u].isroot = node[u].isroot /\ node'[u].kids = node[u].kids
    BY <2>6, <2>8
  <2>10. PICK r : r = [q EXCEPT !.pc = "setup", !.cur = m]
    OBVIOUS
  <2>11. r \in Local
    BY <1>3, <2>3, <2>10 DEF Local
  <2>12. r.pc = "setup" /\ r.cur = m /\ r.dir = q.dir /\ r.op = q.op /\ r.path = q.path /\ r.arg = q.arg
         /\ r.vnode = q.vnode /\ r.tgt = v
    BY <1>3, <1>4, <2>3, <2>10 DEF Local
  <2>13. th' = [th EXCEPT ![t] = r]
    BY <1>2, <1>3, <2>4, <2>10
  <2>14. mnt'[m] = NULL /\ \A x \in Mount \ {m} : mnt'[x] = mnt[x]
    BY <1>8, <2>4
  <2>15. mnt' \in [Mount -> Ptr' \cup {FREE}]
    BY <1>8, <2>4, <2>8 DEF Ptr
  <2>16. VTypes'
    <3>1. \A u \in Vnodes' : /\ node'[u].parent \in Ptr'
                             /\ \A i \in DOMAIN node'[u].kids : node'[u].kids[i] \in Vnodes'
      BY <1>8, <2>8, <2>9
    <3>2. Len(node') \in Nat \ {0} /\ Len(node') <= MAX_VNODE
      BY <1>8, <2>8
    <3>3. fd_table' \in [Thread -> [Fd -> Dirs']] /\ boot' \in 1 .. 7 /\ th' \in [Flow -> Local]
      BY <1>1, <1>3, <2>8, <2>11, <2>13 DEF Dirs
    <3> QED
      BY <1>1, <1>3, <2>8, <2>15, <3>1, <3>2, <3>3, TreeTypes
  <2>17. DirectoryOK'
    BY <1>3, <2>8, <2>9, SameDirectories
  <2>18. \A u \in Vnodes : node[u].mount # 0 => u # v /\ node[u].mount # m
    <3>1. ASSUME NEW u \in Vnodes, node[u].mount # 0 PROVE mnt[node[u].mount] # FREE
      BY <1>3, <3>1 DEF MountsOK
    <3> QED
      BY <1>5, <2>2, <3>1
  <2>19. RootOK'
    <3>1. node'[v].isroot => node'[v].mount = 0
      BY <1>5, <2>6, <2>8
    <3>2. \A u \in Vnodes \ {v} : node'[u].isroot => node'[u].mount = 0
      BY <1>3, <2>8 DEF RootOK
    <3>3. node'[ROOT].parent = NULL /\ node'[ROOT].isroot /\ \A u \in Vnodes \ {ROOT} : node'[u].parent \in Vnodes
      BY <1>3, <1>8, <2>9 DEF RootOK
    <3> QED
      BY <2>8, <3>1, <3>2, <3>3 DEF RootOK
  <2>20. MountsOK'
    <3>1. ASSUME NEW u \in Vnodes \ {ROOT}, node[u].isroot
          PROVE  node'[node'[u].parent].mount # 0 /\ mnt'[node'[node'[u].parent].mount] = u
      <4>1. node'[u].parent = node[u].parent /\ node[u].parent \in Vnodes
        BY <1>3, <2>9 DEF RootOK
      <4>2. PICK p \in Vnodes : p = node[u].parent
        BY <4>1
      <4>3. node[p].mount # 0 /\ mnt[node[p].mount] = u
        BY <1>3, <3>1, <4>2 DEF MountsOK
      <4>4. node'[p].mount = node[p].mount /\ node[p].mount \in Mount \ {m}
        BY <1>8, <2>8, <2>18, <4>2, <4>3
      <4> QED
        BY <2>14, <4>1, <4>2, <4>3, <4>4
    <3>2. ASSUME NEW u \in Vnodes, node'[u].mount # 0
          PROVE  /\ mnt'[node'[u].mount] # FREE
                 /\ \/ mnt'[node'[u].mount] = NULL
                    \/ mnt'[node'[u].mount] # NULL /\ node'[mnt'[node'[u].mount]].parent = u
                    \/ u # ROOT /\ node'[node'[u].parent].mount = node'[u].mount
      <4>1. CASE u = v
        <5>1. mnt'[node'[u].mount] = NULL
          BY <2>6, <2>8, <2>14, <4>1
        <5> QED
          BY <5>1, Codes
      <4>2. CASE u # v
        <5>1. node'[u] = node[u] /\ node[u].mount # 0
          BY <2>8, <3>2, <4>2
        <5>2. PICK x \in Mount \ {m} : x = node[u].mount
          BY <1>8, <2>18, <5>1
        <5>3. mnt'[x] = mnt[x] /\ mnt[x] # NULL
          BY <1>9, <2>14
        <5>4. /\ mnt[node[u].mount] # FREE
              /\ \/ mnt[node[u].mount] = NULL
                 \/ mnt[node[u].mount] # NULL /\ node[mnt[node[u].mount]].parent = u
                 \/ u # ROOT /\ node[node[u].parent].mount = node[u].mount
          BY <1>3, <5>1 DEF MountsOK
        <5>5. mnt[x] \in Vnodes
          BY <1>8, <5>2, <5>3, <5>4 DEF Ptr
        <5>6. node'[mnt[x]].parent = node[mnt[x]].parent
          BY <2>9, <5>5
        <5>7. CASE node[mnt[x]].parent = u
          BY <5>1, <5>2, <5>3, <5>4, <5>6, <5>7
        <5>8. CASE u # ROOT /\ node[node[u].parent].mount = x
          <6>1. node[u].parent \in Vnodes /\ node[u].parent # v
            BY <1>3, <1>5, <5>1, <5>2, <5>8 DEF RootOK
          <6>2. node'[node'[u].parent].mount = node'[u].mount
            BY <2>8, <5>1, <5>2, <5>8, <6>1
          <6> QED
            BY <5>1, <5>2, <5>3, <5>4, <5>8, <6>2
        <5> QED
          BY <5>2, <5>3, <5>4, <5>7, <5>8
      <4> QED
        BY <4>1, <4>2
    <3>3. \A x \in Mount : mnt'[x] = NULL => InSetup(x)'
      <4>1. InSetup(m)'
        BY <1>3, <2>12, <2>13 DEF InSetup
      <4> QED
        BY <1>9, <2>14, <4>1
    <3>4. \A u \in Vnodes' \ {ROOT} : node'[u].isroot =>
             node'[node'[u].parent].mount # 0 /\ mnt'[node'[node'[u].parent].mount] = u
      BY <2>8, <2>9, <3>1
    <3>5. \A u \in Vnodes' : node'[u].mount # 0 =>
             /\ mnt'[node'[u].mount] # FREE
             /\ \/ mnt'[node'[u].mount] = NULL
                \/ mnt'[node'[u].mount] # NULL /\ node'[mnt'[node'[u].mount]].parent = u
                \/ u # ROOT /\ node'[node'[u].parent].mount = node'[u].mount
      BY <2>8, <3>2
    <3> QED
      BY <3>3, <3>4, <3>5 DEF MountsOK
  <2>21. CallOK(r)'
    <3>1. \A u \in Vnodes' : node'[u].mount = m <=> u = v
      BY <2>3, <2>6, <2>8, <2>18
    <3>2. r.tgt \in Ptr' /\ r.vnode \in Ptr' /\ r.tgt \in Vnodes'
      BY <1>6, <2>8, <2>12 DEF Ptr
    <3>3. ~ node'[r.tgt].isroot /\ mnt'[r.cur] = NULL /\ r.cur \in Mount
      BY <1>5, <2>9, <2>12, <2>14
    <3> QED
      BY <1>5, <1>6, <2>12, <3>1, <3>2, <3>3 DEF CallOK
  <2>22. PICK c : c = Home(t)
    OBVIOUS
  <2>23. FindOK(r, c)'
    BY <2>12 DEF FindOK
  <2>24. PICK b : b = boot'
    OBVIOUS
  <2>25. t = Main => Stage(b, r)'
    <3> SUFFICES ASSUME t = Main PROVE Stage(b, r)'
      OBVIOUS
    <3>1. Built(1) /\ v = InitRoot /\ b = 3
      BY <1>1, <1>7, <2>24
    <3>2. v # ROOT
      BY <3>1 DEF InitRoot, ROOT
    <3>3. node'[ROOT] = node[ROOT]
      BY <1>8, <2>8, <3>2
    <3>4. \A x \in Mount : mnt'[x] \in {NULL, FREE}
      BY <2>14, <3>1 DEF Built
    <3>5. Built(1)'
      BY <2>8, <2>9, <3>1, <3>3, <3>4 DEF Built
    <3> QED
      BY <1>5, <1>7, <2>12, <3>1, <3>5 DEF Stage, MountStage
  <2>26. r.op # "mknod"
    BY <1>5, <2>12
  <2> QED
    BY <1>1, <1>2, <1>3, <2>8, <2>11, <2>13, <2>16, <2>17, <2>19, <2>20, <2>21, <2>22, <2>23, <2>24, <2>25, <2>26,
       TreeStep
<1>11. CASE ~ \E m \in Mount : mnt[m] = FREE
  <2>1. Return(t, ENOMEM) /\ UNCHANGED <<mnt, node>>
    BY <1>11, Zenon DEF MountSet
  <2>2. t # Main
    <3> SUFFICES ASSUME t = Main PROVE FALSE
      OBVIOUS
    <3>1. \A m \in Mount : mnt[m] \in {NULL, FREE}
      BY <1>7 DEF Built
    <3>2. 1 \in Mount
      BY Constants DEF Mount
    <3> QED
      BY <1>9, <1>11, <3>1, <3>2
  <2>3. ENOMEM \in Int
    BY Codes
  <2> QED
    BY <1>1, <1>2, <1>3, <2>1, <2>2, <2>3, ReturnStep
<1> QED
  BY <1>10, <1>11

\* The root of a mounted file system.
LEMMA RootFacts ==
    \A fs \in Registered, v \in Nat : \A root \in setup_mount(fs, v) :
        \E type \in {"dir", "file"} : Made(root, fs, type, "/", v, 0, TRUE)
<1> SUFFICES ASSUME NEW fs \in Registered, NEW v \in Nat, NEW root \in setup_mount(fs, v)
             PROVE  \E type \in {"dir", "file"} : Made(root, fs, type, "/", v, 0, TRUE)
  OBVIOUS
<1>1. PICK type \in {"dir", "file"} : root = NewVnode(fs, type, "/", v, 0, TRUE)
  <2>1. CASE fs = "tmpfs"
    BY <2>1 DEF setup_mount, tmpfs_setup_mount
  <2>2. CASE fs = "initramfs"
    <3>1. setup_mount(fs, v) = initramfs_setup_mount(v)
      BY <2>2 DEF setup_mount
    <3> QED
      BY <2>2, <3>1 DEF initramfs_setup_mount
  <2> QED
    BY <2>1, <2>2 DEF Registered
<1>2. "/" \in STRING /\ TRUE \in BOOLEAN /\ 0 \in 0 .. MAX_MOUNT
  <2>1. "/" \in STRING
    BY Strings
  <2>2. 0 \in 0 .. MAX_MOUNT
    BY Constants
  <2> QED
    BY <2>1, <2>2
<1>3. Made(NewVnode(fs, type, "/", v, 0, TRUE), fs, type, "/", v, 0, TRUE)
  BY <1>2, NewVnodeFacts, Zenon
<1> QED
  BY <1>1, <1>3

\* The file system's root is there, or the mount is given up.
LEMMA MountSetupKeeps ==
    ASSUME ~ Interruptible, VInv, NEW t \in Flow, MountSetup(t)
    PROVE  VInv'
<1>1. Runs(t) /\ th[t].pc = "setup" /\ UNCHANGED <<boot, life, cwd, fd_table, panic>>
  BY DEF MountSetup
<1>2. PICK q : q = th[t]
  OBVIOUS
<1>3. /\ q \in Local /\ CallOK(q) /\ q.pc = "setup"
      /\ VTypes /\ RootOK /\ MountsOK /\ DirectoryOK /\ boot \in 1 .. 7 /\ Home(Main) = NULL /\ Home(t) \in Ptr
      /\ panic = "no" /\ (\A u \in Flow \ {t} : th[u].pc = "idle")
      /\ (t \in Thread => life[t] # "none" /\ q.op # "mknod")
      /\ fd_table \in [Thread -> [Fd -> Dirs]] /\ th \in [Flow -> Local]
      /\ t = Main => Stage(boot, q)
  BY <1>1, <1>2, InCall DEF VTypes
<1>4. PICK v \in Vnodes : v = q.tgt
  BY <1>3 DEF CallOK
<1>5. PICK m \in Mount : m = q.cur
  BY <1>3 DEF CallOK
<1>6. mnt[m] = NULL /\ ~ node[v].isroot /\ q.arg \in Registered /\ \A u \in Vnodes : node[u].mount = m <=> u = v
  BY <1>3, <1>4, <1>5 DEF CallOK
<1>7. t = Main => boot = 3 /\ q.arg = "initramfs" /\ Built(1) /\ v = InitRoot
  BY <1>3, <1>4 DEF Stage, MkdirStage, MountStage, MknodStage
<1>8. mnt \in [Mount -> Ptr \cup {FREE}] /\ Len(node) \in Nat \ {0} /\ Len(node) <= MAX_VNODE
      /\ ROOT \in Vnodes /\ m # 0 /\ v \in Nat /\ node \in Seq(Vnode) /\ DOMAIN node = Vnodes
      /\ \A u \in Vnodes : /\ node[u].parent \in Ptr /\ node[u] \in Vnode /\ u # NULL
                           /\ (node[u].mount # 0 => node[u].mount \in Mount)
                           /\ \A i \in DOMAIN node[u].kids : node[u].kids[i] \in Vnodes
  BY <1>3, NodeFacts, Constants DEF Mount
<1>9. \A x \in Mount \ {m} : mnt[x] # NULL
  <2> SUFFICES ASSUME NEW x \in Mount \ {m}, mnt[x] = NULL PROVE FALSE
    OBVIOUS
  <2>1. PICK u \in Flow : th[u].pc = "setup" /\ th[u].cur = x
    BY <1>3 DEF MountsOK, InSetup
  <2>2. u = t
    BY <1>3, <2>1
  <2> QED
    BY <1>2, <1>5, <2>1, <2>2
<1>10. \A u \in Vnodes : node[u].mount # 0 => mnt[node[u].mount] # FREE
  BY <1>3 DEF MountsOK
<1>11. \A u \in Vnodes \ {ROOT} : node[u].isroot =>
          /\ node[u].parent \in Vnodes /\ node[u].parent # v
          /\ node[node[u].parent].mount \in Mount \ {m} /\ mnt[node[node[u].parent].mount] = u
  <2> SUFFICES ASSUME NEW u \in Vnodes \ {ROOT}, node[u].isroot
               PROVE  /\ node[u].parent \in Vnodes /\ node[u].parent # v
                      /\ node[node[u].parent].mount \in Mount \ {m} /\ mnt[node[node[u].parent].mount] = u
    OBVIOUS
  <2>1. PICK p \in Vnodes : p = node[u].parent
    BY <1>3 DEF RootOK
  <2>2. node[p].mount # 0 /\ mnt[node[p].mount] = u
    BY <1>3, <2>1 DEF MountsOK
  <2>3. u # NULL
    BY <1>8
  <2>4. node[p].mount # m
    BY <1>6, <2>2, <2>3
  <2>5. p # v
    BY <1>6, <2>4
  <2> QED
    BY <1>8, <2>1, <2>2, <2>4, <2>5
<1>12. \A u \in Vnodes \ {v} : node[u].mount # 0 =>
          /\ node[u].mount \in Mount \ {m} /\ mnt[node[u].mount] \in Vnodes
          /\ \/ node[mnt[node[u].mount]].parent = u
             \/ u # ROOT /\ node[u].parent \in Vnodes \ {v} /\ node[node[u].parent].mount = node[u].mount
  <2> SUFFICES ASSUME NEW u \in Vnodes \ {v}, node[u].mount # 0
               PROVE  /\ node[u].mount \in Mount \ {m} /\ mnt[node[u].mount] \in Vnodes
                      /\ \/ node[mnt[node[u].mount]].parent = u
                         \/ u # ROOT /\ node[u].parent \in Vnodes \ {v} /\ node[node[u].parent].mount = node[u].mount
    OBVIOUS
  <2>1. PICK x \in Mount \ {m} : x = node[u].mount
    BY <1>6, <1>8
  <2>2. mnt[x] # NULL /\ mnt[x] # FREE
    BY <1>9, <1>10, <2>1
  <2>3. mnt[x] \in Vnodes
    BY <1>8, <2>2 DEF Ptr
  <2>4. node[mnt[x]].parent = u \/ (u # ROOT /\ node[node[u].parent].mount = x)
    BY <1>3, <2>1, <2>2 DEF MountsOK
  <2>5. ASSUME u # ROOT, node[node[u].parent].mount = x
        PROVE  node[u].parent \in Vnodes \ {v}
    <3>1. node[u].parent \in Vnodes
      BY <1>3, <2>5 DEF RootOK
    <3>2. node[v].mount = m
      BY <1>6
    <3> QED
      BY <2>5, <3>1, <3>2
  <2> QED
    BY <2>1, <2>3, <2>4, <2>5
<1>13. PICK c : c = Home(t)
  OBVIOUS
<1>14. PICK b : b = boot'
  OBVIOUS
<1>15. CASE Len(node) < MAX_VNODE
  <2>1. PICK root \in setup_mount(q.arg, v) : node' = Append(node, root)
    BY <1>2, <1>4, <1>15 DEF MountSetup
  <2>2. PICK n : n = Len(node) + 1
    OBVIOUS
  <2>3. mnt' = [mnt EXCEPT ![m] = n] /\ Return(t, OK)
    BY <1>2, <1>5, <1>15, <2>2 DEF MountSetup
  <2>4. PICK type \in {"dir", "file"} : Made(root, q.arg, type, "/", v, 0, TRUE)
    BY <1>6, <1>8, <2>1, RootFacts
  <2>5. root \in Vnode /\ root.parent = v /\ root.mount = 0 /\ root.isroot /\ root.kids = <<>>
    BY <2>4 DEF Made
  <2>6. /\ node' \in Seq(Vnode) /\ Len(node') = n /\ node'[n] = root /\ n \in Nat \ {0}
        /\ \A u \in Vnodes : node'[u] = node[u]
    <3>1. Longer(node', node, root, Vnode)
      BY <1>8, <2>1, <2>5, AppendFacts, Zenon
    <3>2. node' \in Seq(Vnode) /\ Len(node') = Len(node) + 1 /\ node'[Len(node) + 1] = root
          /\ \A u \in DOMAIN node : node'[u] = node[u]
      BY <3>1 DEF Longer
    <3>3. Len(node) + 1 \in Nat \ {0}
      BY <1>8
    <3> QED
      BY <1>8, <2>2, <3>2, <3>3
  <2>7. Vnodes' = Vnodes \cup {n} /\ n \notin Vnodes /\ n # NULL /\ n # FREE /\ n # ROOT /\ n <= MAX_VNODE
        /\ Ptr' = Ptr \cup {n}
    <3>1. PICK k \in Nat \ {0} : k = Len(node) /\ k < MAX_VNODE
      BY <1>8, <1>15
    <3>2. MAX_VNODE \in Nat
      BY Constants
    <3>3. Vnodes = 1 .. k /\ Vnodes' = 1 .. n /\ n = k + 1
      BY <2>2, <2>6, <3>1 DEF Vnodes
    <3>4. Vnodes' = Vnodes \cup {n} /\ n \notin Vnodes /\ n # NULL /\ n # ROOT /\ n <= MAX_VNODE
      BY <3>1, <3>2, <3>3 DEF NULL, ROOT
    <3>5. n # FREE
      BY <2>6, Codes
    <3> QED
      BY <3>4, <3>5 DEF Ptr
  <2>8. mnt'[m] = n /\ (\A x \in Mount \ {m} : mnt'[x] = mnt[x]) /\ mnt' \in [Mount -> Ptr' \cup {FREE}]
    BY <1>8, <2>3, <2>7
  <2>9. PICK r : r = Idle(OK)
    OBVIOUS
  <2>10. r \in Local /\ r.pc = "idle" /\ CallOK(r) /\ th' = [th EXCEPT ![t] = r]
    BY <2>3, <2>9, IdleRec, Codes DEF Return
  <2>11. VTypes'
    <3>1. \A u \in Vnodes' : /\ node'[u].parent \in Ptr'
                             /\ \A i \in DOMAIN node'[u].kids : node'[u].kids[i] \in Vnodes'
      <4>1. v \in Ptr' /\ DOMAIN root.kids = {}
        BY <2>5, <2>7 DEF Ptr
      <4> QED
        BY <1>8, <2>5, <2>6, <2>7, <4>1
    <3>2. Len(node') \in Nat \ {0} /\ Len(node') <= MAX_VNODE /\ Vnodes \subseteq Vnodes'
      BY <2>6, <2>7
    <3>3. fd_table' \in [Thread -> [Fd -> Dirs']] /\ boot' \in 1 .. 7 /\ th' \in [Flow -> Local]
      BY <1>1, <1>3, <2>7, <2>10 DEF Dirs
    <3> QED
      BY <1>1, <1>3, <2>6, <2>8, <3>1, <3>2, <3>3, TreeTypes
  <2>12. DirectoryOK'
    BY <1>3, <2>5, <2>6, <2>7, SameDirectories
  <2>13. RootOK'
    BY <1>3, <1>8, <2>5, <2>6, <2>7 DEF RootOK
  <2>14. MountsOK'
    <3>1. ASSUME NEW u \in Vnodes' \ {ROOT}, node'[u].isroot
          PROVE  node'[node'[u].parent].mount # 0 /\ mnt'[node'[node'[u].parent].mount] = u
      <4>1. CASE u = n
        BY <1>6, <1>8, <2>5, <2>6, <2>8, <4>1
      <4>2. CASE u \in Vnodes
        <5>1. u \in Vnodes \ {ROOT} /\ node[u].isroot /\ node'[u] = node[u]
          BY <2>6, <3>1, <4>2
        <5>2. PICK p \in Vnodes : p = node[u].parent /\ node[p].mount \in Mount \ {m} /\ mnt[node[p].mount] = u
          BY <1>11, <5>1
        <5>3. node'[p] = node[p] /\ node[p].mount # 0
          BY <2>6, <5>2, Constants
        <5> QED
          BY <2>8, <5>1, <5>2, <5>3
      <4> QED
        BY <2>7, <4>1, <4>2
    <3>2. ASSUME NEW u \in Vnodes', node'[u].mount # 0
          PROVE  /\ mnt'[node'[u].mount] # FREE
                 /\ \/ mnt'[node'[u].mount] = NULL
                    \/ mnt'[node'[u].mount] # NULL /\ node'[mnt'[node'[u].mount]].parent = u
                    \/ u # ROOT /\ node'[node'[u].parent].mount = node'[u].mount
      <4>1. u \in Vnodes /\ node'[u] = node[u] /\ node[u].mount # 0
        BY <2>5, <2>6, <2>7, <3>2
      <4>2. CASE u = v
        <5>1. node'[u].mount = m /\ mnt'[m] = n /\ node'[n].parent = u
          BY <1>6, <2>5, <2>6, <2>8, <4>1, <4>2
        <5> QED
          BY <2>7, <5>1
      <4>3. CASE u # v
        <5>1. PICK x \in Mount \ {m} : x = node[u].mount /\ mnt[x] \in Vnodes
          BY <1>12, <4>1, <4>3
        <5>2. mnt'[x] = mnt[x] /\ mnt[x] # FREE /\ mnt[x] # NULL /\ node'[mnt[x]] = node[mnt[x]]
          BY <1>8, <1>10, <2>6, <2>8, <4>1, <5>1
        <5>3. node[mnt[x]].parent = u
              \/ (u # ROOT /\ node[u].parent \in Vnodes \ {v} /\ node[node[u].parent].mount = x)
          BY <1>12, <4>1, <4>3, <5>1
        <5>4. node[u].parent \in Vnodes => node'[node[u].parent] = node[node[u].parent]
          BY <2>6
        <5> QED
          BY <4>1, <5>1, <5>2, <5>3, <5>4
      <4> QED
        BY <4>2, <4>3
    <3>3. \A x \in Mount : mnt'[x] # NULL
      BY <1>9, <2>7, <2>8
    <3> QED
      BY <3>1, <3>2, <3>3 DEF MountsOK
  <2>15. CallOK(r)'
    <3>1. Vnodes \subseteq Vnodes'
      BY <2>7
    <3> QED
      BY <2>10, <3>1, IdleCall
  <2>16. FindOK(r, c)'
    BY <2>10, IdleFindNext
  <2>17. t = Main => Stage(b, r)'
    <3> SUFFICES ASSUME t = Main PROVE Stage(b, r)'
      OBVIOUS
    <3>1. Built(1) /\ v = InitRoot /\ b = 3
      BY <1>1, <1>7, <1>14
    <3>2. n = MountedRoot /\ Len(node') = 3
      BY <2>2, <2>6, <3>1 DEF Built, MountedRoot
    <3>3. node'[ROOT] = node[ROOT] /\ node'[InitRoot] = node[InitRoot]
      BY <1>8, <2>6, <3>1
    <3>4. node'[InitRoot].mount = m /\ mnt'[m] = MountedRoot /\ node'[MountedRoot].kids = <<>> /\ m # 0
      BY <1>6, <1>8, <2>5, <2>6, <2>8, <3>1, <3>2, <3>3
    <3>5. Built(2)'
      BY <3>1, <3>2, <3>3, <3>4 DEF Built
    <3> QED
      BY <2>10, <3>1, <3>5 DEF Stage, MountStage
  <2>18. Vnodes \subseteq Vnodes'
    BY <2>7
  <2> QED
    BY <1>1, <1>3, <1>13, <1>14, <2>10, <2>11, <2>12, <2>13, <2>14, <2>15, <2>16, <2>17, <2>18, TreeStep
<1>16. CASE ~ (Len(node) < MAX_VNODE)
  <2>1. mnt' = [mnt EXCEPT ![m] = FREE] /\ node' = [node EXCEPT ![v].mount = 0] /\ Return(t, ENOMEM)
    BY <1>2, <1>4, <1>5, <1>16, Zenon DEF MountSetup
  <2>2. t # Main
    <3> SUFFICES ASSUME t = Main PROVE FALSE
      OBVIOUS
    <3>1. Len(node) = 2
      BY <1>7 DEF Built
    <3>2. 2 < MAX_VNODE
      BY Constants
    <3> QED
      BY <1>16, <3>1, <3>2
  <2>3. PICK y : y = [node[v] EXCEPT !.mount = 0]
    OBVIOUS
  <2>4. /\ y \in Vnode /\ y.fs = node[v].fs /\ y.type = node[v].type /\ y.name = node[v].name
        /\ y.parent = node[v].parent /\ y.mount = 0 /\ y.isroot = node[v].isroot /\ y.kids = node[v].kids
    <3>1. 0 \in 0 .. MAX_MOUNT
      BY Constants
    <3> QED
      BY <1>8, <2>3, <3>1, MountField
  <2>5. node' = [node EXCEPT ![v] = y]
    BY <2>1, <2>3
  <2>6. /\ node' \in Seq(Vnode) /\ Len(node') = Len(node) /\ Vnodes' = Vnodes /\ Ptr' = Ptr
        /\ node'[v] = y /\ \A u \in Vnodes \ {v} : node'[u] = node[u]
    BY <1>3, <2>4, <2>5, NodeSet
  <2>7. \A u \in Vnodes : /\ node'[u].fs = node[u].fs /\ node'[u].type = node[u].type
                          /\ node'[u].name = node[u].name /\ node'[u].parent = node[u].parent
                          /\ node'[u].isroot = node[u].isroot /\ node'[u].kids = node[u].kids
    BY <2>4, <2>6
  <2>8. mnt'[m] = FREE /\ (\A x \in Mount \ {m} : mnt'[x] = mnt[x]) /\ mnt' \in [Mount -> Ptr' \cup {FREE}]
    BY <1>8, <2>1, <2>6
  <2>9. PICK r : r = Idle(ENOMEM)
    OBVIOUS
  <2>10. r \in Local /\ r.pc = "idle" /\ CallOK(r) /\ th' = [th EXCEPT ![t] = r]
    BY <2>1, <2>9, IdleRec, Codes DEF Return
  <2>11. VTypes'
    <3>1. \A u \in Vnodes' : /\ node'[u].parent \in Ptr'
                             /\ \A i \in DOMAIN node'[u].kids : node'[u].kids[i] \in Vnodes'
      BY <1>8, <2>6, <2>7
    <3>2. Len(node') \in Nat \ {0} /\ Len(node') <= MAX_VNODE
      BY <1>8, <2>6
    <3>3. fd_table' \in [Thread -> [Fd -> Dirs']] /\ boot' \in 1 .. 7 /\ th' \in [Flow -> Local]
      BY <1>1, <1>3, <2>6, <2>10 DEF Dirs
    <3> QED
      BY <1>1, <1>3, <2>6, <2>8, <3>1, <3>2, <3>3, TreeTypes
  <2>12. DirectoryOK'
    BY <1>3, <2>6, <2>7, SameDirectories
  <2>13. RootOK'
    <3>1. \A u \in Vnodes : node'[u].isroot => node'[u].mount = 0
      BY <1>3, <2>4, <2>6 DEF RootOK
    <3>2. node'[ROOT].parent = NULL /\ node'[ROOT].isroot /\ \A u \in Vnodes \ {ROOT} : node'[u].parent \in Vnodes
      BY <1>3, <1>8, <2>7 DEF RootOK
    <3> QED
      BY <2>6, <3>1, <3>2 DEF RootOK
  <2>14. MountsOK'
    <3>1. ASSUME NEW u \in Vnodes' \ {ROOT}, node'[u].isroot
          PROVE  node'[node'[u].parent].mount # 0 /\ mnt'[node'[node'[u].parent].mount] = u
      <4>1. u \in Vnodes \ {ROOT} /\ node[u].isroot /\ node'[u].parent = node[u].parent
        BY <2>6, <2>7, <3>1
      <4>2. PICK p \in Vnodes \ {v} : p = node[u].parent /\ node[p].mount \in Mount \ {m} /\ mnt[node[p].mount] = u
        BY <1>11, <4>1
      <4>3. node'[p] = node[p] /\ node[p].mount # 0
        BY <2>6, <4>2, Constants
      <4> QED
        BY <2>8, <4>1, <4>2, <4>3
    <3>2. ASSUME NEW u \in Vnodes', node'[u].mount # 0
          PROVE  /\ mnt'[node'[u].mount] # FREE
                 /\ \/ mnt'[node'[u].mount] = NULL
                    \/ mnt'[node'[u].mount] # NULL /\ node'[mnt'[node'[u].mount]].parent = u
                    \/ u # ROOT /\ node'[node'[u].parent].mount = node'[u].mount
      <4>1. u \in Vnodes \ {v} /\ node'[u] = node[u] /\ node[u].mount # 0
        BY <2>4, <2>6, <3>2
      <4>2. PICK x \in Mount \ {m} : x = node[u].mount /\ mnt[x] \in Vnodes
        BY <1>12, <4>1
      <4>3. mnt'[x] = mnt[x] /\ mnt[x] # FREE /\ mnt[x] # NULL /\ node'[mnt[x]].parent = node[mnt[x]].parent
        BY <1>8, <1>10, <2>7, <2>8, <4>1, <4>2
      <4>4. node[mnt[x]].parent = u
            \/ (u # ROOT /\ node[u].parent \in Vnodes \ {v} /\ node[node[u].parent].mount = x)
        BY <1>12, <4>1, <4>2
      <4>5. node[u].parent \in Vnodes \ {v} => node'[node[u].parent] = node[node[u].parent]
        BY <2>6
      <4> QED
        BY <4>1, <4>2, <4>3, <4>4, <4>5
    <3>3. \A x \in Mount : mnt'[x] # NULL
      BY <1>9, <2>8, Codes
    <3> QED
      BY <3>1, <3>2, <3>3 DEF MountsOK
  <2>15. CallOK(r)'
    BY <2>6, <2>10, IdleCall
  <2>16. FindOK(r, c)'
    BY <2>10, IdleFindNext
  <2> QED
    BY <1>1, <1>3, <1>13, <1>14, <2>2, <2>6, <2>10, <2>11, <2>12, <2>13, <2>14, <2>15, <2>16, TreeStep
<1> QED
  BY <1>15, <1>16

\* A component leads to a vnode or to nothing, even while a mount is set up.
LEMMA NextPtr ==
    ASSUME VTypes, RootOK, MountsOK, NEW c \in Ptr, NEW x
    PROVE  NextVnode(c, x) \in Ptr
<1>1. ASSUME NEW v \in Vnodes PROVE Cross(v) \in Ptr
  <2>1. CASE node[v].mount = 0
    BY <2>1 DEF Cross, Ptr
  <2>2. CASE node[v].mount # 0
    <3>1. node[v].mount \in Mount
      BY <2>2, NodeFacts, Constants DEF Mount
    <3>2. mnt[node[v].mount] \in Ptr \cup {FREE} /\ mnt[node[v].mount] # FREE
      BY <2>2, <3>1, NodeFacts DEF MountsOK
    <3> QED
      BY <2>2, <3>2 DEF Cross
  <2> QED
    BY <2>1, <2>2
<1>2. CASE c = NULL
  BY <1>2 DEF NextVnode, Ptr
<1>3. CASE c # NULL
  <2>1. c \in Vnodes
    BY <1>3 DEF Ptr
  <2>2. Up(c) \in Vnodes /\ Cross(c) \in Ptr
    BY <1>1, <2>1, UpOK
  <2>3. Cross(c) # NULL => Child(Cross(c), x) \in Ptr
    BY <2>2, ChildOK DEF Ptr
  <2>4. Cross(c) # NULL /\ Child(Cross(c), x) # NULL => Cross(Child(Cross(c), x)) \in Ptr
    BY <1>1, <2>3 DEF Ptr
  <2> QED
    BY <1>3, <2>1, <2>2, <2>3, <2>4 DEF NextVnode, Ptr
<1> QED
  BY <1>2, <1>3

\* Threads begin and end, between their calls.
LEMMA LifeStep ==
    ASSUME VInv, panic = "no", boot = 7, th[Main].pc = "idle", UNCHANGED <<node, mnt, boot, panic>>,
           life' \in [Thread -> {"none", "live", "astray"}],
           \A t \in Thread : th[t].pc # "idle" => life'[t] # "none",
           th' \in [Flow -> Local],
           \A t \in Flow : th'[t] = th[t] \/ (th[t].pc = "idle" /\ th'[t] = Idle(OK)),
           cwd' \in [Flow -> Dirs], \A t \in Flow : th[t].pc # "idle" => Home(t)' = Home(t), Home(Main)' = NULL,
           fd_table' \in [Thread -> [Fd -> Dirs]], Tidy'
    PROVE  VInv'
<1>1. /\ VTypes /\ DirectoryOK /\ RootOK /\ MountsOK /\ OneCall /\ CallsOK /\ FindInv
      /\ Stage(7, th[Main]) /\ Main \in Flow
  BY DEF VInv, TreeInv, Tree, BootOK, Flow
<1>2. \A t \in Flow : th[t].pc = "idle" => th'[t].pc = "idle" /\ CallOK(th'[t])
  <2>1. OK \in Int
    BY Codes
  <2>2. Idle(OK).pc = "idle" /\ CallOK(Idle(OK))
    BY <2>1, IdleRec
  <2> QED
    BY <1>1, <2>2 DEF CallsOK
<1>3. VTypes'
  <2>1. TypeOK'
    BY <1>1 DEF VTypes, TypeOK, Ptr, Vnodes, Flow, Dirs, Tidy
  <2> QED
    BY <1>1, <2>1 DEF VTypes
<1>4. DirectoryOK' /\ RootOK'
  BY <1>1 DEF DirectoryOK, RootOK, Vnodes
<1>5. MountsOK'
  <2>1. \A m \in Mount : mnt[m] = NULL => \E t \in Flow : th[t].pc = "setup" /\ th[t].cur = m /\ th'[t] = th[t]
    BY <1>1 DEF MountsOK, InSetup
  <2>2. \A m \in Mount : mnt'[m] = NULL => InSetup(m)'
    BY <2>1 DEF InSetup, Flow
  <2> QED
    BY <1>1, <2>2 DEF MountsOK, Vnodes
<1>6. OneCall'
  <2> SUFFICES ASSUME NEW t \in Flow, th'[t].pc # "idle"
               PROVE  /\ \A u \in Flow \ {t} : th'[u].pc = "idle"
                      /\ t \in Thread => life'[t] # "none" /\ th'[t].op # "mknod"
    BY DEF OneCall, Flow
  <2>1. th'[t] = th[t] /\ th[t].pc # "idle"
    BY <1>2
  <2>2. \A u \in Flow \ {t} : th[u].pc = "idle"
    BY <1>1, <2>1 DEF OneCall
  <2> QED
    BY <1>1, <1>2, <2>1, <2>2 DEF OneCall
<1>7. CallsOK'
  <2> SUFFICES ASSUME NEW u \in Flow PROVE CallOK(th[u])'
    BY DEF CallsOK, Flow
  <2>1. CallOK(th'[u])
    BY <1>1, <1>2 DEF CallsOK
  <2>2. PICK q : q = th'[u]
    OBVIOUS
  <2>3. CallOK(q)'
    BY <2>1, <2>2, SameCall
  <2> QED
    BY <2>2, <2>3
<1>8. FindInv'
  <2> SUFFICES ASSUME NEW u \in Flow PROVE FindOK(th[u], Home(u))'
    BY DEF FindInv, Flow
  <2>1. PICK q : q = th'[u]
    OBVIOUS
  <2>2. PICK c : c = Home(u)'
    OBVIOUS
  <2>3. CASE th[u].pc = "idle"
    <3>1. q.pc = "idle"
      BY <1>2, <2>1, <2>3
    <3>2. FindOK(q, c)'
      BY <3>1, IdleFindNext
    <3> QED
      BY <2>1, <2>2, <3>2
  <2>4. CASE th[u].pc # "idle"
    <3>1. q = th[u] /\ c = Home(u)
      BY <2>1, <2>2, <2>4
    <3>2. FindOK(q, c)
      BY <1>1, <3>1 DEF FindInv
    <3>3. FindOK(q, c)'
      BY <3>2, SameFind
    <3> QED
      BY <2>1, <2>2, <3>3
  <2> QED
    BY <2>3, <2>4
<1>9. BootOK'
  <2>1. PICK r : r = th'[Main]
    OBVIOUS
  <2>2. r.pc = "idle"
    BY <1>1, <1>2, <2>1
  <2>3. Stage(7, r)'
    <3>1. MknodStage(r, "framebuffer", 5)'
      BY <2>2 DEF MknodStage
    <3> QED
      BY <3>1 DEF Stage
  <2>4. Stage(boot, th[Main])'
    BY <2>1, <2>3
  <2> QED
    BY <2>1, <2>2, <2>4 DEF BootOK
<1>10. PanicOK'
  BY DEF PanicOK, OnlyFailedCreateIsNull
<1> QED
  BY <1>3, <1>4, <1>5, <1>6, <1>7, <1>8, <1>9, <1>10 DEF VInv, TreeInv, Tree

\* thread_create.
LEMMA CreateKeeps ==
    ASSUME VInv, NEW u \in Thread, Create(u)
    PROVE  VInv'
<1>1. panic = "no" /\ boot = 7 /\ th[Main].pc = "idle" /\ life[u] = "none" /\ UNCHANGED <<node, mnt, boot, th, panic>>
      /\ life' = [life EXCEPT ![u] = "live"] /\ cwd' = [cwd EXCEPT ![u] = ROOT]
  BY DEF Create
<1>2. PICK uart : uart = Resolve(FilePath("uart"), ROOT)
  OBVIOUS
<1>3. fd_table' = [fd_table EXCEPT ![u] = [i \in Fd |-> IF i < 3 THEN uart ELSE NULL]]
  BY <1>2 DEF Create, FilePath
<1>4. /\ VTypes /\ RootOK /\ MountsOK /\ OneCall /\ cwd \in [Flow -> Dirs] /\ fd_table \in [Thread -> [Fd -> Dirs]]
      /\ Home(Main) = NULL /\ u \in Flow /\ u # Main /\ ROOT \in Ptr /\ th \in [Flow -> Local]
      /\ life \in [Thread -> {"none", "live", "astray"}]
  BY NodeFacts, Constants DEF VInv, TreeInv, Tree, VTypes, TypeOK, BootOK, Flow, Ptr, Dirs, Tidy
<1>5. th[u].pc = "idle"
  BY <1>1, <1>4 DEF OneCall
<1>6. uart \in Ptr
  <2>1. PICK p \in Seq(STRING) : p = FilePath("uart") /\ Abs(p) /\ Len(p) = 3
    BY BootPaths, BootAbs, Strings
  <2>2. uart = NextVnode(NextVnode(ROOT, p[2]), p[3])
    BY <1>2, <2>1, ResolveShort
  <2> QED
    BY <1>4, <2>2, NextPtr
<1>7. fd_table' \in [Thread -> [Fd -> Dirs]]
  BY <1>3, <1>4, <1>6 DEF Ptr, Dirs
<1>8. cwd' \in [Flow -> Dirs] /\ Home(Main)' = NULL /\ \A t \in Flow : th[t].pc # "idle" => Home(t)' = Home(t)
  <2>1. cwd' \in [Flow -> Dirs] /\ \A t \in Flow \ {u} : cwd'[t] = cwd[t]
    BY <1>1, <1>4 DEF Dirs
  <2> QED
    BY <1>4, <1>5, <2>1 DEF Home, Flow
<1>11. Tidy'
  <2>1. Tidy /\ WILD \notin Ptr
    BY <1>4 DEF VTypes, TypeOK, Tidy, Ptr, Vnodes, WILD, NULL
  <2>2. cwd'[u] = ROOT /\ \A i \in Fd : fd_table'[u][i] \in {uart, NULL}
    BY <1>1, <1>3, <1>4
  <2>3. \A t \in Thread \ {u} : cwd'[t] = cwd[t] /\ fd_table'[t] = fd_table[t] /\ life'[t] = life[t]
    BY <1>1, <1>3, <1>4 DEF Flow
  <2>4. NULL \in Ptr
    BY DEF Ptr
  <2> QED
    BY <1>4, <1>6, <2>1, <2>2, <2>3, <2>4 DEF Tidy
<1>9. /\ life' \in [Thread -> {"none", "live", "astray"}]
      /\ \A t \in Thread : th[t].pc # "idle" => life'[t] # "none"
  BY <1>1, <1>4 DEF OneCall, Flow
<1>10. th' \in [Flow -> Local] /\ \A t \in Flow : th'[t] = th[t]
  BY <1>1, <1>4
<1> QED
  BY <1>1, <1>7, <1>8, <1>9, <1>10, <1>11, LifeStep

\* The pointers of a thread outside of every call become whatever there is.
LEMMA ScrambleKeeps ==
    ASSUME VInv, NEW u \in Thread, panic = "no", boot = 7, th[Main].pc = "idle", th[u].pc = "idle", Scramble(u)
    PROVE  VInv'
<1>1. life' = [life EXCEPT ![u] = "astray"] /\ UNCHANGED <<node, mnt, boot, th, panic>>
  BY DEF Scramble
<1>2. PICK c \in Garbage : cwd' = [cwd EXCEPT ![u] = c]
  BY DEF Scramble
<1>3. PICK fds \in [Fd -> Garbage] : fd_table' = [fd_table EXCEPT ![u] = fds]
  BY DEF Scramble
<1>4. /\ OneCall /\ cwd \in [Flow -> Dirs] /\ fd_table \in [Thread -> [Fd -> Dirs]] /\ Tidy
      /\ Home(Main) = NULL /\ th \in [Flow -> Local] /\ life \in [Thread -> {"none", "live", "astray"}]
      /\ u \in Flow /\ u # Main
  BY Constants DEF VInv, TreeInv, VTypes, TypeOK, BootOK, Flow, Ptr, Dirs, Tidy
<1>5. Garbage \subseteq Dirs
  BY DEF Garbage, Dirs, Ptr
<1>6. fd_table' \in [Thread -> [Fd -> Dirs]]
  BY <1>3, <1>4, <1>5
<1>7. cwd' \in [Flow -> Dirs] /\ Home(Main)' = NULL /\ \A v \in Flow : th[v].pc # "idle" => Home(v)' = Home(v)
  <2>1. cwd' \in [Flow -> Dirs] /\ \A v \in Flow \ {u} : cwd'[v] = cwd[v]
    BY <1>2, <1>4, <1>5
  <2> QED
    BY <1>4, <2>1 DEF Home, Flow
<1>8. /\ life' \in [Thread -> {"none", "live", "astray"}]
      /\ \A v \in Thread : th[v].pc # "idle" => life'[v] # "none"
  BY <1>1, <1>4 DEF OneCall, Flow
<1>9. th' \in [Flow -> Local] /\ \A v \in Flow : th'[v] = th[v]
  BY <1>1, <1>4
<1>10. Tidy'
  <2>1. \A v \in Thread \ {u} : cwd'[v] = cwd[v] /\ fd_table'[v] = fd_table[v] /\ life'[v] = life[v]
    BY <1>1, <1>2, <1>3, <1>4 DEF Flow
  <2>2. life'[u] = "astray"
    BY <1>1, <1>4
  <2> QED
    BY <1>4, <2>1, <2>2 DEF Tidy
<1> QED
  BY <1>1, <1>6, <1>7, <1>8, <1>9, <1>10, LifeStep

\* sys_fork.
LEMMA ForkKeeps ==
    ASSUME VInv, NEW t \in Thread, NEW u \in Thread, Fork(t, u)
    PROVE  VInv'
<1>1. panic = "no" /\ life[t] # "none" /\ life[u] = "none" /\ Scramble(u)
  BY DEF Fork, Between, Runs
<1>2. boot = 7 /\ th[Main].pc = "idle"
  BY <1>1, Booted
<1>3. th[u].pc = "idle"
  BY <1>1 DEF VInv, TreeInv, OneCall, Flow
<1> QED
  BY <1>1, <1>2, <1>3, ScrambleKeeps

\* A custom handler begins.
LEMMA SignalKeeps ==
    ASSUME VInv, NEW t \in Thread, handle_signal(t)
    PROVE  VInv'
<1>1. panic = "no" /\ life[t] # "none" /\ th[t].pc = "idle" /\ Scramble(t)
  BY DEF handle_signal, Between, Runs
<1>2. boot = 7 /\ th[Main].pc = "idle"
  BY <1>1, Booted
<1> QED
  BY <1>1, <1>2, ScrambleKeeps

\* _exit.
LEMMA ExitKeeps ==
    ASSUME VInv, NEW t \in Thread, Exit(t)
    PROVE  VInv'
<1>1. panic = "no" /\ life[t] # "none" /\ th[t].pc = "idle" /\ UNCHANGED <<node, mnt, boot, panic>>
      /\ life' = [life EXCEPT ![t] = "none"] /\ th' = [th EXCEPT ![t] = Idle(OK)]
      /\ cwd' = [cwd EXCEPT ![t] = NULL] /\ fd_table' = [fd_table EXCEPT ![t] = [i \in Fd |-> NULL]]
  BY DEF Exit
<1>2. boot = 7 /\ th[Main].pc = "idle"
  BY <1>1, Booted
<1>3. /\ OneCall /\ cwd \in [Flow -> Dirs] /\ fd_table \in [Thread -> [Fd -> Dirs]] /\ Tidy
      /\ Home(Main) = NULL /\ th \in [Flow -> Local] /\ life \in [Thread -> {"none", "live", "astray"}]
      /\ t \in Flow /\ t # Main
  BY Constants DEF VInv, TreeInv, VTypes, TypeOK, BootOK, Flow, Ptr, Dirs, Tidy
<1>4. /\ life' \in [Thread -> {"none", "live", "astray"}]
      /\ \A v \in Thread : th[v].pc # "idle" => life'[v] # "none"
  BY <1>1, <1>3 DEF OneCall, Flow
<1>5. PICK i \in Local : i = Idle(OK)
  <2>1. OK \in Int
    BY Codes
  <2> QED
    BY <2>1, IdleRec
<1>6. th' \in [Flow -> Local] /\ \A v \in Flow : th'[v] = th[v] \/ (th[v].pc = "idle" /\ th'[v] = Idle(OK))
  BY <1>1, <1>3, <1>5
<1>7. cwd' \in [Flow -> Dirs] /\ Home(Main)' = NULL /\ \A v \in Flow : th[v].pc # "idle" => Home(v)' = Home(v)
  <2>1. cwd' \in [Flow -> Dirs] /\ \A v \in Flow \ {t} : cwd'[v] = cwd[v]
    BY <1>1, <1>3 DEF Dirs, Ptr
  <2> QED
    BY <1>1, <1>3, <2>1 DEF Home, Flow
<1>8. fd_table' \in [Thread -> [Fd -> Dirs]]
  BY <1>1, <1>3 DEF Dirs, Ptr
<1>9. Tidy'
  <2>1. \A v \in Thread \ {t} : cwd'[v] = cwd[v] /\ fd_table'[v] = fd_table[v] /\ life'[v] = life[v]
    BY <1>1, <1>3 DEF Flow
  <2>2. cwd'[t] = NULL /\ \A j \in Fd : fd_table'[t][j] = NULL
    BY <1>1, <1>3
  <2>3. NULL # WILD
    BY DEF NULL, WILD
  <2> QED
    BY <1>3, <2>1, <2>2, <2>3 DEF Tidy
<1> QED
  BY <1>1, <1>2, <1>4, <1>6, <1>7, <1>8, <1>9, LifeStep

\* The first step of a mkdir.
Started(q, c, z) ==
    /\ z \in Local /\ CallOK(z) /\ z.op = q.op /\ z.path = q.path /\ FindOK(z, c)
    /\ TopPath(q.path) => z.pc = "create" /\ z.dir = ROOT

\* It looks for the directory, unless that is the root.
LEMMA MkdirStarts ==
    ASSUME VTypes
    PROVE  \A q \in Local, c \in Ptr : \A z :
              z = FindParent(q, c) /\ Len(q.path) > 0 /\ q.vnode = NULL /\ q.op = "mkdir" /\ q.tgt = NULL
              => Started(q, c, z)
<1> SUFFICES ASSUME NEW q \in Local, NEW c \in Ptr, NEW z, z = FindParent(q, c), Len(q.path) > 0,
                    q.vnode = NULL, q.op = "mkdir", q.tgt = NULL
             PROVE  Started(q, c, z)
  BY Zenon
<1>1. q.op \in {"open", "mkdir", "mknod"} /\ q.op # "open" /\ q.tgt \in Ptr
  BY DEF Ptr
<1>2. z \in Local /\ CallOK(z) /\ z.op = q.op /\ z.path = q.path /\ FindOK(z, c)
  BY <1>1, FindParentFacts
<1>3. TopPath(q.path) => z.pc = "create" /\ z.dir = ROOT
  BY <1>1, FindParentFacts
<1> QED
  BY <1>2, <1>3 DEF Started

\* vfs_init makes a directory.
LEMMA BootMakes ==
    ASSUME VTypes
    PROVE  \A p \in Seq(STRING) : \A r :
              Len(p) > 0 /\ TopPath(p) /\ r = FindParent(Call("mkdir", p, ""), NULL)
              => /\ r \in Local /\ CallOK(r) /\ FindOK(r, NULL)
                 /\ r.pc = "create" /\ r.dir = ROOT /\ r.op = "mkdir" /\ r.path = p
<1> SUFFICES ASSUME NEW p \in Seq(STRING), Len(p) > 0, TopPath(p),
                    NEW r, r = FindParent(Call("mkdir", p, ""), NULL)
             PROVE  /\ r \in Local /\ CallOK(r) /\ FindOK(r, NULL)
                    /\ r.pc = "create" /\ r.dir = ROOT /\ r.op = "mkdir" /\ r.path = p
  BY Zenon
<1>1. PICK q : q = Call("mkdir", p, "")
  OBVIOUS
<1>2. q \in Local /\ q.op = "mkdir" /\ q.path = p /\ q.vnode = NULL /\ q.tgt = NULL
  <2>1. Fresh(q, "mkdir", p, "")
    BY <1>1, CallRec, Strings, Zenon
  <2> QED
    BY <2>1 DEF Fresh
<1>3. NULL \in Ptr
  BY DEF Ptr
<1>4. r = FindParent(q, NULL) /\ Len(q.path) > 0
  BY <1>1, <1>2
<1>5. Started(q, NULL, r)
  BY <1>2, <1>3, <1>4, MkdirStarts, Zenon
<1>6. TopPath(q.path)
  BY <1>2
<1> QED
  BY <1>2, <1>5, <1>6 DEF Started

\* Such are the paths of the directories that vfs_init makes.
LEMMA TopPaths ==
    \A p \in {InitPath, DevPath} : p \in Seq(STRING) /\ Len(p) > 0 /\ TopPath(p)
<1>1. 2 > 0
  OBVIOUS
<1> QED
  BY <1>1, BootPaths, BootAbs, Zenon DEF TopPath

\* vfs_init looks for a device file.
LEMMA BootMknod ==
    ASSUME VTypes, NEW dev \in {"uart", "framebuffer"}, NEW c, c = NULL,
           NEW r, r = Lookup(Call("mknod", FilePath(dev), dev), FilePath(dev), c)
    PROVE  /\ r \in Local /\ CallOK(r) /\ FindOK(r, c)
           /\ r.pc \in {"walk", "looked"} /\ r.op = "mknod" /\ r.path = FilePath(dev) /\ r.arg = dev
<1>1. PICK p \in Seq(STRING) : p = FilePath(dev) /\ Len(p) = 3
  BY BootPaths, Strings
<1>2. PICK q : q = Call("mknod", p, dev)
  OBVIOUS
<1>3. q \in Local /\ q.op = "mknod" /\ q.path = p /\ q.vnode = NULL /\ q.arg = dev /\ q.dir = NULL
  <2>1. Fresh(q, "mknod", p, dev)
    BY <1>1, <1>2, CallRec, Strings, Zenon
  <2> QED
    BY <2>1 DEF Fresh
<1>4. c \in Ptr
  BY DEF Ptr
<1>5. r \in Local /\ r.dir = NULL
  BY <1>1, <1>2, <1>3, <1>4, LookupFacts
<1>6. Begun(q, p, c, NULL, r)
  <2>1. r = [Lookup(q, p, c) EXCEPT !.dir = NULL]
    BY <1>1, <1>2, <1>5 DEF Local
  <2>2. NULL \in Int /\ NULL \in {NULL, -1} /\ NULL # -1 /\ Len(q.path) > 0
    <3>1. \A n : n = 3 => n > 0
      OBVIOUS
    <3>2. Len(q.path) > 0
      BY <1>1, <1>3, <3>1, Zenon
    <3>3. NULL \in Int /\ NULL # -1
      BY Codes
    <3> QED
      BY <3>2, <3>3
  <2>3. q.op # "" /\ q.op # "mkdir" /\ q.op # "open" /\ q.op # "mount"
    BY <1>3
  <2> QED
    BY <1>3, <1>4, <2>1, <2>2, <2>3, LookupCall
<1>7. /\ CallOK(r) /\ r.pc \in {"walk", "looked"} /\ r.op = "mknod" /\ r.path = p /\ r.arg = dev
      /\ r.pc = "walk" => Follows(r, p, c)
      /\ r.pc = "looked" => Found(r, p, c)
  BY <1>3, <1>6 DEF Begun
<1>8. FindOK(r, c)
  <2>1. NULL # -1
    BY Codes
  <2> QED
    BY <1>5, <1>7, <2>1 DEF FindOK, Sought
<1> QED
  BY <1>1, <1>5, <1>7, <1>8

\* The next call of vfs_init begins.
LEMMA BootStep ==
    ASSUME ~ Interruptible, VInv, Runs(Main), th[Main].pc = "idle", boot < 7, boot' = boot + 1,
           NEW r \in Local, th' = [th EXCEPT ![Main] = r], UNCHANGED <<node, mnt, life, cwd, fd_table, panic>>,
           CallOK(r), FindOK(r, NULL), r.pc # "setup", NEW b, b = boot', Stage(b, r)
    PROVE  VInv'
<1>1. Main \in Flow /\ Main \notin Thread
  BY Constants DEF Flow
<1>2. /\ panic = "no" /\ (\A u \in Flow \ {Main} : th[u].pc = "idle") /\ boot \in 1 .. 7 /\ Home(Main) = NULL
      /\ cwd \in [Flow -> Dirs] /\ fd_table \in [Thread -> [Fd -> Dirs]]
  BY <1>1, InCall
<1>3. boot' \in 1 .. 7 /\ \A u : Home(u)' = Home(u)
  BY <1>2, SameHome
<1> QED
  BY <1>1, <1>2, <1>3, CallStep

\* Where nothing is mounted, /initramfs is not a mount point.
LEMMA NotMounted ==
    ASSUME VTypes, MountsOK, Settled, Built(1)
    PROVE  node[InitRoot].mount = 0
<1>1. InitRoot \in Vnodes
  BY DEF Built, InitRoot, Vnodes
<1> SUFFICES ASSUME node[InitRoot].mount # 0 PROVE FALSE
  OBVIOUS
<1>2. PICK m \in Mount : m = node[InitRoot].mount
  BY <1>1, NodeFacts, Constants DEF Mount
<1>3. mnt[m] # FREE /\ mnt[m] # NULL
  BY <1>1, <1>2 DEF MountsOK, InSetup, Settled
<1> QED
  BY <1>3 DEF Built

\* What vfs_init does next.
LEMMA BootActs ==
    ASSUME Boot
    PROVE  /\ boot = 1 => /\ th' = [th EXCEPT ![Main] = FindParent(Call("mkdir", InitPath, ""), NULL)]
                          /\ UNCHANGED node
           /\ boot = 2 => MountCall(Main, InitPath, "initramfs") /\ UNCHANGED node
           /\ boot = 3 => node' = ArchiveVnodes(Resolve(InitPath, ROOT)) /\ UNCHANGED th
           /\ boot = 4 => /\ th' = [th EXCEPT ![Main] = FindParent(Call("mkdir", DevPath, ""), NULL)]
                          /\ UNCHANGED node
           /\ boot = 5 => /\ th' = [th EXCEPT ![Main] =
                                      Lookup(Call("mknod", FilePath("uart"), "uart"), FilePath("uart"), NULL)]
                          /\ UNCHANGED node
           /\ boot = 6 => /\ th' = [th EXCEPT ![Main] = Lookup(Call("mknod", FilePath("framebuffer"), "framebuffer"),
                                                              FilePath("framebuffer"), NULL)]
                          /\ UNCHANGED node
<1> DEFINE Mk(b) == /\ th' = [th EXCEPT ![Main] =
                          FindParent(Call("mkdir", <<"", IF b = 1 THEN "initramfs" ELSE "dev">>, ""), NULL)]
                    /\ UNCHANGED node
           Mn == MountCall(Main, <<"", "initramfs">>, "initramfs") /\ UNCHANGED node
           Ar == node' = ArchiveVnodes(Resolve(<<"", "initramfs">>, ROOT)) /\ UNCHANGED th
           Nd(b) == LET dev == IF b = 5 THEN "uart" ELSE "framebuffer"
                        p == <<"", "dev", dev>>
                    IN  th' = [th EXCEPT ![Main] = Lookup(Call("mknod", p, dev), p, NULL)] /\ UNCHANGED node
<1>1. (CASE boot \in {1, 4} -> Mk(boot) [] boot = 2 -> Mn [] boot = 3 -> Ar [] OTHER -> Nd(boot))
  BY Zenon DEF Boot
<1>2. boot = 1 => Mk(1)
  <2> HIDE DEF Mk, Mn, Ar, Nd
  <2> QED
    BY <1>1
<1>3. boot = 4 => Mk(4)
  <2> HIDE DEF Mk, Mn, Ar, Nd
  <2> QED
    BY <1>1
<1>4. (boot = 2 => Mn) /\ (boot = 3 => Ar)
  <2> HIDE DEF Mk, Mn, Ar, Nd
  <2> QED
    BY <1>1
<1>5. (boot = 5 => Nd(5)) /\ (boot = 6 => Nd(6))
  <2> HIDE DEF Mk, Mn, Ar, Nd
  <2> QED
    BY <1>1
<1>6. 4 # 1 /\ 6 # 5
  OBVIOUS
<1>7. boot = 1 => /\ th' = [th EXCEPT ![Main] = FindParent(Call("mkdir", InitPath, ""), NULL)]
                  /\ UNCHANGED node
  BY <1>2, Zenon DEF InitPath
<1>8. boot = 2 => MountCall(Main, InitPath, "initramfs") /\ UNCHANGED node
  BY <1>4, Zenon DEF InitPath
<1>9. boot = 3 => node' = ArchiveVnodes(Resolve(InitPath, ROOT)) /\ UNCHANGED th
  BY <1>4, Zenon DEF InitPath
<1>10. boot = 4 => /\ th' = [th EXCEPT ![Main] = FindParent(Call("mkdir", DevPath, ""), NULL)]
                   /\ UNCHANGED node
  BY <1>3, <1>6, Zenon DEF DevPath
<1>11. boot = 5 => /\ th' = [th EXCEPT ![Main] =
                              Lookup(Call("mknod", FilePath("uart"), "uart"), FilePath("uart"), NULL)]
                   /\ UNCHANGED node
  BY <1>5, Zenon DEF FilePath
<1>12. boot = 6 => /\ th' = [th EXCEPT ![Main] = Lookup(Call("mknod", FilePath("framebuffer"), "framebuffer"),
                                                       FilePath("framebuffer"), NULL)]
                   /\ UNCHANGED node
  BY <1>5, <1>6, Zenon DEF FilePath
<1> HIDE DEF Mk, Mn, Ar, Nd
<1> QED
  BY <1>7, <1>8, <1>9, <1>10, <1>11, <1>12, Zenon

\* The calls of vfs_init.
LEMMA BootCalls ==
    ASSUME ~ Interruptible, VInv, Boot, boot # 3
    PROVE  VInv'
<1>1. /\ Runs(Main) /\ th[Main].pc = "idle" /\ boot < 7 /\ boot' = boot + 1
      /\ UNCHANGED <<mnt, life, cwd, fd_table, panic>>
  BY DEF Boot
<1>2. Main \in Flow
  BY DEF Flow
<1>3. /\ VTypes /\ MountsOK /\ Home(Main) = NULL /\ boot \in 1 .. 7 /\ Stage(boot, th[Main])
      /\ \A u \in Flow \ {Main} : th[u].pc = "idle"
  BY <1>1, <1>2, InCall
<1>4. Settled
  BY <1>1, <1>3 DEF Settled
<1>5. PICK c : c = NULL
  OBVIOUS
<1>6. PICK b : b = boot'
  OBVIOUS
<1>7. ASSUME NEW p \in Seq(STRING), Len(p) > 0, TopPath(p),
             th' = [th EXCEPT ![Main] = FindParent(Call("mkdir", p, ""), c)],
             UNCHANGED node, \A r : r.pc = "create" /\ r.op = "mkdir" /\ r.path = p /\ r.dir = ROOT => Stage(b, r)
      PROVE  VInv'
  <2>1. PICK r : r = FindParent(Call("mkdir", p, ""), c)
    OBVIOUS
  <2>2. r \in Local /\ CallOK(r) /\ FindOK(r, c) /\ r.pc = "create" /\ r.dir = ROOT /\ r.op = "mkdir" /\ r.path = p
    <3>1. VTypes /\ Len(p) > 0 /\ TopPath(p)
      BY <1>3, <1>7
    <3> QED
      BY <1>5, <2>1, <3>1, BootMakes, ZenonT(30)
  <2>3. Stage(b, r) /\ r.pc # "setup"
    BY <1>7, <2>2
  <2> QED
    BY <1>1, <1>5, <1>6, <1>7, <2>1, <2>2, <2>3, BootStep
<1>8. ASSUME NEW dev \in {"uart", "framebuffer"}, UNCHANGED node,
             th' = [th EXCEPT ![Main] = Lookup(Call("mknod", FilePath(dev), dev), FilePath(dev), c)],
             \A r : r.pc \in {"walk", "looked"} /\ r.op = "mknod" /\ r.path = FilePath(dev) /\ r.arg = dev
                    => Stage(b, r)
      PROVE  VInv'
  <2>1. PICK r : r = Lookup(Call("mknod", FilePath(dev), dev), FilePath(dev), c)
    OBVIOUS
  <2>2. r \in Local /\ CallOK(r) /\ FindOK(r, c) /\ r.pc \in {"walk", "looked"} /\ r.op = "mknod"
        /\ r.path = FilePath(dev) /\ r.arg = dev
    BY <1>3, <1>5, <2>1, BootMknod
  <2>3. Stage(b, r) /\ r.pc # "setup"
    BY <1>8, <2>2
  <2> QED
    BY <1>1, <1>5, <1>6, <1>8, <2>1, <2>2, <2>3, BootStep
<1>9. CASE boot = 1
  <2>1. th' = [th EXCEPT ![Main] = FindParent(Call("mkdir", InitPath, ""), c)] /\ UNCHANGED node
    BY <1>5, <1>9, BootActs, Zenon
  <2>2. b = 2 /\ Built(0)
    BY <1>1, <1>3, <1>6, <1>9 DEF Stage
  <2>3. ASSUME NEW r, r.pc = "create" /\ r.op = "mkdir" /\ r.path = InitPath /\ r.dir = ROOT
        PROVE  Stage(b, r)
    <3>1. MkdirStage(r, InitPath, 0)
      BY <2>2, <2>3, Zenon DEF MkdirStage
    <3> QED
      BY <2>2, <3>1 DEF Stage
  <2> QED
    BY <1>7, <2>1, <2>3, TopPaths
<1>10. CASE boot = 4
  <2>1. th' = [th EXCEPT ![Main] = FindParent(Call("mkdir", DevPath, ""), c)] /\ UNCHANGED node
    BY <1>5, <1>10, BootActs, Zenon
  <2>2. b = 5 /\ Built(3)
    BY <1>1, <1>3, <1>6, <1>10 DEF Stage
  <2>3. ASSUME NEW r, r.pc = "create" /\ r.op = "mkdir" /\ r.path = DevPath /\ r.dir = ROOT
        PROVE  Stage(b, r)
    <3>1. MkdirStage(r, DevPath, 3)
      BY <2>2, <2>3, Zenon DEF MkdirStage
    <3> QED
      BY <2>2, <3>1 DEF Stage
  <2> QED
    BY <1>7, <2>1, <2>3, TopPaths
<1>11. CASE boot = 2
  <2>1. MountCall(Main, InitPath, "initramfs") /\ UNCHANGED node
    BY <1>11, BootActs, Zenon
  <2>2. b = 3 /\ Built(1) /\ node[InitRoot].mount = 0
    <3>1. Built(0 + 1)
      BY <1>1, <1>3, <1>11 DEF Stage, MkdirStage
    <3>2. 0 + 1 = 1
      OBVIOUS
    <3>3. Built(1)
      BY <3>1, <3>2
    <3> QED
      BY <1>1, <1>3, <1>4, <1>6, <1>11, <3>3, NotMounted
  <2>3. PICK r : r = Lookup(Call("mount", InitPath, "initramfs"), InitPath, c)
    OBVIOUS
  <2>4. th' = [th EXCEPT ![Main] = r]
    <3>1. "initramfs" \in Registered
      BY DEF Registered
    <3> QED
      BY <1>3, <1>5, <2>1, <2>3, <3>1 DEF MountCall
  <2>5. r \in Local /\ CallOK(r) /\ r.pc \in {"walk", "looked"} /\ FindOK(r, c)
        /\ r.op = "mount" /\ r.path = InitPath /\ r.arg = "initramfs"
    <3>1. InitPath \in Seq(STRING) /\ Len(InitPath) > 0
      <4>1. \A n : n = 2 => n > 0
        OBVIOUS
      <4> QED
        BY <4>1, BootPaths, Zenon
    <3>2. "initramfs" \in STRING /\ "initramfs" \in Registered /\ c \in Ptr
      BY <1>5, Strings DEF Registered, Ptr
    <3> QED
      BY <1>3, <2>3, <3>1, <3>2, MountBegins
  <2>6. Stage(b, r)
    <3>1. MountStage(r)
      BY <2>2, <2>5 DEF MountStage
    <3> QED
      BY <2>2, <3>1 DEF Stage
  <2> QED
    BY <1>1, <1>5, <1>6, <2>1, <2>4, <2>5, <2>6, BootStep
<1>12. CASE boot = 5
  <2>1. /\ th' = [th EXCEPT ![Main] = Lookup(Call("mknod", FilePath("uart"), "uart"), FilePath("uart"), c)]
        /\ UNCHANGED node
    BY <1>5, <1>12, BootActs, Zenon
  <2>2. b = 6 /\ Built(4)
    <3>1. Built(3 + 1)
      BY <1>1, <1>3, <1>12 DEF Stage, MkdirStage
    <3>2. 3 + 1 = 4
      OBVIOUS
    <3>3. Built(4)
      BY <3>1, <3>2
    <3> QED
      BY <1>1, <1>6, <1>12, <3>3
  <2>3. ASSUME NEW r, r.pc \in {"walk", "looked"} /\ r.op = "mknod" /\ r.path = FilePath("uart") /\ r.arg = "uart"
        PROVE  Stage(b, r)
    <3>1. MknodStage(r, "uart", 4)
      BY <2>2, <2>3 DEF MknodStage
    <3> QED
      BY <2>2, <3>1 DEF Stage
  <2> QED
    BY <1>8, <2>1, <2>3
<1>13. CASE boot = 6
  <2>1. /\ th' = [th EXCEPT ![Main] =
                    Lookup(Call("mknod", FilePath("framebuffer"), "framebuffer"), FilePath("framebuffer"), c)]
        /\ UNCHANGED node
    BY <1>5, <1>13, BootActs, Zenon
  <2>2. b = 7 /\ Built(5)
    <3>1. Built(4 + 1)
      BY <1>1, <1>3, <1>13 DEF Stage, MknodStage
    <3>2. 4 + 1 = 5
      OBVIOUS
    <3>3. Built(5)
      BY <3>1, <3>2
    <3> QED
      BY <1>1, <1>6, <1>13, <3>3
  <2>3. ASSUME NEW r, r.pc \in {"walk", "looked"} /\ r.op = "mknod" /\ r.path = FilePath("framebuffer")
                      /\ r.arg = "framebuffer"
        PROVE  Stage(b, r)
    <3>1. MknodStage(r, "framebuffer", 5)
      BY <2>2, <2>3 DEF MknodStage
    <3> QED
      BY <2>2, <3>1 DEF Stage
  <2> QED
    BY <1>8, <2>1, <2>3
<1> QED
  BY <1>1, <1>3, <1>9, <1>10, <1>11, <1>12, <1>13

\* A function on 1 .. n is a sequence.
LEMMA SeqFacts ==
    \A S : \A n \in Nat : \A f \in [1 .. n -> S] : f \in Seq(S) /\ Len(f) = n
  OBVIOUS

\* l is a and then b.
Joined(l, a, b, S) ==
    /\ l \in Seq(S) /\ Len(l) = Len(a) + Len(b)
    /\ \A i \in 1 .. Len(a) : l[i] = a[i]
    /\ \A i \in 1 .. Len(b) : l[Len(a) + i] = b[i]

\* Two sequences in a row.
LEMMA ConcatFacts ==
    \A S : \A a, b \in Seq(S) : Joined(a \o b, a, b, S)
<1> SUFFICES ASSUME NEW S, NEW a \in Seq(S), NEW b \in Seq(S)
             PROVE  Joined(a \o b, a, b, S)
  OBVIOUS
<1> QED
  BY DEF Joined

\* What a vnode becomes when the archive is read into it.
Filled(y, v, kids) ==
    /\ y \in Vnode /\ y.fs = v.fs /\ y.type = "dir" /\ y.name = v.name /\ y.parent = v.parent
    /\ y.mount = v.mount /\ y.isroot = v.isroot /\ y.kids = kids

\* Only its type and its children change.
LEMMA FilledFacts ==
    \A v \in Vnode, kids \in Seq(Nat) : Filled([v EXCEPT !.type = "dir", !.kids = kids], v, kids)
<1> SUFFICES ASSUME NEW v \in Vnode, NEW kids \in Seq(Nat), NEW y, y = [v EXCEPT !.type = "dir", !.kids = kids]
             PROVE  Filled(y, v, kids)
  OBVIOUS
<1>1. y \in Vnode
  <2> DEFINE M == 0 .. MAX_MOUNT
  <2>1. v \in [fs : Registered, type : {"dir", "file"}, ops : STRING, name : STRING,
               parent : Nat, mount : M, isroot : BOOLEAN, kids : Seq(Nat)]
    BY DEF Vnode
  <2> HIDE DEF M
  <2>2. y \in [fs : Registered, type : {"dir", "file"}, ops : STRING, name : STRING,
               parent : Nat, mount : M, isroot : BOOLEAN, kids : Seq(Nat)]
    BY <2>1
  <2> QED
    BY <2>2 DEF Vnode, M
<1>2. /\ y.fs = v.fs /\ y.type = "dir" /\ y.name = v.name /\ y.parent = v.parent
      /\ y.mount = v.mount /\ y.isroot = v.isroot /\ y.kids = kids
  BY DEF Vnode
<1> QED
  BY <1>1, <1>2 DEF Filled

\* The tree once initramfs_init has run.
Unpacked(d) ==
    /\ node' \in Seq(Vnode) /\ Len(node') = Len(node) + ArchiveLen
    /\ \A v \in Vnodes \ {d} : node'[v] = node[v]
    /\ Filled(node'[d], node[d], [i \in 1 .. ArchiveLen |-> Len(node) + i])
    /\ \A i \in 1 .. ArchiveLen :
          Made(node'[Len(node) + i], "initramfs", "file", Archive[i], d, 0, FALSE)

\* initramfs_init.
LEMMA ArchiveIs ==
    ASSUME VTypes, NEW d \in Vnodes, node' = ArchiveVnodes(d)
    PROVE  Unpacked(d)
<1>1. PICK n \in Nat : n = Len(node)
  BY NodeFacts
<1>2. PICK a \in Nat : a = ArchiveLen
  BY Constants
<1> DEFINE kids == [i \in 1 .. a |-> n + i]
           new == [i \in 1 .. a |-> NewVnode("initramfs", "file", Archive[i], d, 0, FALSE)]
<1>3. node' = [node EXCEPT ![d].type = "dir", ![d].kids = kids] \o new
  BY <1>1, <1>2, Zenon DEF ArchiveVnodes, ArchiveLen
<1>4. kids \in Seq(Nat)
  OBVIOUS
<1>5. \A i \in 1 .. a : Made(new[i], "initramfs", "file", Archive[i], d, 0, FALSE)
  <2> SUFFICES ASSUME NEW i \in 1 .. a
               PROVE  Made(NewVnode("initramfs", "file", Archive[i], d, 0, FALSE),
                           "initramfs", "file", Archive[i], d, 0, FALSE)
    OBVIOUS
  <2>1. Archive[i] \in STRING
    BY <1>2, Constants DEF ArchiveLen
  <2>2. "initramfs" \in Registered /\ "file" \in {"dir", "file"}
    BY DEF Registered
  <2>3. d \in Nat
    BY NodeFacts
  <2>4. 0 \in 0 .. MAX_MOUNT
    BY Constants
  <2>5. FALSE \in BOOLEAN
    OBVIOUS
  <2> QED
    BY <2>1, <2>2, <2>3, <2>4, <2>5, NewVnodeFacts, Zenon
<1>6. new \in Seq(Vnode) /\ Len(new) = a
  <2>1. \A i \in 1 .. a : new[i] \in Vnode
    BY <1>5 DEF Made
  <2>2. new \in [1 .. a -> Vnode]
    BY <2>1, Zenon
  <2> HIDE DEF new
  <2> QED
    BY <1>2, <2>2, SeqFacts, Zenon
<1> HIDE DEF kids, new
<1>7. PICK y : y = [node[d] EXCEPT !.type = "dir", !.kids = kids]
  OBVIOUS
<1>8. Filled(y, node[d], kids)
  <2>1. node[d] \in Vnode
    BY NodeFacts
  <2> QED
    BY <1>4, <1>7, <2>1, FilledFacts, Zenon
<1>9. PICK s : s = [node EXCEPT ![d] = y]
  OBVIOUS
<1>10. s \in Seq(Vnode) /\ Len(s) = n /\ s[d] = y /\ \A v \in Vnodes \ {d} : s[v] = node[v]
  <2>1. y \in Vnode
    BY <1>8 DEF Filled
  <2>2. node \in Seq(Vnode) /\ DOMAIN node = Vnodes
    BY NodeFacts
  <2> QED
    BY <1>1, <1>9, <2>1, <2>2
<1>11. node' = s \o new
  <2>1. s = [node EXCEPT ![d].type = "dir", ![d].kids = kids]
    <3>1. DOMAIN node = Vnodes
      BY NodeFacts
    <3> QED
      BY <1>7, <1>9, <3>1
  <2> QED
    BY <1>3, <2>1
<1>12. /\ node' \in Seq(Vnode) /\ Len(node') = n + a
       /\ \A i \in 1 .. n : node'[i] = s[i]
       /\ \A i \in 1 .. a : node'[n + i] = new[i]
  <2>1. Joined(node', s, new, Vnode)
    BY <1>6, <1>10, <1>11, ConcatFacts, Zenon
  <2> QED
    BY <1>6, <1>10, <2>1, Zenon DEF Joined
<1>13. Vnodes = 1 .. n
  BY <1>1, NodeFacts
<1>14. (\A v \in Vnodes \ {d} : node'[v] = node[v]) /\ node'[d] = y
  BY <1>10, <1>12, <1>13
<1>15. \A i \in 1 .. ArchiveLen : Made(node'[Len(node) + i], "initramfs", "file", Archive[i], d, 0, FALSE)
  BY <1>1, <1>2, <1>5, <1>12, Zenon
<1> QED
  BY <1>1, <1>2, <1>8, <1>12, <1>14, <1>15, Zenon DEF Unpacked, kids

\* initramfs_init keeps the invariant: the names of the archive differ, and there is room.
LEMMA ArchiveKeeps ==
    ASSUME ~ Interruptible, VInv, Boot, boot = 3
    PROVE  VInv'
<1>1. Main \in Flow /\ Main \notin Thread
  BY Constants DEF Flow
<1>2. /\ Runs(Main) /\ th[Main].pc = "idle" /\ boot' = 4 /\ UNCHANGED <<mnt, life, cwd, fd_table, panic>>
  <2>1. Runs(Main) /\ th[Main].pc = "idle" /\ boot' = boot + 1 /\ UNCHANGED <<mnt, life, cwd, fd_table, panic>>
    BY Zenon DEF Boot
  <2>2. boot' = 4
    BY <2>1
  <2> QED
    BY <2>1, <2>2
<1>3. /\ VTypes /\ RootOK /\ MountsOK /\ DirectoryOK /\ panic = "no" /\ Home(Main) = NULL
      /\ th[Main] \in Local /\ CallOK(th[Main]) /\ Stage(boot, th[Main])
      /\ fd_table \in [Thread -> [Fd -> Dirs]] /\ th \in [Flow -> Local]
      /\ \A u \in Flow \ {Main} : th[u].pc = "idle"
  BY <1>1, <1>2, InCall DEF VTypes
<1>4. Built(2)
  BY <1>2, <1>3 DEF Stage, MountStage
<1>5. node' = ArchiveVnodes(Resolve(InitPath, ROOT)) /\ UNCHANGED th
  BY BootActs, Zenon
<1>6. PICK d \in Vnodes : d = MountedRoot /\ d = 3 /\ Len(node) = 3 /\ d # ROOT /\ d # InitRoot
  <2>1. Len(node) = 3
    BY <1>4 DEF Built
  <2> QED
    BY <2>1 DEF Vnodes, MountedRoot, ROOT, InitRoot
<1>7. Unpacked(d)
  <2>1. Resolve(InitPath, ROOT) = MountedRoot
    BY <1>3, <1>4, BuiltFinds
  <2>2. node' = ArchiveVnodes(d)
    BY <1>5, <1>6, <2>1
  <2> QED
    BY <1>3, <2>2, ArchiveIs
<1>8. PICK a \in Nat : a = ArchiveLen /\ a <= MAX_CHILDREN /\ MAX_VNODE >= a + 6 /\ MAX_VNODE \in Nat
  BY Constants
<1> DEFINE New == 4 .. a + 3
<1>9. /\ node' \in Seq(Vnode) /\ Len(node') = a + 3 /\ Vnodes = 1 .. 3 /\ Vnodes' = 1 .. a + 3
      /\ Vnodes \subseteq Vnodes' /\ Vnodes' = Vnodes \cup New /\ Vnodes \cap New = {}
  <2>1. node' \in Seq(Vnode) /\ Len(node') = 3 + a
    BY <1>6, <1>7, <1>8, Zenon DEF Unpacked
  <2>2. Vnodes = 1 .. 3 /\ Vnodes' = 1 .. a + 3
    BY <1>6, <1>8, <2>1 DEF Vnodes
  <2>3. (1 .. a + 3) = (1 .. 3) \cup New /\ (1 .. 3) \cap New = {}
    BY <1>8
  <2> QED
    BY <1>8, <2>1, <2>2, <2>3
<1>10. \A v \in Vnodes : /\ node'[v] \in Vnode /\ node'[v].fs = node[v].fs /\ node'[v].name = node[v].name
                         /\ node'[v].parent = node[v].parent /\ node'[v].mount = node[v].mount
                         /\ node'[v].isroot = node[v].isroot
  <2>1. \A v \in Vnodes : node[v] \in Vnode
    BY <1>3, NodeFacts
  <2>2. (\A v \in Vnodes \ {d} : node'[v] = node[v])
        /\ Filled(node'[d], node[d], [i \in 1 .. ArchiveLen |-> Len(node) + i])
    BY <1>7, Zenon DEF Unpacked
  <2> QED
    BY <2>1, <2>2, Zenon DEF Filled
<1>11. \A v \in Vnodes \ {d} : node'[v].kids = node[v].kids /\ node'[v].type = node[v].type
  BY <1>7, Zenon DEF Unpacked
<1>12. node'[d].kids = [i \in 1 .. a |-> 3 + i]
  <2>1. Filled(node'[d], node[d], [i \in 1 .. ArchiveLen |-> Len(node) + i])
    BY <1>7, Zenon DEF Unpacked
  <2> QED
    BY <1>6, <1>8, <2>1, Zenon DEF Filled
<1>13. \A i \in 1 .. a : /\ node'[3 + i].name = Archive[i] /\ node'[3 + i].parent = d /\ node'[3 + i].mount = 0
                         /\ node'[3 + i].isroot = FALSE /\ node'[3 + i].kids = <<>> /\ 3 + i \in New
  <2>1. \A i \in 1 .. a : Made(node'[3 + i], "initramfs", "file", Archive[i], d, 0, FALSE)
    BY <1>6, <1>7, <1>8, Zenon DEF Unpacked
  <2>2. \A i \in 1 .. a : 3 + i \in New
    BY <1>8
  <2> HIDE DEF New
  <2> QED
    BY <2>1, <2>2, Zenon DEF Made
<1>14. \A v \in New : \E i \in 1 .. a : v = 3 + i
  <2> SUFFICES ASSUME NEW v \in New PROVE \E i \in 1 .. a : v = 3 + i
    OBVIOUS
  <2>1. v - 3 \in 1 .. a /\ v = 3 + (v - 3)
    BY <1>8
  <2> QED
    BY <2>1
<1>15. \A v \in New : node'[v].parent = d /\ node'[v].mount = 0 /\ node'[v].isroot = FALSE /\ node'[v].kids = <<>>
  <2> HIDE DEF New
  <2> SUFFICES ASSUME NEW v \in New
               PROVE  node'[v].parent = d /\ node'[v].mount = 0 /\ node'[v].isroot = FALSE /\ node'[v].kids = <<>>
    OBVIOUS
  <2>1. PICK i \in 1 .. a : v = 3 + i
    BY <1>14
  <2> QED
    BY <1>13, <2>1
<1>16. Len(node'[d].kids) = a /\ DOMAIN node'[d].kids = 1 .. a /\ \A i \in 1 .. a : node'[d].kids[i] = 3 + i
  BY <1>8, <1>12
<1> HIDE DEF New
<1>17. /\ ROOT \in Vnodes /\ InitRoot \in Vnodes /\ (\A v \in Vnodes : v # NULL /\ v \in Nat)
       /\ \A v \in Vnodes : /\ node[v].parent \in Ptr
                            /\ (node[v].mount # 0 => node[v].mount \in Mount)
                            /\ \A i \in DOMAIN node[v].kids : node[v].kids[i] \in Vnodes
       /\ mnt \in [Mount -> Ptr \cup {FREE}]
  <2>1. InitRoot \in Vnodes
    BY <1>9 DEF InitRoot
  <2>2. \A m \in 0 .. MAX_MOUNT : m # 0 => m \in Mount
    BY Constants DEF Mount
  <2> QED
    BY <1>3, <2>1, <2>2, NodeFacts
<1>18. VTypes'
  <2>1. \A v \in Vnodes' : /\ node'[v].parent \in Ptr'
                           /\ \A i \in DOMAIN node'[v].kids : node'[v].kids[i] \in Vnodes'
    <3> SUFFICES ASSUME NEW v \in Vnodes'
                 PROVE  /\ node'[v].parent \in Ptr'
                        /\ \A i \in DOMAIN node'[v].kids : node'[v].kids[i] \in Vnodes'
      OBVIOUS
    <3>1. Ptr \subseteq Ptr' /\ Vnodes \subseteq Ptr'
      BY <1>9 DEF Ptr
    <3>2. CASE v \in New
      <4>1. DOMAIN <<>> = {}
        OBVIOUS
      <4> QED
        BY <1>15, <3>1, <3>2, <4>1
    <3>3. CASE v = d
      <4>1. node'[d].parent \in Ptr'
        BY <1>10, <1>17, <3>1
      <4>2. \A i \in DOMAIN node'[d].kids : node'[d].kids[i] \in New
        BY <1>13, <1>16
      <4> QED
        BY <1>9, <3>3, <4>1, <4>2
    <3>4. CASE v \in Vnodes \ {d}
      BY <1>9, <1>10, <1>11, <1>17, <3>1, <3>4
    <3> QED
      BY <1>9, <3>2, <3>3, <3>4
  <2>2. Len(node') \in Nat \ {0} /\ Len(node') <= MAX_VNODE
    BY <1>8, <1>9
  <2>3. mnt' \in [Mount -> Ptr' \cup {FREE}] /\ fd_table' \in [Thread -> [Fd -> Dirs']]
    <3>1. Ptr \subseteq Ptr'
      BY <1>9 DEF Ptr
    <3> QED
      BY <1>2, <1>3, <1>17, <3>1 DEF Dirs
  <2>4. boot' \in 1 .. 7 /\ th' \in [Flow -> Local]
    BY <1>2, <1>3, <1>5
  <2>5. node' \in Seq(Vnode) /\ Vnodes \subseteq Vnodes' /\ UNCHANGED <<cwd, life, panic>>
    BY <1>2, <1>9
  <2> QED
    BY <1>2, <1>3, <2>1, <2>2, <2>3, <2>4, <2>5, TreeTypes
<1>19. DirectoryOK'
  <2> SUFFICES ASSUME NEW v \in Vnodes'
               PROVE  /\ Len(node'[v].kids) <= MAX_CHILDREN
                      /\ \A i, j \in DOMAIN node'[v].kids :
                            node'[node'[v].kids[i]].name = node'[node'[v].kids[j]].name => i = j
                      /\ \A i \in DOMAIN node'[v].kids : node'[node'[v].kids[i]].parent = v
    BY DEF DirectoryOK
  <2>1. CASE v \in New
    <3>1. Len(<<>>) = 0 /\ DOMAIN <<>> = {}
      OBVIOUS
    <3>2. 0 <= MAX_CHILDREN
      BY Constants
    <3> QED
      BY <1>15, <2>1, <3>1, <3>2
  <2>2. CASE v = d
    <3>1. \A i, j \in 1 .. a : Archive[i] = Archive[j] => i = j
      <4>1. \A i, j \in DOMAIN Archive : Archive[i] = Archive[j] => i = j
        BY VfsAssumption
      <4>2. DOMAIN Archive = 1 .. a
        BY <1>8, Constants DEF ArchiveLen
      <4> QED
        BY <4>1, <4>2
    <3>2. \A i \in 1 .. a : node'[node'[d].kids[i]].name = Archive[i] /\ node'[node'[d].kids[i]].parent = d
      BY <1>13, <1>16
    <3>3. Len(node'[d].kids) <= MAX_CHILDREN
      BY <1>8, <1>16
    <3>4. /\ \A i, j \in 1 .. a : node'[node'[d].kids[i]].name = node'[node'[d].kids[j]].name => i = j
          /\ \A i \in 1 .. a : node'[node'[d].kids[i]].parent = d
      BY <3>1, <3>2
    <3> QED
      BY <1>16, <2>2, <3>3, <3>4
  <2>3. CASE v \in Vnodes \ {d}
    <3>1. /\ Len(node[v].kids) <= MAX_CHILDREN
          /\ \A i, j \in DOMAIN node[v].kids : node[node[v].kids[i]].name = node[node[v].kids[j]].name => i = j
          /\ \A i \in DOMAIN node[v].kids : node[node[v].kids[i]].parent = v
      BY <1>3, <2>3 DEF DirectoryOK
    <3>2. \A i \in DOMAIN node[v].kids : /\ node'[node[v].kids[i]].name = node[node[v].kids[i]].name
                                         /\ node'[node[v].kids[i]].parent = node[node[v].kids[i]].parent
      BY <1>10, <1>17, <2>3
    <3> QED
      BY <1>11, <2>3, <3>1, <3>2
  <2> QED
    BY <1>9, <2>1, <2>2, <2>3
<1>20. RootOK'
  <2>1. node'[ROOT].parent = NULL /\ node'[ROOT].isroot
    BY <1>3, <1>10, <1>17 DEF RootOK
  <2>2. ASSUME NEW v \in Vnodes' \ {ROOT} PROVE node'[v].parent \in Vnodes'
    <3>1. CASE v \in New
      BY <1>9, <1>15, <3>1
    <3>2. CASE v \in Vnodes
      <4>1. node'[v].parent = node[v].parent
        BY <1>10, <3>2
      <4>2. node[v].parent \in Vnodes
        BY <1>3, <3>2 DEF RootOK
      <4> QED
        BY <1>9, <4>1, <4>2
    <3> QED
      BY <1>9, <3>1, <3>2
  <2>3. \A v \in Vnodes' : node'[v].isroot => node'[v].mount = 0
    BY <1>3, <1>9, <1>10, <1>15 DEF RootOK
  <2> QED
    BY <2>1, <2>2, <2>3 DEF RootOK
<1>21. MountsOK'
  <2>1. ASSUME NEW r \in Vnodes' \ {ROOT}, node'[r].isroot
        PROVE  node'[node'[r].parent].mount # 0 /\ mnt'[node'[node'[r].parent].mount] = r
    <3>1. r \in Vnodes \ {ROOT} /\ node[r].isroot /\ node'[r].parent = node[r].parent
      BY <1>9, <1>10, <1>15, <2>1
    <3>2. node[r].parent \in Vnodes
      BY <1>3, <3>1 DEF RootOK
    <3>3. node[node[r].parent].mount # 0 /\ mnt[node[node[r].parent].mount] = r
      BY <1>3, <3>1 DEF MountsOK
    <3> QED
      BY <1>2, <1>10, <3>1, <3>2, <3>3
  <2>2. ASSUME NEW v \in Vnodes', node'[v].mount # 0
        PROVE  /\ mnt'[node'[v].mount] # FREE
               /\ \/ mnt'[node'[v].mount] = NULL
                  \/ mnt'[node'[v].mount] # NULL /\ node'[mnt'[node'[v].mount]].parent = v
                  \/ v # ROOT /\ node'[node'[v].parent].mount = node'[v].mount
    <3>1. v \in Vnodes /\ node[v].mount # 0 /\ node'[v].mount = node[v].mount /\ node'[v].parent = node[v].parent
      BY <1>9, <1>10, <1>15, <2>2
    <3>2. PICK m \in Mount : m = node[v].mount
      BY <1>17, <3>1
    <3>3. /\ mnt[m] # FREE
          /\ \/ mnt[m] = NULL
             \/ mnt[m] # NULL /\ node[mnt[m]].parent = v
             \/ v # ROOT /\ node[node[v].parent].mount = m
      BY <1>3, <3>1, <3>2 DEF MountsOK
    <3>4. mnt[m] # NULL => mnt[m] \in Vnodes /\ node'[mnt[m]].parent = node[mnt[m]].parent
      BY <1>10, <1>17, <3>2, <3>3 DEF Ptr
    <3>5. v # ROOT => node[v].parent \in Vnodes /\ node'[node[v].parent].mount = node[node[v].parent].mount
      BY <1>3, <1>10, <3>1 DEF RootOK
    <3> QED
      BY <1>2, <3>1, <3>2, <3>3, <3>4, <3>5
  <2>3. \A m \in Mount : mnt'[m] # NULL
    <3>1. \A u \in Flow : th[u].pc # "setup"
      BY <1>2, <1>3
    <3> QED
      BY <1>2, <1>3, <3>1 DEF MountsOK, InSetup
  <2> QED
    BY <2>1, <2>2, <2>3 DEF MountsOK
<1>22. PICK r : r = th[Main]
  OBVIOUS
<1>23. PICK c : c = Home(Main)
  OBVIOUS
<1>24. PICK b : b = boot'
  OBVIOUS
<1>25. r \in Local /\ r.pc = "idle" /\ CallOK(r) /\ th' = [th EXCEPT ![Main] = r]
  BY <1>2, <1>3, <1>5, <1>22
<1>26. CallOK(r)' /\ FindOK(r, c)'
  BY <1>9, <1>25, IdleCall, IdleFindNext
<1>27. Stage(b, r)'
  <2>1. Built(3)'
    <3>1. Len(node') = ArchiveLen + 3
      BY <1>8, <1>9
    <3>2. /\ node'[ROOT].fs = "tmpfs" /\ node'[ROOT].type = "dir" /\ node'[ROOT].mount = 0
          /\ node'[ROOT].kids = <<InitRoot>>
      <4>1. /\ node[ROOT].fs = "tmpfs" /\ node[ROOT].type = "dir" /\ node[ROOT].mount = 0
            /\ node[ROOT].kids = <<InitRoot>>
        BY <1>4 DEF Built
      <4> QED
        BY <1>6, <1>10, <1>11, <1>17, <4>1
    <3>3. node'[InitRoot].name = "initramfs"
      BY <1>4, <1>10, <1>17 DEF Built
    <3> QED
      BY <3>1, <3>2, <3>3 DEF Built
  <2>2. b = 4
    BY <1>2, <1>24
  <2> QED
    BY <1>25, <2>1, <2>2 DEF Stage
<1>28. boot' \in 1 .. 7 /\ UNCHANGED <<life, cwd, panic>> /\ boot < 7 /\ Vnodes \subseteq Vnodes'
  BY <1>2, <1>9
<1>29. panic = "no" /\ \A u \in Flow \ {Main} : th[u].pc = "idle"
  BY <1>3
<1> QED
  BY <1>1, <1>18, <1>19, <1>20, <1>21, <1>23, <1>24, <1>25, <1>26, <1>27, <1>28, <1>29, TreeStep

-----------------------------------------------------------------------------
(* The specification *)

\* Steps that change nothing.
LEMMA StutterKeeps ==
    ASSUME VInv, UNCHANGED vars
    PROVE  VInv'
<1>1. UNCHANGED <<node, mnt, boot, th, life, cwd, fd_table, panic>>
  BY DEF vars
<1>2. panic' \in {"no", "vnode", "file", "wild"}
  BY <1>1 DEF VInv, TreeInv, VTypes, TypeOK
<1>3. PanicOK'
  BY <1>1 DEF VInv, PanicOK, OnlyFailedCreateIsNull, RawRoots, Vnodes, Cross
<1> QED
  BY <1>1, <1>2, <1>3, StopKeeps

\* rootfs and nothing else.
LEMMA InitHolds ==
    Init => VInv
<1> SUFFICES ASSUME Init PROVE VInv
  OBVIOUS
<1>1. PICK root : root = NewVnode("tmpfs", "dir", "/", NULL, 0, TRUE)
  OBVIOUS
<1>2. node = <<root>>
  BY <1>1, Zenon DEF Init, tmpfs_setup_mount
<1>3. /\ mnt = [m \in Mount |-> FREE] /\ boot = 1 /\ panic = "no"
      /\ th = [t \in Flow |-> Idle(OK)] /\ life = [t \in Thread |-> "none"]
      /\ cwd = [t \in Flow |-> NULL] /\ fd_table = [t \in Thread |-> [i \in Fd |-> NULL]]
  BY DEF Init, Flow
<1>4. Made(root, "tmpfs", "dir", "/", NULL, 0, TRUE)
  <2>1. "tmpfs" \in Registered
    BY DEF Registered
  <2>2. "/" \in STRING
    BY Strings
  <2>3. NULL \in Nat
    BY Codes
  <2>4. 0 \in 0 .. MAX_MOUNT
    BY Constants
  <2>5. "dir" \in {"dir", "file"} /\ TRUE \in BOOLEAN
    OBVIOUS
  <2> QED
    BY <1>1, <2>1, <2>2, <2>3, <2>4, <2>5, NewVnodeFacts, Zenon
<1>5. /\ node \in Seq(Vnode) /\ Len(node) = 1 /\ node[1] = root /\ Vnodes = {1} /\ ROOT = 1 /\ node # <<>>
  <2>1. root \in Vnode
    BY <1>4 DEF Made
  <2>2. node \in Seq(Vnode) /\ Len(node) = 1 /\ node[1] = root
    BY <1>2, <2>1
  <2> QED
    BY <2>2 DEF Vnodes, ROOT
<1>6. /\ root \in Vnode /\ root.fs = "tmpfs" /\ root.type = "dir" /\ root.parent = NULL /\ root.mount = 0
      /\ root.isroot = TRUE /\ root.kids = <<>> /\ Len(root.kids) = 0 /\ DOMAIN root.kids = {}
  BY <1>4 DEF Made
<1>7. PICK r \in Local : r = Idle(OK) /\ r.pc = "idle" /\ CallOK(r) /\ \A c : FindOK(r, c)
  <2>1. OK \in Int
    BY Codes
  <2> QED
    BY <2>1, IdleRec
<1>8. \A t \in Flow : th[t] = r
  BY <1>3, <1>7
<1>9. VTypes
  <2>1. TypeOK
    <3>1. Len(node) <= MAX_VNODE
      <4>1. \A a \in Nat : a + 6 >= 1
        OBVIOUS
      <4> QED
        BY <1>5, <4>1, Constants
    <3>2. \A v \in Vnodes : /\ node[v] \in Vnode /\ node[v].parent \in Ptr
                            /\ \A i \in DOMAIN node[v].kids : node[v].kids[i] \in Vnodes
      BY <1>5, <1>6 DEF Ptr
    <3>3. mnt \in [Mount -> Ptr \cup {FREE}] /\ cwd \in [Flow -> Dirs] /\ fd_table \in [Thread -> [Fd -> Dirs]]
      BY <1>3 DEF Ptr, Dirs
    <3>4. boot \in 1 .. 7 /\ panic \in {"no", "vnode", "file", "wild"}
          /\ life \in [Thread -> {"none", "live", "astray"}]
      BY <1>3
    <3>5. Tidy
      BY <1>3 DEF Tidy, Flow, NULL, WILD
    <3> QED
      BY <3>1, <3>2, <3>3, <3>4, <3>5 DEF TypeOK, Dirs, Tidy, Ptr, Flow
  <2>2. th \in [Flow -> Local] /\ life \in [Thread -> {"none", "live", "astray"}]
    BY <1>3, <1>7
  <2> QED
    BY <1>5, <2>1, <2>2 DEF VTypes
<1>10. DirectoryOK
  <2>1. 0 <= MAX_CHILDREN
    BY Constants
  <2> QED
    BY <1>5, <1>6, <2>1 DEF DirectoryOK
<1>11. RootOK
  BY <1>5, <1>6 DEF RootOK
<1>12. MountsOK
  <2>1. \A m \in Mount : mnt[m] # NULL
    BY <1>3, Codes
  <2> QED
    BY <1>5, <1>6, <2>1 DEF MountsOK
<1>13. OneCall /\ CallsOK /\ FindInv
  BY <1>7, <1>8 DEF OneCall, CallsOK, FindInv
<1>14. BootOK
  <2>1. Main \in Flow
    BY DEF Flow
  <2>2. Built(0)
    BY <1>3, <1>5, <1>6 DEF Built
  <2>3. th[Main].pc = "idle"
    BY <1>7, <1>8, <2>1
  <2>4. Stage(boot, th[Main])
    BY <1>3, <2>2, <2>3 DEF Stage
  <2>5. Home(Main) = NULL
    BY <1>3, <2>1 DEF Home
  <2> QED
    BY <1>3, <2>1, <2>4, <2>5 DEF BootOK
<1>15. PanicOK
  BY <1>3 DEF PanicOK, OnlyFailedCreateIsNull
<1> QED
  BY <1>9, <1>10, <1>11, <1>12, <1>13, <1>14, <1>15 DEF VInv, TreeInv, Tree

\* Every step keeps the invariant.
LEMMA NextKeeps ==
    ASSUME ~ Interruptible, VInv, [Next]_vars
    PROVE  VInv'
<1>1. ASSUME Boot \/ BootAstray PROVE VInv'
  BY <1>1, BootCalls, ArchiveKeeps, BootAstrayKeeps
<1>2. ASSUME NEW t \in Thread, Create(t) PROVE VInv'
  BY <1>2, CreateKeeps
<1>3. ASSUME NEW t \in Thread, Syscall(t) PROVE VInv'
  <2>1. ASSUME NEW o \in Opens, Open(t, o) PROVE VInv'
    BY <2>1, OpenKeeps
  <2>2. ASSUME NEW i \in Fd, Close(t, i) PROVE VInv'
    BY <2>2, CloseKeeps
  <2>3. ASSUME NEW i \in Fd, Use(t, i) PROVE VInv'
    BY <2>3, UseKeeps
  <2>4. ASSUME NEW p \in Mkdirs, Mkdir(t, p) PROVE VInv'
    BY <2>4, MkdirKeeps
  <2>5. ASSUME NEW p \in Mounts, NEW fs \in FsNames, DoMount(t, p, fs) PROVE VInv'
    BY <2>5, DoMountKeeps
  <2>6. ASSUME NEW p \in Chdirs, Chdir(t, p) PROVE VInv'
    BY <2>6, ChdirKeeps
  <2>7. ASSUME NEW u \in Thread, Fork(t, u) PROVE VInv'
    BY <2>7, ForkKeeps
  <2>8. ASSUME Exit(t) PROVE VInv'
    BY <2>8, ExitKeeps
  <2>9. ASSUME handle_signal(t) PROVE VInv'
    BY <2>9, SignalKeeps
  <2>10. ASSUME Stray(t) PROVE VInv'
    BY <2>10, StrayKeeps
  <2> QED
    BY <1>3, <2>1, <2>2, <2>3, <2>4, <2>5, <2>6, <2>7, <2>8, <2>9, <2>10 DEF Syscall
<1>4. ASSUME NEW t \in Flow, Inside(t) PROVE VInv'
  <2>1. CASE Walk(t)
    BY <2>1, WalkKeeps
  <2>2. CASE ParentFound(t)
    BY <2>2, ParentFoundKeeps
  <2>3. CASE Check(t)
    BY <2>3, CheckKeeps
  <2>4. CASE Insert(t)
    BY <2>4, InsertKeeps
  <2>5. CASE Created(t)
    BY <2>5, CreatedKeeps
  <2>6. CASE OpenLooked(t)
    BY <2>6, OpenLookedKeeps
  <2>7. CASE OpenFile(t)
    BY <2>7, OpenFileKeeps
  <2>8. CASE MountLooked(t)
    BY <2>8, MountLookedKeeps
  <2>9. CASE MountSet(t)
    BY <2>9, MountSetKeeps
  <2>10. CASE MountSetup(t)
    BY <2>10, MountSetupKeeps
  <2>11. CASE ChdirLooked(t)
    BY <2>11, ChdirLookedKeeps
  <2> QED
    BY <1>4, <2>1, <2>2, <2>3, <2>4, <2>5, <2>6, <2>7, <2>8, <2>9, <2>10, <2>11 DEF Inside
<1>5. CASE Halted
  BY <1>5, StutterKeeps DEF Halted
<1>6. CASE UNCHANGED vars
  BY <1>6, StutterKeeps
<1> QED
  BY <1>1, <1>2, <1>3, <1>4, <1>5, <1>6 DEF Next, Flow

\* VInv is an inductive invariant.
LEMMA VInvariance ==
    ASSUME ~ Interruptible
    PROVE  Spec => []VInv
<1>1. Init => VInv
  BY InitHolds
<1>2. VInv /\ [Next]_vars => VInv'
  BY NextKeeps
<1> QED
  BY <1>1, <1>2, PTL DEF Spec

\* No step of vfs_init or of a call leaves a pointer to a vnode that does not exist in
\* the tree, in a mount or in the fields of a thread, but for those of a thread that
\* sys_fork made or handle_signal interrupted, until it ends; what such a thread does
\* with them puts none into the tree or into another thread.
THEOREM PointersAreVnodes ==
    ASSUME ~ Interruptible
    PROVE  Spec => []TypeOK
<1>1. VInv => TypeOK
  BY DEF VInv, TreeInv, VTypes
<1> QED
  BY <1>1, VInvariance, PTL

\* The checks of tmpfs_create_or_mkdir keep every directory a map from names to vnodes.
THEOREM DirectoriesAreMaps ==
    ASSUME ~ Interruptible
    PROVE  Spec => []DirectoryOK
<1>1. VInv => DirectoryOK
  BY DEF VInv, TreeInv, Tree
<1> QED
  BY <1>1, VInvariance, PTL

\* vfs_mount and vfs_lookup agree: ".." is the inverse of going down, across mounts too.
THEOREM DotDotGoesBack ==
    ASSUME ~ Interruptible
    PROVE  Spec => []DotDotInverts
<1>1. VInv => DotDotInverts
  BY DotDot DEF VInv, TreeInv
<1> QED
  BY <1>1, VInvariance, PTL

\* vfs_lookup, vfs_create, vfs_mkdir and vfs_mount follow no NULL vnode; vfs_open does
\* only where it ignored that its create failed.  They follow a wild pointer only for a
\* thread that was forked or had a signal, or in the node of an initramfs root.
THEOREM NullOnlyAfterCreate ==
    ASSUME ~ Interruptible
    PROVE  Spec => []OnlyFailedCreateIsNull
<1>1. VInv => OnlyFailedCreateIsNull
  BY DEF VInv, PanicOK
<1> QED
  BY <1>1, VInvariance, PTL

\* The steps of vfs_lookup and vfs_create in vfs_open end at the vnode that the path
\* names when the call is over.
THEOREM OpenedIsNamed ==
    ASSUME ~ Interruptible
    PROVE  Spec => []OpenFindsIt
<1>1. VInv => OpenFindsIt
  <2> SUFFICES ASSUME VInv, NEW t \in Thread, th[t].pc = "open", th[t].vnode # NULL,
                      Abs(th[t].path) \/ Home(t) # NULL,
                      th[t].dir > 0 => node[th[t].dir].mount = 0
               PROVE  Resolve(th[t].path, Home(t)) = th[t].vnode
    BY DEF OpenFindsIt
  <2>1. t \in Flow
    BY DEF Flow
  <2>2. CallOK(th[t]) /\ FindOK(th[t], Home(t))
    BY <2>1 DEF VInv, TreeInv, CallsOK, FindInv
  <2>3. th[t].op \in {"open", "mknod"}
    BY <2>2 DEF CallOK
  <2> QED
    BY <2>2, <2>3 DEF FindOK
<1> QED
  BY <1>1, VInvariance, PTL

=============================================================================
