----------------------------- MODULE MountStack -----------------------------
(***************************************************************************)
(* What mount puts on top of an image and how umount takes it down again   *)
(* (cmd/mount.go, cmd/umount.go, pkg/overlay): one overlay, a tmpfs on     *)
(* each volatile path, the bind mounts asked for.  Mount commands may be   *)
(* repeated on one target, and a umount may run in the middle of one.      *)
(* The kernel's mount table is modelled as far as the commands see it.     *)
(***************************************************************************)
EXTENDS Integers, Sequences, FiniteSets

CONSTANTS
  Images,     \* what may be mounted: layers, directories and symlinks of the tree
  Volatile,   \* AutoTmpfsPaths, relative to the target
  Binds,      \* the container paths of --bind, in order
  MaxLowers,  \* layers whose option string still fits in a page
  MaxMounts   \* bound: mount commands in a behaviour

VARIABLES
  image,      \* the image this layout reference names
  table,      \* /proc/mounts, in the order the mounts were made
  mounter,    \* the mount command: "idle", "overlay", "resolve" or "stack"
  todo,       \* the tmpfs and bind mounts it has still to make
  mounts,     \* mount commands begun
  umounter,   \* the umount command: "idle", "unmount"; how the last one ended
  targets,    \* the mount points it has still to take down
  failed,     \* how many it could not
  lazy,       \* whether it was asked to detach busy mounts
  raced,      \* a mount command was under way during the last umount
  used        \* the mount point a process works in, or Nobody or Gone

vars == <<image, table, mounter, todo, mounts, umounter, targets, failed, lazy,
          raced, used>>

-----------------------------------------------------------------------------
(* Paths, and the kernel's view of them.                                   *)

Path   == Seq(STRING)
Dst    == <<"dst">>
Nobody == << >>
Gone   == <<"gone">>

ASSUME MountAssumption ==
  /\ MaxLowers \in Nat /\ MaxMounts \in Nat
  /\ Dst \in Path /\ Volatile \in Seq(Path) /\ Binds \in Seq(Path)
  /\ \A m \in Images : /\ m.layers \in Seq(SUBSET STRING)
                        /\ DOMAIN m.links \subseteq Path
                        /\ \A p \in DOMAIN m.links : m.links[p] \in Path

Below(p, q) == Len(q) <= Len(p) /\ SubSeq(p, 1, Len(q)) = q

(* A sequence without the elements at some of its positions.               *)
Without(seq, is) ==
  LET keep[n \in 0 .. Len(seq)] ==
        IF n = 0 THEN << >>
        ELSE IF n \in is THEN keep[n - 1] ELSE Append(keep[n - 1], seq[n])
  IN  keep[Len(seq)]

(* A mount is hidden by a later one on its own path or on one above it.    *)
Visible(i) == \A j \in i + 1 .. Len(table) : ~Below(table[i].at, table[j].at)

(* The file system a path is in: the last mount on the way to it.          *)
Over(p)   == {i \in 1 .. Len(table) : Below(p, table[i].at)}
InImage(p) == Over(p) # {} /\ \E i \in Over(p) : /\ \A j \in Over(p) : j <= i
                                                 /\ table[i].kind = "overlay"

IsLink(p) == p \in DOMAIN image.links /\ InImage(p)
Real(p) ==
  IF \E q \in DOMAIN image.links : Below(p, q) /\ IsLink(q)
  THEN LET q == CHOOSE r \in DOMAIN image.links : Below(p, r) /\ IsLink(r)
       IN  image.links[q] \o SubSeq(p, Len(q) + 1, Len(p))
  ELSE p

(* MkdirAll: the tree of a read-only overlay has the directories it has.   *)
CanMake(p) == InImage(p) => p \in image.dirs

-----------------------------------------------------------------------------
(* overlay.Mount.  Layers are numbered from the bottom; 0 is the empty     *)
(* directory that keeps a single layer company.                            *)

Reversed(ls) == [i \in DOMAIN ls |-> ls[Len(ls) + 1 - i]]
AsListed(ls) == ls                          \* slip: bottom layer first
OverlayOptions(ls) == Reversed(ls)
Fits(ls) == Len(ls) \in 1 .. MaxLowers

LayerDirs   == [i \in DOMAIN image.layers |-> i]
LowersNow   == IF Len(LayerDirs) = 1 THEN <<0>> \o LayerDirs ELSE LayerDirs
LowersUnit  == LayerDirs                    \* WriteUnits hands the layers on as they are
KernelTakes(lowers) == Len(lowers) > 1      \* a lone lowerdir needs an upperdir

Entry(kind, at, lowers) == [kind |-> kind, at |-> at, lowers |-> lowers]

Init ==
  /\ image \in Images
  /\ table = << >> /\ todo = << >> /\ targets = << >>
  /\ mounter = "idle" /\ umounter = "idle" /\ used = Nobody
  /\ mounts = 0 /\ failed = 0 /\ lazy = FALSE /\ raced = FALSE

mountVars  == <<mounter, todo, mounts>>
umountVars == <<umounter, targets, failed, lazy, raced>>

-----------------------------------------------------------------------------
(* mountNow.                                                               *)

BeginMount ==
  /\ mounter = "idle" /\ mounts < MaxMounts
  /\ mounter' = "overlay" /\ mounts' = mounts + 1
  /\ raced' = TRUE
  /\ UNCHANGED <<image, table, todo, umounter, targets, failed, lazy, used>>

GiveUp == mounter' = "idle" /\ todo' = << >>

MountOverlay ==
  /\ mounter = "overlay" /\ Fits(LowersNow) /\ KernelTakes(LowersNow)
  /\ table' = Append(table, Entry("overlay", Dst, OverlayOptions(LowersNow)))
  /\ mounter' = "resolve"
  /\ UNCHANGED <<image, todo, mounts, umountVars, used>>

(* Every mkdir and every mount(2) may fail, whatever the image.            *)
OverlayFails ==
  /\ mounter = "overlay"
  /\ GiveUp
  /\ UNCHANGED <<image, table, mounts, umountVars, used>>

(* ResolveAutoTmpfs leaves symlinks out; the binds come after.             *)
ResolveTargets ==
  /\ mounter = "resolve"
  /\ LET tmpfs == [i \in DOMAIN Volatile |-> Entry("tmpfs", Dst \o Volatile[i], << >>)]
         binds == [i \in DOMAIN Binds    |-> Entry("bind", Dst \o Binds[i], << >>)]
     IN  todo' = Without(tmpfs, {i \in DOMAIN tmpfs : IsLink(tmpfs[i].at)}) \o binds
  /\ mounter' = "stack"
  /\ UNCHANGED <<image, table, mounts, umountVars, used>>

(* EnsureWithin, then MkdirAll and the mount itself, which follows links.  *)
Anywhere(p) == TRUE                         \* slip: the target is taken at its word
Within(p) == Below(Real(p), Dst)

MountNext ==
  /\ mounter = "stack" /\ todo # << >> /\ Within(Head(todo).at) /\ CanMake(Real(Head(todo).at))
  /\ table' = Append(table, [Head(todo) EXCEPT !.at = Real(@)])
  /\ todo' = Tail(todo)
  /\ UNCHANGED <<image, mounter, mounts, umountVars, used>>

SkipTmpfs ==
  /\ mounter = "stack" /\ todo # << >> /\ Head(todo).kind = "tmpfs" /\ ~Within(Head(todo).at)
  /\ todo' = Tail(todo)
  /\ UNCHANGED <<image, table, mounter, mounts, umountVars, used>>

(* Nothing that was mounted so far is taken back.                          *)
StackFails ==
  /\ mounter = "stack" /\ todo # << >> /\ (Within(Head(todo).at) \/ Head(todo).kind = "bind")
  /\ GiveUp
  /\ UNCHANGED <<image, table, mounts, umountVars, used>>

MountCompletes ==
  /\ mounter = "stack" /\ todo = << >>
  /\ mounter' = "idle"
  /\ UNCHANGED <<image, table, todo, mounts, umountVars, used>>

-----------------------------------------------------------------------------
(* umount.                                                                 *)

(* MountedUnder: every line of the table, hidden ones too.                 *)
Points    == [i \in DOMAIN table |-> table[i].at]
Elsewhere == {i \in DOMAIN table : ~Below(table[i].at, Dst)}
Repeated  == {i \in DOMAIN table : \E j \in 1 .. i - 1 : table[j].at = table[i].at}
ListedOnce == Without(Points, Elsewhere \cup Repeated)   \* slip: each path once
MountedUnder == Without(Points, Elsewhere)

BeginUmount ==
  /\ umounter # "unmount" /\ MountedUnder # << >>
  /\ umounter' = "unmount" /\ targets' = MountedUnder /\ failed' = 0
  /\ lazy' \in BOOLEAN /\ raced' = (mounter # "idle")
  /\ UNCHANGED <<image, table, mountVars, used>>

(* Which of the targets left is next: a deepest one.                       *)
AnyNext(k) == k \in DOMAIN targets          \* slip: in the order of the table
Deepest(k) == \A j \in DOMAIN targets : Len(targets[j]) <= Len(targets[k])

(* The kernel refuses to unmount what carries mounts or is worked in,      *)
(* unless it is asked to detach the whole tree.                            *)
Carried(i) == {j \in i + 1 .. Len(table) : Below(table[j].at, table[i].at)}
At(p) == {i \in 1 .. Len(table) : table[i].at = p /\ Visible(i)}
Detached(i) == {i} \cup Carried(i)
Removable(i) == lazy \/ (Carried(i) = {} /\ used # table[i].at)

UnmountNext ==
  /\ umounter = "unmount"
  /\ \E k \in DOMAIN targets : \E i \in At(targets[k]) :
       /\ Deepest(k) /\ Removable(i)
       /\ table' = Without(table, Detached(i))
       /\ targets' = Without(targets, {k})
       /\ used' = IF \E j \in Detached(i) : used = table[j].at THEN Gone ELSE used
  /\ UNCHANGED <<image, mountVars, umounter, failed, lazy, raced>>

(* A failure is counted and the next target tried.                         *)
Refuses(k) == Deepest(k) /\ \A i \in At(targets[k]) : ~Removable(i)

UnmountStops ==                             \* slip: the first failure ends the command
  /\ umounter = "unmount"
  /\ \E k \in DOMAIN targets : Refuses(k)
  /\ umounter' = "failed" /\ targets' = << >> /\ failed' = failed + 1
  /\ UNCHANGED <<image, table, mountVars, lazy, raced, used>>

UnmountFails ==
  /\ umounter = "unmount"
  /\ \E k \in DOMAIN targets : Refuses(k) /\ targets' = Without(targets, {k})
  /\ failed' = failed + 1
  /\ UNCHANGED <<image, table, mountVars, umounter, lazy, raced, used>>

UmountEnds ==
  /\ umounter = "unmount" /\ targets = << >>
  /\ umounter' = IF failed = 0 THEN "removed" ELSE "failed"
  /\ UNCHANGED <<image, table, mountVars, targets, failed, lazy, raced, used>>

-----------------------------------------------------------------------------
(* A process that works in one of the mounts for a while.                  *)

Enter ==
  /\ used = Nobody
  /\ \E i \in 1 .. Len(table) : Visible(i) /\ used' = table[i].at
  /\ UNCHANGED <<image, table, mountVars, umountVars>>

Leave ==
  /\ used \notin {Nobody, Gone}
  /\ used' = Gone
  /\ UNCHANGED <<image, table, mountVars, umountVars>>

-----------------------------------------------------------------------------
Mounting   == \/ MountOverlay \/ OverlayFails \/ ResolveTargets
              \/ MountNext \/ SkipTmpfs \/ StackFails \/ MountCompletes
Unmounting == BeginUmount \/ UnmountNext \/ UnmountFails \/ UmountEnds

Next == BeginMount \/ Mounting \/ Unmounting \/ Enter \/ Leave

Spec == Init /\ [][Next]_vars

(* A command that runs comes to its end, nobody works in a mount for ever, *)
(* and whoever wants the target back calls umount again while something is *)
(* mounted there.                                                          *)
FairSpec == /\ Spec
            /\ WF_vars(Mounting) /\ WF_vars(Leave) /\ WF_vars(Unmounting)

Entries == [kind : {"overlay", "tmpfs", "bind"}, at : Path, lowers : Seq(Nat)]
Stacked == [kind : {"tmpfs", "bind"}, at : Path, lowers : {<< >>}]

TypeOK ==
  /\ image \in Images
  /\ table \in Seq(Entries)
  /\ \A i \in DOMAIN table : table[i].kind = "overlay" <=> table[i].lowers # << >>
  /\ mounter \in {"idle", "overlay", "resolve", "stack"}
  /\ todo \in Seq(Stacked)
  /\ todo # << >> => mounter = "stack"
  /\ mounts \in 0 .. MaxMounts
  /\ umounter \in {"idle", "unmount", "removed", "failed"}
  /\ targets \in Seq(Path)
  /\ targets # << >> => umounter = "unmount"
  /\ failed \in Nat /\ lazy \in BOOLEAN /\ raced \in BOOLEAN

-----------------------------------------------------------------------------
(* Properties.                                                             *)

UnderTarget == {i \in DOMAIN table : Below(table[i].at, Dst)}

(* "All mounts removed" (umount.go:68): a umount that says so has left     *)
(* nothing under the target, mounts stacked on one path and busy ones      *)
(* included, unless a mount command was at work on it meanwhile.           *)
RemovedMeansBare ==
  [][umounter' = "removed" /\ umounter = "unmount" /\ ~raced => UnderTarget = {}]_vars

(* Children before parents (umount.go:45, docs/mount.md:198-199): umount   *)
(* never stands in its own way.  What keeps it from a first mount is a     *)
(* process in it, which --lazy does not mind, a mount that hides one from  *)
(* the path it was made on, or a mount command under way.                  *)
FailureHasACause ==
  [][failed' = 1 /\ failed = 0 =>
       \/ raced
       \/ ~lazy /\ used \notin {Nobody, Gone}
       \/ \E i \in DOMAIN table : ~Visible(i)]_vars

(* Whatever state mount commands leave behind, completed or given up half  *)
(* way (nothing is taken back, mount.go:138-174), umount gets rid of it in *)
(* the end, because a mount it cannot remove does not keep it from the     *)
(* others (docs/mount.md:199).                                             *)
BareInTheEnd == <>[](UnderTarget = {})

(* Nothing is mounted outside the target, whatever the image's symlinks    *)
(* (overlay.go:83-87): only what umount will find again.                   *)
StaysWithin == \A i \in DOMAIN table : Below(table[i].at, Dst)

(* The image looks as its manifest says: every path shows the layer        *)
(* closest to the top that has it (docs/mount.md: overlayfs gives the      *)
(* leftmost lowerdir precedence), the empty layer never hides anything.    *)
Has(layer, f) == layer # 0 /\ f \in image.layers[layer]
Shown(lowers, f) == CHOOSE k \in DOMAIN lowers :
                      Has(lowers[k], f) /\ \A j \in 1 .. k - 1 : ~Has(lowers[j], f)
TopLayerWins ==
  \A i \in DOMAIN table : table[i].kind = "overlay" =>
    \A n \in DOMAIN image.layers : \A f \in image.layers[n] :
      LET shown == table[i].lowers[Shown(table[i].lowers, f)]
      IN  Has(shown, f) /\ \A m \in DOMAIN image.layers : Has(m, f) => m <= shown

-----------------------------------------------------------------------------
(* mount --persistent: WriteUnits writes the overlay's unit, and one per   *)
(* tmpfs and bind bound to it, then systemd is asked to start them.        *)

StartUnits ==
  /\ mounter = "idle" /\ mounts < MaxMounts /\ Fits(LowersUnit)
  /\ table' = IF KernelTakes(LowersUnit)
              THEN Append(table, Entry("overlay", Dst, OverlayOptions(LowersUnit)))
              ELSE table
  /\ mounts' = mounts + 1
  /\ UNCHANGED <<image, mounter, todo, umountVars, used>>

PersistentSpec == Init /\ [][StartUnits]_vars

(* "It generates systemd.mount units: one for the overlay" (docs/mount.md: *)
(* 170-171), for single-layer images too, which "are the common case       *)
(* rather than an edge one" (docs/mount.md:68): the unit mounts it.        *)
UnitsMount == mounts > 0 => table # << >>
=============================================================================
