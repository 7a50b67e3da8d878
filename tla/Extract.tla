------------------------------- MODULE Extract -------------------------------
(***************************************************************************)
(* Reading a packed artifact back (pkg/extract): each artifact found gets  *)
(* a directory, its files are written one by one, what is mounted in it is *)
(* extracted in its turn, and a pack file comes last.  Beside it, what     *)
(* packing makes of such a tree (builder.go, handlers.go), which extract   *)
(* inverts.  A tree is a function from paths.                              *)
(* A definition marked as a slip is a bug the properties are there to      *)
(* catch; nothing else uses it.                                            *)
(***************************************************************************)
EXTENDS Artifacts

CONSTANTS
  Walk        \* the paths there are, in the order filepath.Walk visits them

ASSUME WalkAssumption == Walk \in Seq(Seq(STRING))

VARIABLES
  status,     \* of the command: idle, running, done or failed
  disk,       \* what is written, by directory and path in it
  seen,       \* the artifacts met, and their directories
  jobs        \* what is still to be done, first things first

extractVars == <<status, disk, seen, jobs>>

PackFile == <<"pack.yaml">>
ConfigAt == <<"config.json">>
Partial  == <<"partial">>                   \* a file whose writing broke off

-----------------------------------------------------------------------------
(* A pack file: files and directories by their path, images by digest; an  *)
(* item may have a config of its own.  A download makes the layer that a   *)
(* file of its base name would.                                            *)
Pack(name, config, items) == [name |-> name, config |-> config, items |-> items]
Item(kind, path, platform) ==
  [kind |-> kind, path |-> path, platform |-> platform, config |-> NoPath]
Mounted(of, platform) == [kind |-> "oci", of |-> of, platform |-> platform, config |-> NoPath]

-----------------------------------------------------------------------------
(* What packing makes of a pack file over a tree: fileHandler titles a     *)
(* layer with the base name, walkDirHandler with the rest of the path.     *)

LayersOf(item, tree) ==
  IF item.kind = "file" THEN << Layer(<<Last(item.path)>>, NoPath, tree[item.path]) >>
  ELSE FlattenSeq([i \in DOMAIN Walk |->
         IF Walk[i] \in DOMAIN tree /\ IsStrictPrefix(item.path, Walk[i])
         THEN << Layer(SubSeq(Walk[i], Len(item.path) + 1, Len(Walk[i])), item.path,
                       tree[Walk[i]]) >>
         ELSE << >>])

IndexExpected(items) == \E i \in DOMAIN items : items[i].kind = "oci" \/ items[i].platform # None

(* Nothing to pack, a config for the pack next to members that have their  *)
(* own, or one for a member that is mounted.                               *)
RefusedPack == [kind |-> "refused"]
Refused(pack) ==
  \/ pack.items = << >>
  \/ IndexExpected(pack.items) /\ pack.config # NoPath
  \/ \E i \in DOMAIN pack.items : pack.items[i].kind = "oci" /\ pack.items[i].config # NoPath

ConfigIn(tree, path) == IF path = NoPath THEN None ELSE tree[path]
Build(pack, tree) ==
  LET items == pack.items
      member(item) == IF item.kind = "oci" THEN item.of
                      ELSE Manifest(None, ConfigIn(tree, item.config), LayersOf(item, tree))
  IN  IF Refused(pack) THEN RefusedPack
      ELSE IF IndexExpected(items)
      THEN Index(pack.name, [i \in DOMAIN items |->
                               Entry(member(items[i]), items[i].platform, None)])
      ELSE Manifest(pack.name,
                    ConfigIn(tree, pack.config),
                    FlattenSeq([i \in DOMAIN items |-> LayersOf(items[i], tree)]))

-----------------------------------------------------------------------------
(* files: one dir:// item for the layers of a directory, file:// items for *)
(* the others.                                                             *)
ItemsOf(layers, platform) ==
  LET first(i) == \A j \in 1 .. i - 1 : layers[j].dir # layers[i].dir
  IN  FlattenSeq([i \in DOMAIN layers |->
        IF layers[i].dir = NoPath THEN << Item("file", LayerPath(layers[i]), platform) >>
        ELSE IF first(i) THEN << Item("dir", layers[i].dir, platform) >> ELSE << >>])

(* item and the pack file of an artifact.                                  *)
ItemsOfMember(e) ==
  IF KindOf(e) = "files" THEN ItemsOf(e.of.layers, e.platform)
  ELSE << Mounted(e.of, e.platform) >>

PackOf(a) ==
  IF IsIndex(a)
  THEN Pack(a.name, NoPath,
            FlattenSeq([i \in DOMAIN a.members |-> ItemsOfMember(a.members[i])]))
  ELSE Pack(a.name, IF a.config = None THEN NoPath ELSE ConfigAt,
            ItemsOf(a.layers, None))

-----------------------------------------------------------------------------
(* What is to be done: extract an artifact, deal with a member of an       *)
(* index, or write a file.                                                 *)

ArtifactJob(e, fallback) == [do |-> "artifact", entry |-> e, fallback |-> fallback]
MemberJob(e, dir)        == [do |-> "member", entry |-> e, dir |-> dir]
WriteJob(dir, path, of)  == [do |-> "write", dir |-> dir, path |-> path, of |-> of]

DirOf(e, fallback) ==
  IF e.name # None THEN e.name ELSE IF e.of.name # None THEN e.of.name ELSE fallback

FilesByTitle(layers, dir) ==                \* slip: the item's directory is forgotten
  [i \in DOMAIN layers |-> WriteJob(dir, layers[i].title, layers[i].of)]
Files(layers, dir) ==
  [i \in DOMAIN layers |-> WriteJob(dir, LayerPath(layers[i]), layers[i].of)]

Member(e, dir) ==
  CASE KindOf(e) = "files"    -> Files(e.of.layers, dir)
    [] KindOf(e) = "image"    -> << >>
    [] KindOf(e) = "artifact" -> << ArtifactJob(e, <<"sha256", e.of>>) >>

Parts(a, dir) ==
  IF IsIndex(a) THEN [i \in DOMAIN a.members |-> MemberJob(a.members[i], dir)]
  ELSE (IF a.config = None THEN << >> ELSE << WriteJob(dir, ConfigAt, a.config) >>)
       \o Files(a.layers, dir)
WritePack(a, dir) == WriteJob(dir, PackFile, <<"pack", PackOf(a)>>)

With(f, x, v) == [k \in DOMAIN f \cup {x} |-> IF k = x THEN v ELSE f[k]]

-----------------------------------------------------------------------------
Root(a)    == Entry(a, None, None)
RootJob(a) == ArtifactJob(Root(a), <<"repo">>)
RootDir(a) == DirOf(Root(a), <<"repo">>)

ExtractInit == status = "idle" /\ disk = << >> /\ seen = << >> /\ jobs = << >>

Begin(a) ==
  /\ status = "idle"
  /\ status' = "running" /\ jobs' = << RootJob(a) >>
  /\ UNCHANGED <<disk, seen>>

Doing(what) == status = "running" /\ jobs # << >> /\ Head(jobs).do = what

(* artifact: one that was met before is in its directory already.          *)
OpenArtifact ==
  /\ Doing("artifact")
  /\ LET a   == Head(jobs).entry.of
         dir == DirOf(Head(jobs).entry, Head(jobs).fallback)
     IN  IF a \in DOMAIN seen THEN jobs' = Tail(jobs) /\ UNCHANGED seen
         ELSE /\ seen' = With(seen, a, dir)
              /\ jobs' = Parts(a, dir) \o << WritePack(a, dir) >> \o Tail(jobs)
  /\ UNCHANGED <<status, disk>>

TakeMember ==
  /\ Doing("member")
  /\ jobs' = Member(Head(jobs).entry, Head(jobs).dir) \o Tail(jobs)
  /\ UNCHANGED <<status, disk, seen>>

(* writeBlob, unless the path leaves the directory.                        *)
Place == <<Head(jobs).dir, Head(jobs).path>>
WriteBlob ==
  /\ Doing("write") /\ ~Escapes(Head(jobs).path)
  /\ disk' = With(disk, Place, Head(jobs).of)
  /\ jobs' = Tail(jobs)
  /\ UNCHANGED <<status, seen>>

(* What cannot be read or written ends the command; a file that is being   *)
(* written stays as it is.                                                 *)
GiveUp ==
  /\ status = "running" /\ jobs # << >>
  /\ status' = "failed" /\ jobs' = << >>
  /\ \/ UNCHANGED disk
     \/ Doing("write") /\ ~Escapes(Head(jobs).path) /\ disk' = With(disk, Place, Partial)
  /\ UNCHANGED seen

Finish ==
  /\ status = "running" /\ jobs = << >>
  /\ status' = "done"
  /\ UNCHANGED <<disk, seen, jobs>>

ExtractStep == OpenArtifact \/ TakeMember \/ WriteBlob \/ GiveUp \/ Finish

-----------------------------------------------------------------------------
(* What the tests and the README promise of a directory with a pack file.  *)

Tree(dir) == [p \in {k[2] : k \in {k \in DOMAIN disk : k[1] = dir}} |-> disk[<<dir, p>>]]
PackedUp(dir) == <<dir, PackFile>> \in DOMAIN disk /\ disk[<<dir, PackFile>>] # Partial

(* Whatever List says the artifact packs itself is in its directory, at    *)
(* the same path and with the same content.                                *)
InPlace(b) ==
  \A i \in DOMAIN List(b) : /\ <<seen[b], List(b)[i].path>> \in DOMAIN disk
                            /\ disk[<<seen[b], List(b)[i].path>>] = List(b)[i].of

(* Packing what is in the directory of b gives b.                          *)
Rebuilt(b) == LET tree == Tree(seen[b]) IN Build(tree[PackFile][2], tree) = b
=============================================================================
