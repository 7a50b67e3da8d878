---------------------------- MODULE RemoteClient ----------------------------
(***************************************************************************)
(* The client of a remote registry (pkg/registry/remote/client.go) and, as *)
(* far as the client relies on it, the registry: one repository that is    *)
(* written, next to others it is mounted from.  A client call is a list of *)
(* requests still to be made; Serve says what the registry does with the   *)
(* first of them and which requests the answer leads to.                   *)
(* A definition marked as a slip is a bug the properties are there to      *)
(* catch; no specification uses it.                                        *)
(***************************************************************************)
EXTENDS Naturals, Sequences

VARIABLES blobs,      \* digests served under /blobs of the repository
          manifests,  \* digests served under /manifests only
          tag         \* what the destination's tag names

-----------------------------------------------------------------------------
(* Content is its own address.  Everything a manifest names besides its    *)
(* config (layers, then the subject) is in `layers`, in the order the      *)
(* client walks it.                                                        *)

Blob(name)               == <<"blob", name>>
Manifest(config, layers) == <<"manifest", config, layers>>
Index(members)           == <<"index", members>>
NoDigest                 == <<"none", "none">>

IsManifest(d) == d[1] \in {"manifest", "index"}
Parts(d) == CASE d[1] = "manifest" -> <<d[2]>> \o d[3]
              [] d[1] = "index"    -> d[2]
              [] OTHER             -> << >>
PartsOf(d) == {Parts(d)[i] : i \in 1 .. Len(Parts(d))}

(* d and everything below it is in `held`; artifacts here nest no deeper   *)
(* than an index, its manifests and their blobs.                           *)
Whole(d, held) ==
  /\ d \in held
  /\ \A p \in PartsOf(d) : p \in held /\ PartsOf(p) \subseteq held

-----------------------------------------------------------------------------
(* Requests, named after what the client asks the registry for.            *)

Ask(op, d) == << [op |-> op, of |-> d] >>

(* Push looks for the blob and only then uploads it, manifests included.   *)
Push(d) == Ask("head", d)

(* MountFrom resolves the reference, then mounts what it names: a blob by  *)
(* a cross-repository mount, a manifest by its parts and its own bytes.    *)
MountFrom(d) == Ask("resolve", d)
MountDescriptor(d) == Ask(IF IsManifest(d) THEN "fetch" ELSE "mount", d)

BytesFirst(d) ==                            \* slip: the manifest before its parts
  LET asked == [i \in 1 .. Len(Parts(d)) |-> MountDescriptor(Parts(d)[i])[1]]
  IN  Push(d) \o asked
MountManifest(d) ==
  LET asked == [i \in 1 .. Len(Parts(d)) |-> MountDescriptor(Parts(d)[i])[1]]
  IN  asked \o Push(d)

(* What a granted request changes, and the requests that take its place.   *)
(* A refused mount (202) turns into an upload of bytes read elsewhere.     *)
Serve(request, more) ==
  LET d == request.of IN
  \/ /\ request.op = "resolve" /\ more = MountDescriptor(d) /\ UNCHANGED blobs
  \/ /\ request.op = "fetch"   /\ more = MountManifest(d)   /\ UNCHANGED blobs
  \/ /\ request.op = "mount"   /\ more = << >> /\ blobs' = blobs \cup {d}
  \/ /\ request.op = "mount"   /\ more = Push(d) /\ UNCHANGED blobs
  \/ /\ request.op = "head"
     /\ more = IF d \in blobs THEN << >> ELSE Ask("put", d)
     /\ UNCHANGED blobs
  \/ /\ request.op = "put"     /\ more = << >> /\ blobs' = blobs \cup {d}

Continuations(request) ==
  LET d == request.of IN
  {<< >>, MountDescriptor(d), MountManifest(d), Push(d), Ask("put", d)}

(* SetTag reads the manifest back from the blob endpoint and writes it     *)
(* under the tag.                                                          *)
CanTag(d) == IsManifest(d) /\ d \in blobs
SetTag(d) == /\ tag' = d
             /\ manifests' = manifests \cup {d}

clientVars == <<blobs, manifests, tag>>
=============================================================================
