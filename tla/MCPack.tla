------------------------------- MODULE MCPack -------------------------------
(***************************************************************************)
(* Small packs: an index of a file and of an image to mount that shares it *)
(* with the file, one of two items with the same bytes, one with nothing   *)
(* in a directory; one manifest of a directory and a download; and packs   *)
(* that go wrong.                                                          *)
(***************************************************************************)
EXTENDS Pack

b == Blob("b")
c == Blob("c")
h == Blob("h")
old == Blob("old")
image == Manifest(Empty, <<b>>)

File(f, config, platform) == Item("file", <<f>>, NoDigest, config, platform)
Dir(fs, platform) == Item("dir", fs, NoDigest, NoFile, platform)
Http(f) == Item("http", <<f>>, NoDigest, NoFile, "none")
Mount == Item("oci", << >>, image, NoFile, "none")
PackOf(config, items) == [config |-> config, items |-> items]

Shared   == PackOf(NoFile, <<File("b", NoFile, "ok"), Mount>>)
Twins    == PackOf(NoFile, <<File("b", NoFile, "ok"), Dir(<<"b">>, "ok")>>)
Flat     == PackOf("c", <<Dir(<<"b", "c">>, "none"), Http("kept")>>)
Hollow   == PackOf(NoFile, <<Dir(<< >>, "ok"), Mount>>)
Dangling == PackOf(NoFile, <<Dir(<<"b", "dangling">>, "none")>>)
BadName  == PackOf(NoFile, <<File("b", "c", "bad"), Mount>>)
Missing  == PackOf(NoFile, <<File("dangling", NoFile, "none"), Http("h")>>)
Bucket   == PackOf(NoFile, <<Item("s3", << >>, NoDigest, NoFile, "none"), Mount>>)
Confused == PackOf("c", <<Mount>>)

MCPacks == {Shared, Twins, Flat, Hollow, Dangling, BadName, Missing, Bucket, Confused}
MCLeftover == [p \in {"b", "c", "h", "kept", "dangling"} |->
                 CASE p = "b" -> b [] p = "c" -> c [] p = "kept" -> old
                   [] OTHER -> NoDigest]
MCServed == [p \in {"h", "kept"} |-> h]
MCSize == [d \in {b, c, h, old} |-> 1]

(* The artifacts these packs make, and the ones they must not make.        *)
Shuffles(f) == {g \in [DOMAIN f -> {f[i] : i \in DOMAIN f}] :
                  \A x \in {f[i] : i \in DOMAIN f} :
                    Cardinality({i \in DOMAIN f : f[i] = x}) = Cardinality({i \in DOMAIN g : g[i] = x})}
Manifests == {Manifest(Empty, << >>), image} \cup
             {Manifest(l[1], Tail(l)) : l \in Shuffles(<<Empty, b>>) \cup Shuffles(<<c, b>>)
                                               \cup Shuffles(<<c, b, c, old>>)}
Indexes == {Index(<<image, image>>), Index(<<Manifest(Empty, << >>), image>>),
            Index(<<image, Manifest(Empty, << >>)>>)}
MCDigests == {NoDigest, Empty, b, c, h, old} \cup Manifests \cup Indexes
MCMayFail == {b, h, Empty, image, Index(<<image, image>>)}
MCMayTimeOut == {Empty, h}
=============================================================================
