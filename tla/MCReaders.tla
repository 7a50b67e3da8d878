------------------------------ MODULE MCReaders ------------------------------
(***************************************************************************)
(* Packs to read back: files and a directory with a config, images of two  *)
(* platforms next to files, files for two platforms, items with configs of *)
(* their own, a pack mounted in another, a directory outside, one whose    *)
(* files for two platforms have one name, and one of an empty directory.   *)
(* Tags move between them, and from a manifest to an index.                *)
(***************************************************************************)
EXTENDS Readers, TLC

Amd == <<"amd64">>
Arm == <<"arm64">>
File(path, platform) == Item("file", path, platform)
Dir(path, platform)  == Item("dir", path, platform)

RootFile == <<"schema">>
AmdApp   == <<"amd", "app">>
ArmApp   == <<"arm", "tool">>
ArmTwin  == <<"arm", "app">>
Template == <<"templates", "a">>
Nested   == <<"templates", "sub", "b">>
Beside   == <<"..", "shared", "lib">>
MCWalk   == << Beside, AmdApp, <<"app">>, ArmApp, ArmTwin, ConfigAt, RootFile, Template, Nested,
               <<"tool">> >>
Sources  == [p \in {Beside, RootFile, AmdApp, ArmApp, ArmTwin, Template, Nested} |-> <<"of", p>>]
Packed(name, config, items) == Build(Pack(name, config, items), Sources)

Image(arch) == Manifest(None, <<"image config">>, << Layer(<<"rootfs">>, NoPath, <<"rootfs", arch>>) >>)
Images == Index(None, << Entry(Image(Amd), Amd, None), Entry(Image(Arm), Arm, None),
                         Entry(Manifest(None, None, << >>), <<"unknown">>, None) >>)

Flat    == Packed(<<"flat">>, RootFile, << File(ArmTwin, None), Dir(<<"templates">>, None) >>)
Split   == Packed(<<"split">>, NoPath, << File(AmdApp, Amd), Dir(<<"templates">>, Arm), File(ArmApp, Arm) >>)
Service == Packed(<<"service">>, NoPath,
                  << Mounted(Image(Amd), Amd), Mounted(Images, None), File(RootFile, None) >>)
Plain   == Packed(<<"plain">>, NoPath, << Dir(<<"templates">>, None), File(RootFile, None) >>)
Bundle  == Packed(None, NoPath, << Mounted(Plain, None), Mounted(Service, None),
                                   Mounted(Flat, None), File(AmdApp, None) >>)
Upward  == Packed(<<"upward">>, NoPath, << File(RootFile, None), Dir(<<"..", "shared">>, None) >>)
Configs == Packed(<<"configs">>, NoPath,
                  << [File(AmdApp, Amd) EXCEPT !.config = RootFile], File(ArmApp, Arm),
                     [Dir(<<"templates">>, None) EXCEPT !.config = RootFile] >>)
Hollow  == Packed(<<"hollow">>, NoPath, << Dir(<<"empty">>, None) >>)
Twins   == Packed(<<"twins">>, NoPath, << File(AmdApp, Amd), File(ArmTwin, Arm) >>)

MCArtifacts   == {Flat, Split, Plain, Service, Configs, Bundle, Upward}
HollowArtifacts == {Hollow}
TwinArtifacts == MCArtifacts \cup {Twins}
MCHistory     == ("app" :> << Flat, Split >>) @@ ("pack" :> << Split, Bundle >>)

Ask(tag, platform, title) == Question("GET", tag, platform, title)
MCQuestions == {Ask("app", None, <<"app">>), Ask("pack", Amd, <<"app">>), Ask("pack", None, <<"app">>),
                Ask("pack", Arm, <<"app">>), Ask("pack", None, RootFile), Ask("app", Arm, Nested),
                Ask("app", None, NoPath), Question("PUT", "app", None, <<"app">>)}

(* References: a host, a path or nothing; a name; a tag, a digest, both,   *)
(* or something that only looks like one.                                  *)
Heads == {<< >>, <<"reg.io", "/">>, <<"localhost", "/">>, <<"localhost", ":", "5000", "/">>,
          <<"repo", "/">>, <<"repo", ":", "v1", "/">>, <<".", "/">>, <<"/">>, <<"~", "/">>,
          <<"localhost", ":", "5000">>}
Names == {<< >>, <<"repo">>, <<"reg.io">>, <<"localhost">>, <<"repo", "/", "5000">>,
          <<"repo", "/">>, <<"repo", ":", "repo">>}
Tails == {<< >>, <<":", "v1">>, <<":", "5000">>, <<":">>, <<"@", "v1">>, <<"@">> \o Digest,
          <<":", "v1", "@">> \o Digest, <<":">> \o Digest, <<":", "v1", ":", "a">>,
          <<":", "v1", "/", "a">>, <<":">> \o Digest \o <<":", "a">>, <<"/">>, <<"/", "/">>}
MCTexts == {h \o n \o t : h \in Heads, n \in Names, t \in Tails}
MCFilePaths == {<<"a">>, <<"a", "/", "b">>, <<"a", ":", "b">>, <<"..", "/", "a">>, << >>,
                <<"a", "/", "..">>, <<"/", "a">>, <<".", "/", "a">>,
                <<"b", ":", "a", "/", "..", "/", "c">>, <<"a", "/", "/", "b">>}
=============================================================================
