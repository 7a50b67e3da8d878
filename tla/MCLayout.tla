------------------------------ MODULE MCLayout ------------------------------
(***************************************************************************)
(* Small layouts and scripts of commands for LayoutCommands: two images    *)
(* that share a base layer, an index over both, a referrer with a subject, *)
(* and the commands that meet on them.                                     *)
(***************************************************************************)
EXTENDS LayoutCommands, TLC

CopyOf(tag, d, m) == [op |-> "copy",   tag |-> tag, digest |-> d, mode |-> m]
DeleteOf(tag)     == [op |-> "delete", tag |-> tag, digest |-> "m1", mode |-> "tar"]
MountOf(tag)      == [op |-> "mount",  tag |-> tag, digest |-> "m1", mode |-> "tar"]
Entry(tag, d)     == [tag |-> tag, digest |-> d]

MCDigests    == {"idx", "m1", "m2", "c1", "c2", "base", "top"}
MCLayers     == {"base", "top"}
MCManifests  == {"m1", "m2"}
MCReferences == [d \in MCDigests |-> CASE d = "idx" -> {"m1", "m2"}
                                       [] d = "m1"  -> {"c1", "base"}
                                       [] d = "m2"  -> {"c2", "base", "top"}
                                       [] OTHER     -> {}]
NoSubject    == [d \in MCDigests |-> {}]
M1IsSubject  == [d \in MCDigests |-> IF d = "m2" THEN {"m1"} ELSE {}]

NoOrder(procs) == [p \in procs |-> {}]

TarSeed    == [mode |-> "tar",    entries |-> << Entry("v1", "m1") >>]
UnpackSeed == [mode |-> "unpack", entries |-> << Entry("v1", "m1") >>]
PairSeed   == [mode |-> "tar", entries |-> << Entry("v1", "m1"), Entry("v2", "m2") >>]

(* Two copies and a delete meet on a layout that has one image.            *)
MeetProcs   == {"copy2", "again1", "delete1"}
MeetCommand == ("copy2"   :> CopyOf("v2", "m2", "tar")) @@
               ("again1"  :> CopyOf("v1", "m1", "tar")) @@
               ("delete1" :> DeleteOf("v1"))
MeetOrder   == NoOrder(MeetProcs)

(* One copy makes a layout; its image is mounted, another arrives, and     *)
(* both are deleted, the mounted one only once its mount is up or over.    *)
MakeProcs   == {"make", "mount1", "copy2", "delete1", "delete2"}
MakeCommand == ("make"    :> CopyOf("v1", "idx", "unpack")) @@
               ("mount1"  :> MountOf("v1")) @@
               ("copy2"   :> CopyOf("v2", "m2", "tar")) @@
               ("delete1" :> DeleteOf("v1")) @@
               ("delete2" :> DeleteOf("v2"))
MakeOrder   == [p \in MakeProcs |-> CASE p = "make"    -> {}
                                     [] p = "delete1" -> {"mount1"}
                                     [] OTHER         -> {"make"}]

(* A copy is killed and run again.                                         *)
RerunProcs   == {"first", "rerun"}
RerunCommand == [p \in RerunProcs |-> CopyOf("v1", "m1", "unpack")]
RerunOrder   == [p \in RerunProcs |-> IF p = "rerun" THEN {"first"} ELSE {}]

(* An image is deleted, then another that shares its base is copied.       *)
ReuseProcs   == {"delete1", "copy2"}
ReuseCommand == ("delete1" :> DeleteOf("v1")) @@ ("copy2" :> CopyOf("v2", "m2", "unpack"))
ReuseOrder   == [p \in ReuseProcs |-> IF p = "copy2" THEN {"delete1"} ELSE {}]

(* Two copies find no layout, and ask for one mode or for two.             *)
FreshProcs   == {"copy1", "copy2"}
FreshCommand == ("copy1" :> CopyOf("v1", "m1", "tar")) @@ ("copy2" :> CopyOf("v2", "m2", "tar"))
MixedCommand == ("copy1" :> CopyOf("v1", "m1", "unpack")) @@ ("copy2" :> CopyOf("v2", "m2", "tar"))
FreshOrder   == NoOrder(FreshProcs)

(* One manifest under two tags, and two manifests under one.               *)
TwiceProcs   == {"second"}
TwiceCommand == [p \in TwiceProcs |-> CopyOf("v2", "m1", "tar")]
MovedCommand == [p \in TwiceProcs |-> CopyOf("v1", "m2", "tar")]
TwiceOrder   == NoOrder(TwiceProcs)

(* The subject of a referrer is deleted.                                   *)
SubjectProcs   == {"delete1"}
SubjectCommand == [p \in SubjectProcs |-> DeleteOf("v1")]
SubjectOrder   == NoOrder(SubjectProcs)
=============================================================================
