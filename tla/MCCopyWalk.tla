----------------------------- MODULE MCCopyWalk -----------------------------
(***************************************************************************)
(* Small images for CopyWalk: a multi-platform index whose manifests share *)
(* a config and a layer, and one with a repeated layer, a subject and an   *)
(* answer that leads back to the index.                                    *)
(***************************************************************************)
EXTENDS CopyWalk

(* index -> two manifests -> the same config and layer, in two orders.     *)
SharedDigests  == {"index", "amd", "arm", "config", "layer"}
SharedChildren == [d \in SharedDigests |->
                     CASE d = "index" -> <<"amd", "arm">>
                       [] d = "amd"   -> <<"config", "layer">>
                       [] d = "arm"   -> <<"layer", "config">>
                       [] OTHER       -> << >>]
SharedBlobs    == {"config", "layer"}

(* An index of a referrer, which lists one layer twice and has a subject   *)
(* that shares it, and of a digest the source lies about: what it answers  *)
(* leads back to the index.                                                *)
LoopDigests  == {"index", "referrer", "subject", "liar", "config", "layer"}
LoopChildren == [d \in LoopDigests |->
                   CASE d = "index"    -> <<"referrer", "liar">>
                     [] d = "referrer" -> <<"config", "layer", "layer", "subject">>
                     [] d = "subject"  -> <<"config", "layer">>
                     [] d = "liar"     -> <<"config", "index">>
                     [] OTHER          -> << >>]
LoopBlobs    == {"config", "layer"}
LoopHonest   == LoopDigests \ {"liar"}
=============================================================================
