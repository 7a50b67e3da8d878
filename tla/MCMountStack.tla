---------------------------- MODULE MCMountStack ----------------------------
(***************************************************************************)
(* Images for MountStack: of one layer, with links that stay within the tree  *)
(* and links that leave it, above a volatile path and above a bind, without *)
(* a directory for one of them, and with more layers than fit.             *)
(***************************************************************************)
EXTENDS MountStack, TLC

Tmp == <<"tmp">>
VarTmp == <<"var", "tmp">>
In(p) == Dst \o p

Image(layers, dirs, links) == [layers |-> layers, dirs |-> dirs, links |-> links]
NoLinks == [p \in {} |-> p]

Small   == Image(<<{"sh"}>>, {Dst, In(Tmp), In(VarTmp)}, NoLinks)
Linked  == Image(<<{"sh", "rc"}, {"sh"}>>, {Dst, In(Tmp), In(<<"data">>)},
                 (In(VarTmp) :> In(Tmp)) @@ (In(<<"in">>) :> In(Tmp)))
Escaped == Image(<<{"sh"}, {"rc"}>>, {Dst, In(Tmp)}, In(<<"var">>) :> <<"host">>)
Sparse  == Image(<<{"sh"}, {"rc"}>>, {Dst, In(Tmp)}, NoLinks)
Deep    == Image(<<{"sh"}, {"rc"}, {"a"}, {"b"}>>, {Dst}, NoLinks)
Strange == Image(<<{"sh"}, {"sh"}>>, {Dst, In(Tmp), In(VarTmp)}, In(<<"in">>) :> <<"host">>)

MCImages   == {Small, Linked, Escaped, Sparse, Deep, Strange}
MCVolatile == <<Tmp, VarTmp>>
MCBinds    == <<<<"in", "data">>>>
=============================================================================
