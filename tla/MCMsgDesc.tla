----------------------------- MODULE MCMsgDesc -----------------------------
(***************************************************************************)
(* Instances of MsgDesc.                                                   *)
(***************************************************************************)
EXTENDS MsgDesc

(* names none of which begins another *)
MCApart == {<<1>>, <<2, 1>>, <<2, 2>>}

(* names of which one begins two others *)
MCNested == {<<1>>, <<1, 1>>, <<1, 2>>, <<2>>}

(* one name, and a family of names *)
MCPattern == {{<<1>>}, {<<2, 1>>, <<2, 2>>}}

MCBeyond == 99
=============================================================================
