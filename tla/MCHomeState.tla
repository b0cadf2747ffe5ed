---------------------------- MODULE MCHomeState -----------------------------
(* Two files whose names have the same clean form, a directory with an       *)
(* invalid name and a file with an invalid name in it, and an object the     *)
(* user may create.                                                          *)
EXTENDS HomeState

MCObjects == {"d", "f", "x", "y", "z"}
MCDirs == {"d", Root}
MCNames == <<"a'", "a:", "a_", "a_1", "a_2", "a_2_1", "d:", "d_", "d_1", "q'", "q_", "q_1">>
MCCandidates == [n \in {"a'", "a:", "d:", "q'"} |->
    CASE n = "a'" -> <<"a_", "a_1">>
      [] n = "a:" -> <<"a_", "a_2", "a_2_1">>
      [] n = "d:" -> <<"d_", "d_1">>
      [] n = "q'" -> <<"q_", "q_1">>]
MCTree == [o \in MCObjects |->
    CASE o = "d" -> <<Root, "d:">>
      [] o = "f" -> <<"d", "q'">>
      [] o = "x" -> <<Root, "a:">>
      [] o = "y" -> <<Root, "a'">>
      [] o = "z" -> Nowhere]
MCEarlier == <<[from |-> <<"d:">>, to |-> <<"d_">>, restored |-> FALSE]>>
=============================================================================
