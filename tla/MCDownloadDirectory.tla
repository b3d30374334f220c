------------------------ MODULE MCDownloadDirectory ------------------------
(* doc by v1, the same by v2, ..\doc (1)\doc. by v2, whose directory is a   *)
(* name the others may try, and C:\state. by v1, which is the reserved name *)
(* once it is clean.                                                        *)
EXTENDS DownloadDirectory

Paths_ == [a |-> <<>>, b |-> <<>>, d |-> <<"..", "doc (1)", "doc.">>, e |-> <<"C:", "state.">>]
Names_ == [a |-> "doc", b |-> "...", d |-> "doc", e |-> "doc"]
Ids_   == [a |-> "id", b |-> "doc.", d |-> "id", e |-> "id"]
Data_  == [a |-> <<1>>, b |-> <<1>>, d |-> <<>>, e |-> <<2>>]
Clean_ == [x \in {"doc", "doc.", "doc (1)", "...", "id", "state."} |->
             CASE x = "doc (1)" -> <<"doc", 1>>
               [] x = "state."  -> <<"state">>
               [] x = "id"      -> <<"id">>
               [] x = "..."     -> <<>>
               [] OTHER         -> <<"doc">>]
Cleaned_  == {<<"doc">>, <<"doc", 1>>, <<"state">>, <<"id">>, <<"file">>}
NoName_   == <<>>
NoPath_   == <<>>
Fallback_ == <<"file">>
Reserved_ == {<<"state">>}
Foreign_  == {<<1>>, <<2>>}
=============================================================================
