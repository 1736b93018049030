---------------------------- MODULE MCAssistant ----------------------------
EXTENDS Assistant

Says(s) == [k \in 1..Len(s) |-> [is |-> s[k], thought |-> FALSE]]
\* The same, with a draft considered and dropped while thinking.
Thinks(s, t) == <<[is |-> "think", thought |-> TRUE]>> \o [k \in 1..Len(s) |-> [is |-> s[k], thought |-> TRUE]]
                \o <<[is |-> "unthink", thought |-> TRUE]>> \o Says(t)
\* It stops while it is still thinking.
Ponders(s) == LET all == Thinks(s, << >>) IN SubSeq(all, 1, Len(all) - 1)

Object == <<"lbrace", "rbrace">>
Yue2 == <<"STYLE", "LYRICS", "COT", "NOTES">>
Caption == <<"Global_Metadata", "Vocal_Details", "Arrangement">>

MCReplies == [
  draft |-> [
    minimax |-> {Says(Object), Says(<<"prose", "fence">> \o Object \o <<"fence">>), Says(<<"fence">> \o Object),
                 Says(<<"fence", "bare", "rbrace", "fence", "fence">> \o Object \o <<"fence", "prose">>),
                 Thinks(Object, <<"prose">> \o Object), Thinks(<<"fence">> \o Object, Object),
                 Ponders(Object)},
    yue2 |-> {Says(Yue2), Says(<<"fence">> \o Yue2 \o <<"fence">>), Says(<<"STYLE", "COT">>), Thinks(Yue2, Yue2), Ponders(Yue2)}],
  style |-> [
    minimax |-> {Says(<<"prose">> \o Caption), Thinks(Caption, <<"fence">> \o Caption \o <<"fence">>)},
    yue2 |-> {Says(<<"line">>), Says(<<"fence", "line", "fence", "prose">>), Thinks(<<"line">>, <<"line">>)}]]
AllProfiles == {<<"draft", "minimax">>, <<"draft", "yue2">>, <<"style", "minimax">>, <<"style", "yue2">>}
\* One engine may lack its style editor.
MCDeployments == {AllProfiles, AllProfiles \ {<<"style", "yue2">>}}
=============================================================================
