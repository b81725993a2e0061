----------------------------- MODULE MCChatTurn -----------------------------
(***************************************************************************)
(* A turn of a user with some history beside a streamed one or a scoring    *)
(* cycle, and then a channel message or a clear.                            *)
(***************************************************************************)
EXTENDS ChatTurn, TLC

CONSTANTS past, send, stream, other

MCKinds == [t \in Turns |-> CASE t = past -> {"past"} [] t = send -> {"send"}
                              [] t = stream -> {"stream", "cycle"}
                              [] OTHER -> {"clear", "inbound"}]
MCUser == [t \in Turns |-> "ann"]
MCAnswers == {<<"load">>, <<"delegate">>}
=============================================================================
