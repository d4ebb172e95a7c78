--------------------------- MODULE MCConversation ---------------------------
(***************************************************************************)
(* TLC instance of ConversationService.                                     *)
(***************************************************************************)
EXTENDS ConversationService, TLC

CONSTANTS s1, s2, task1, task2

Ongoing(n) == [seq |-> n, event |-> "SESSION_ONGOING"]
Complete(n) == [seq |-> n, event |-> "SESSION_COMPLETE"]

\* Two transcripts, and a transcript with the end of the call.
TwoTranscripts == {Ongoing(0), Ongoing(1)}
ShortCall == {Ongoing(0), Complete(1)}

TwoTasks == s1 :> task1 @@ s2 :> task2
=============================================================================
