----------------------------- MODULE MCChatView -----------------------------
(***************************************************************************)
(* Two conversations, opened one after the other, and two texts.           *)
(***************************************************************************)
EXTENDS ChatView

CONSTANTS p1, p2, q1, q2

TwoConvos == {1, 2}
TwoTexts == {"hi", "bye"}
OneText == {"hi"}
TwoPolls == {p1, p2}
TwoPosts == {q1, q2}
OnePost == {q1}
=============================================================================
