------------------------------- MODULE MCBots -------------------------------
(***************************************************************************)
(* Every message of up to four words from a vocabulary with each kind of   *)
(* word the bots know, in integers of four bits.                           *)
(***************************************************************************)
EXTENDS Bots

Typed(stem, capital, marks) == [stem |-> stem, capital |-> capital, marks |-> marks]
Plain(stem) == Typed(stem, FALSE, << >>)

Vocabulary ==
  {Plain(stem) : stem \in {"", "im", "you", "joke", "is", "who", "joe", ":(", "happy",
                           "mathmode", "add", "mult", "sub", "div",
                           "0", "3", "-1", "7", "-8", "8"}}
  \cup {Typed("im", FALSE, <<".">>), Typed("im", TRUE, << >>),
        Typed("im", FALSE, <<".", ".">>), Typed("", FALSE, <<"!">>),
        Typed("you", FALSE, <<"?">>), Typed("3", FALSE, <<",">>)}

Numerals == [s \in {"0", "3", "-1", "7", "-8", "8"} |->
               CASE s = "0" -> 0 [] s = "3" -> 3 [] s = "-1" -> -1
                 [] s = "7" -> 7 [] s = "-8" -> -8 [] s = "8" -> 8]

\* The cases of test/main.ml that these words can express
Topics(answers) == {answer.topic : answer \in answers}
ASSUME TestSuite ==
  LET bob(s) == bob_bot_response(s, 4)
      joe(s) == joe_bot_response(s)
      math(op, a, b) == UNION {answer.number : answer \in
                          joe(<<Plain("mathmode"), Plain(op), Plain(a), Plain(b)>>)}
  IN
  /\ Topics(bob(<<Plain("do"), Plain("you"), Plain("know")>>)) = {"yes or no"}
  /\ Topics(bob(<<Plain("does"), Plain("it"), Typed("work", FALSE, <<"?">>)>>)) = {"yes or no"}
  /\ bob(<<Plain("do"), Plain("the"), Plain("problem")>>)
       = {[topic |-> "umm", pick |-> 0, rest |-> << >>]}
  /\ Topics(bob(<<Plain("who"), Plain("are"), Plain("you")>>)) = {"wh"}
  /\ Topics(bob(<<Typed("what", FALSE, <<"?">>)>>)) = {"wh"}
  /\ Topics(bob(<<Plain("so"), Typed("exciting", FALSE, <<"!">>)>>)) = {"excitement"}
  /\ Topics(bob(<<Plain("is"), Typed("boring", FALSE, <<".">>)>>)) = {"boredom"}
  /\ bob_bot_response(<<Plain("a"), Typed("joke", FALSE, <<"!">>)>>, 1)
       = {[topic |-> "joke", pick |-> 1, rest |-> << >>]}
  /\ Topics(bob(<<Plain("today"), Plain("im"), Plain("happy")>>)) = {"greeting"}
  /\ Topics(joe(<<Plain("is"), Plain("joe"), Typed("here", FALSE, <<"?">>)>>)) = {"joe"}
  /\ Topics(joe(<<Plain(":(")>>)) = {":("}
  /\ Topics(joe(<<Plain("plus"), Plain("1")>>)) = {"none"}
  /\ math("add", "3", "-1") = {2} /\ math("multiply", "3", "-1") = {-3}
  /\ math("divide", "7", "3") = {2} /\ math("subtract", "0", "7") = {-7}
  /\ math("divide", "8", "0") = {} /\ math("blargh", "3", "3") = {}
=============================================================================
