-------------------------------- MODULE Bots --------------------------------
(***************************************************************************)
(* Bob and Joe: what they answer to a message, and which messages they do  *)
(* not survive.  A message is the words between its blanks, a word a stem  *)
(* followed by punctuation marks; of two adjacent blanks, or a message of  *)
(* blanks only, an empty word is left.  What a bot may answer is a set:    *)
(* Bob draws among four answers, and of a call that raises it is empty.    *)
(* The answers' wording is left out but for the words they repeat.         *)
(***************************************************************************)
EXTENDS Integers, Sequences, SequencesExt

CONSTANTS
  Words,      \* the words users type
  IntOf,      \* the integer each numeral stands for
  Half,       \* OCaml's integers are -Half .. Half - 1; Half is 2^62
  MaxWords    \* bound: the words of a message

Marks == {".", "!", "?", ","}
Word == [stem : STRING, capital : BOOLEAN, marks : Seq(Marks)]

ASSUME WordAssumption == Words \subseteq Word
ASSUME HalfAssumption == Half \in Nat \ {0} /\ MaxWords \in Nat

VARIABLE msg    \* the words typed so far

Init == msg = << >>
Type(w) == Len(msg) < MaxWords /\ msg' = Append(msg, w)
Next == \E w \in Words : Type(w)
Spec == Init /\ [][Next]_msg
-----------------------------------------------------------------------------
Blank(w) == w.stem = "" /\ w.marks = << >>
Is(w, stem) == w.stem = stem /\ w.marks = << >>

\* In lower case, without the empty words
strlist(s) ==
  LET filter[n \in 0 .. Len(s)] ==
        IF n = 0 THEN << >>
        ELSE IF Blank(s[n]) THEN filter[n - 1]
        ELSE Append(filter[n - 1], [s[n] EXCEPT !.capital = FALSE])
  IN  filter[Len(s)]

\* The first word that ends a sentence tells the message's punctuation.
first_punc(l) ==
  LET n == SelectInSeq(l, LAMBDA w : w.marks # << >>
                                       /\ Last(w.marks) \in {".", "!", "?"})
  IN  IF n = 0 THEN "none" ELSE Last(l[n].marks)

\* Mutant of remove_punc: all of the marks go.
remove_puncs(w) == [w EXCEPT !.marks = << >>]

\* One mark at the most is removed.
remove_punc(w) == [w EXCEPT !.marks = IF @ = << >> THEN @ ELSE Front(@)]

\* A capital letter is a letter of its own until strlist has run.
Stem(w) == IF w.marks = << >> /\ ~w.capital THEN w.stem ELSE "none"

key_word(l) ==
  LET n == SelectInSeq(l, LAMBDA w : Stem(remove_punc(w)) \in {"joke", "you", "im"})
  IN  IF n = 0 THEN "none" ELSE l[n].stem

first_word(l) ==
  CASE Stem(remove_punc(Head(l))) \in {"does", "are", "is", "was", "have", "do",
                                       "did", "can", "should", "may"} -> "verb"
    [] Stem(remove_punc(Head(l))) \in {"who", "what", "when", "where", "why",
                                       "how", "which", "what's", "how's",
                                       "when's", "who's"} -> "wh"
    [] OTHER -> "other"

\* The number of words up to the first "im"; 0 if there is none
im(l) == SelectInSeq(l, LAMBDA w : Stem(w) = "im")

\* Mutant of rec_strlist: the "im" itself is kept.
rec_strlist_from(l) == {SubSeq(l, im(l), Len(l)) : n \in {im(l)} \ {0}}

\* The words after the first "im"; without one it raises.
rec_strlist(l) == {SubSeq(l, im(l) + 1, Len(l)) : n \in {im(l)} \ {0}}
-----------------------------------------------------------------------------
\* The order of bob_bot_response's patterns
Patterns(punc, key, first) ==
  <<<<key = "im", "greeting">>,
    <<punc = "?" /\ first = "verb", "yes or no">>,
    <<punc = "none" /\ key = "you" /\ first = "verb", "yes or no">>,
    <<first = "wh", "wh">>,
    <<key = "joke", "joke">>,
    <<punc = "!", "excitement">>,
    <<punc = ".", "boredom">>,
    <<TRUE, "umm">>>>

Topic(l) ==
  LET patterns == Patterns(first_punc(l), key_word(l), first_word(l))
  IN  patterns[SelectInSeq(patterns, LAMBDA p : p[1])][2]

\* rand_of_var: 4 asks for a random number.
rand_of_var(v) == IF v = 4 THEN 0 .. 3 ELSE {v}

\* List.hd of a message without words raises, and so does rec_strlist.
bob_bot_response(s, v) ==
  LET l == strlist(s) IN
  {[topic |-> Topic(l), pick |-> 0, rest |-> rest] :
     rest \in IF l # << >> /\ Topic(l) = "greeting" THEN rec_strlist(l) ELSE {}}
  \cup
  {[topic |-> Topic(l), pick |-> IF Topic(l) = "umm" THEN 0
                                 ELSE IF i \in 0 .. 2 THEN i ELSE 3,
    rest |-> << >>] :
     i \in IF l # << >> /\ Topic(l) # "greeting" THEN rand_of_var(v) ELSE {}}
-----------------------------------------------------------------------------
\* Mutant of joe_key_words: the last word that matches is taken.
joe_last_word(l) ==
  LET n == SelectLastInSeq(l, LAMBDA w : Stem(w) \in {"im", "joe", ":("})
  IN  IF n = 0 THEN "none" ELSE l[n].stem

joe_key_words(l) ==
  LET n == SelectInSeq(l, LAMBDA w : Stem(w) \in {"im", "joe", ":("})
  IN  IF n = 0 THEN "none" ELSE l[n].stem

is_math_mode(l) == Stem(Head(l)) = "mathmode"

\* Mutant of Wrap: integers have no end.
WrapNever(n) == n

\* What is left of n in an OCaml integer
Wrap(n) == ((n + Half) % (2 * Half)) - Half

\* int_of_string: the number read, none if it raises
int_of_string(w) ==
  {IntOf[w.stem] : stem \in {Stem(w)} \cap DOMAIN IntOf} \cap (-Half .. Half - 1)

Abs(n) == IF n < 0 THEN -n ELSE n

\* OCaml's division drops the fraction.
Quotient(a, b) ==
  IF (a < 0) = (b < 0) THEN Abs(a) \div Abs(b) ELSE -(Abs(a) \div Abs(b))

\* The results of one of math_eval's operations, none if it raises
Calculate(word, a, b) ==
  CASE word \in {"multiply", "mult", "times"} -> {Wrap(a * b)}
    [] word \in {"add", "addition", "plus"} -> {Wrap(a + b)}
    [] word \in {"divide", "div"} -> {Wrap(Quotient(a, d)) : d \in {b} \ {0}}
    [] word \in {"subtract", "sub"} -> {Wrap(a - b)}
    [] OTHER -> {}

\* The number Joe answers, none if he answers "invalid"
math_eval(l) ==
  IF Len(l) # 3 THEN {}
  ELSE UNION {UNION {Calculate(Stem(l[1]), a, b) : b \in int_of_string(l[3])} :
                a \in int_of_string(l[2])}

\* [speaks |-> FALSE] is the answer (false, "").
joe_bot_response(s) ==
  LET l == strlist(s)
      answer(topic, rest, number) ==
        [speaks |-> topic # "none", topic |-> topic, rest |-> rest, number |-> number]
  IN
  IF l = << >> THEN {}
  ELSE IF is_math_mode(l) THEN {answer("math", << >>, math_eval(Tail(l)))}
  ELSE IF joe_key_words(l) = "im" THEN {answer("im", rest, {}) : rest \in rec_strlist(l)}
  ELSE {answer(joe_key_words(l), << >>, {})}
-----------------------------------------------------------------------------
WordsOf(s) == {i \in DOMAIN s : ~Blank(s[i])}
Exactly(w, stem) == Is(w, stem)
Almost(w, stem) == w.stem = stem /\ Len(w.marks) <= 1

\* The bots raise, so that /postMessage answers 500 with the message already
\* stored, on two kinds of messages and on no other: on a blank one, for want
\* of a first word, and Bob alone on one whose first "im", "you" or "joke" is
\* an "im" with a mark, if nowhere else there is an "im" without one.
BotsBreakOn ==
  LET blank == WordsOf(msg) = {}
      key(i) == \E stem \in {"im", "you", "joke"} : Almost(msg[i], stem)
      deceived ==
        /\ \E i \in WordsOf(msg) : /\ Almost(msg[i], "im")
                                   /\ \A j \in 1 .. i - 1 : ~key(j)
        /\ \A i \in WordsOf(msg) : ~Exactly(msg[i], "im")
  IN  /\ bob_bot_response(msg, 4) = {} <=> blank \/ deceived
      /\ joe_bot_response(msg) = {} <=> blank

\* Whoever is greeted is greeted by everything after the first "im" without a
\* mark, by both bots alike, though Bob finds the word by another function
\* (key_word) than the one that cuts the message there (rec_strlist).
GreetingIsRest ==
  \A answer \in bob_bot_response(msg, 4) \cup joe_bot_response(msg) :
    answer.topic \in {"greeting", "im"} =>
      \E i \in WordsOf(msg) :
        /\ Exactly(msg[i], "im")
        /\ \A j \in 1 .. i - 1 : ~Exactly(msg[j], "im")
        /\ [k \in DOMAIN answer.rest |-> <<answer.rest[k].stem, answer.rest[k].marks>>]
             = [k \in 1 .. Cardinality({j \in WordsOf(msg) : j > i}) |->
                  LET j == CHOOSE j \in WordsOf(msg) :
                             /\ j > i
                             /\ Cardinality({m \in WordsOf(msg) : m > i /\ m <= j}) = k
                  IN  <<msg[j].stem, msg[j].marks>>]

\* Joe's sums are right whenever the right result is an integer of OCaml's;
\* otherwise his result is one, and right but for a multiple of their number.
\* He answers "invalid" exactly when there are not two numbers he can read, he
\* does not know the operation, or the divisor is zero; math_eval never fails.
JoeReckons ==
  \A answer \in joe_bot_response(msg) :
    LET l == strlist(msg)
        ints == -Half .. Half - 1
        readable(w) == Stem(w) \in DOMAIN IntOf /\ IntOf[w.stem] \in ints
        sound == Len(l) = 4 /\ readable(l[3]) /\ readable(l[4])
        a == IntOf[l[3].stem]
        b == IntOf[l[4].stem]
        op == Stem(l[2])
        plus == op \in {"add", "addition", "plus"}
        minus == op \in {"subtract", "sub"}
        times == op \in {"multiply", "mult", "times"}
        over == op \in {"divide", "div"}
        right(n, true) == n \in ints /\ (n - true) % (2 * Half) = 0
        idle == ~sound \/ ~(plus \/ minus \/ times \/ over) \/ (over /\ b = 0)
    IN  answer.topic = "math" =>
          /\ idle <=> answer.number = {}
          /\ ~idle => Cardinality(answer.number) = 1
          /\ \A n \in answer.number :
               /\ plus => right(n, a + b)
               /\ minus => right(n, a - b)
               /\ times => right(n, a * b)
               /\ over => \E q \in ints \cup {Half} :
                    /\ right(n, q)
                    /\ Abs(a - q * b) < Abs(b) /\ (a - q * b) * a >= 0

\* What Joe has decided to speak about stays his subject whatever is typed
\* after it: his scan takes the first word that matches.
JoeStandsBy ==
  [][\A answer \in joe_bot_response(msg) :
       answer.speaks => \A later \in joe_bot_response(msg') :
                          later.topic = answer.topic]_msg
=============================================================================
