---------------------------- MODULE TextFunctions ----------------------------
(***************************************************************************)
(* The functions on texts the game answers and hints with: how an answer   *)
(* typed by a player is compared with the one of the question, how number  *)
(* words are read, how numbers are hinted at, and how a text is escaped.   *)
(*                                                                         *)
(* A text is a sequence of characters, of which there is one of a kind; a  *)
(* word of a number, and "dollars", count as one character.  Texts have    *)
(* one line, and numbers stay below 2^31.                                  *)
(***************************************************************************)
EXTENDS Integers, Sequences, SequencesExt, FiniteSets

Blank == " "
Quote == "\""
Backslash == "\\"
Decimals == <<"0", "1", "2", "3", "4", "5", "6", "7", "8", "9">>
IsDigit(c) == \E i \in DOMAIN Decimals : Decimals[i] = c
Punctuation == {",", ".", "-", "'", "(", ")", Quote}

(* Lower case, and what it makes of a letter with an accent.                *)
LowerCase == [A |-> "a", B |-> "b"]
Unaccented == [aacute |-> "a"]

NumberWords == [one |-> 1, two |-> 2, three |-> 3, four |-> 4, five |-> 5, six |-> 6, seven |-> 7,
    eight |-> 8, nine |-> 9, ten |-> 10, eleven |-> 11, twelve |-> 12, thirteen |-> 13,
    fourteen |-> 14, fifteen |-> 15, sixteen |-> 16, seventeen |-> 17, eighteen |-> 18,
    nineteen |-> 19, twenty |-> 20, thirty |-> 30, fourty |-> 40, fifty |-> 50, sixty |-> 60,
    seventy |-> 70, eighty |-> 80, ninety |-> 90]
Multipliers == [hundred |-> 100, thousand |-> 1000, million |-> 1000000]

-----------------------------------------------------------------------------
(* stringops, wlower *)

Lower(c) == IF c \in DOMAIN LowerCase THEN LowerCase[c] ELSE c
lowercase(s) == [i \in DOMAIN s |-> Lower(s[i])]

utf8lower(s, spanish_hack) ==
    [i \in DOMAIN s |-> LET c == Lower(s[i])
                        IN  IF spanish_hack /\ c \in DOMAIN Unaccented THEN Unaccented[c] ELSE c]

removepunct(s) ==
    FlattenSeq([i \in DOMAIN s |-> IF s[i] \in Punctuation THEN <<>> ELSE <<s[i]>>])

(* In characters, not in bytes.                                             *)
wlength(s) == Len(s)
wfirst(s) == Head(s)
wlast(s) == Last(s)

(* Every order the letters may be brought into.                             *)
utf8shuffle(s) ==
    LET lower == utf8lower(s, FALSE)
    IN  {[i \in DOMAIN s |-> lower[p[i]]] : p \in Bijection(DOMAIN s, DOMAIN s)}

(* Characters that look like one of the letters of a text.  Those missing   *)
(* here, such as o, f, t and the digits, stay as they are; the capital      *)
(* vowels have several, of which all occurrences in a text get the same.    *)
SeveralLookAlikes == [A |-> 10, E |-> 10, O |-> 13]
HasLookAlike == {"-", "(", ")",
    "a", "b", "c", "d", "e", "g", "h", "i", "j", "k", "l", "m", "n", "p", "q", "r", "s", "u", "v",
    "w", "x", "y", "A", "B", "C", "D", "E", "F", "G", "H", "I", "J", "K", "L", "M", "N", "O", "P",
    "Q", "S", "T", "U", "V", "X", "Y", "Z"}
LookAlike(c, n) == c \o "~" \o ToString(n)
LookAlikeChoices(s) ==
    {choice \in [Range(s) -> 1..13] :
        \A c \in Range(s) : choice[c] <= IF c \in DOMAIN SeveralLookAlikes
                                          THEN SeveralLookAlikes[c] ELSE 1}
homoglyph(s) ==
    {[i \in DOMAIN s |-> IF s[i] \in HasLookAlike THEN LookAlike(s[i], choice[s[i]]) ELSE s[i]]
        : choice \in LookAlikeChoices(s)}

(* Whatever the case, from the left.                                        *)
ReplaceString(subject, search, replace) ==
    LET from[i \in 1..(Len(subject) + 1)] ==
            LET after == i + Len(search)
            IN  IF after > Len(subject) + 1 THEN SubSeq(subject, i, Len(subject))
                ELSE IF lowercase(SubSeq(subject, i, after - 1)) = lowercase(search)
                     THEN replace \o from[after]
                     ELSE <<subject[i]>> \o from[i + 1]
    IN  from[1]

(* How many characters of a kind the text starts with.                      *)
Leading(s, Kind(_)) == Max({n \in 0..Len(s) : \A i \in 1..n : Kind(s[i])})
IsBlank(c) == c = Blank

ltrim(s) == SubSeq(s, Leading(s, IsBlank) + 1, Len(s))
rtrim(s) == Reverse(ltrim(Reverse(s)))
trim(s) == ltrim(rtrim(s))

(* The words between blanks.                                                *)
Words(s) ==
    LET from[i \in 1..(Len(s) + 1)] ==
            LET t == ltrim(SubSeq(s, i, Len(s)))
                n == Leading(t, LAMBDA c : c # Blank)
            IN  IF t = <<>> THEN <<>>
                ELSE <<SubSeq(t, 1, n)>> \o from[Len(s) - Len(t) + n + 1]
    IN  from[1]

-----------------------------------------------------------------------------
(* numerics *)

(* The digits of a number in some system, and the number that digits are.   *)
InBase(n, b) ==
    LET digits[m \in Nat] == IF m < b THEN <<m>> ELSE digits[m \div b] \o <<m % b>>
    IN  digits[n]
ValueOf(digits, b) ==
    LET value[k \in 0..Len(digits)] == IF k = 0 THEN 0 ELSE value[k - 1] * b + digits[k]
    IN  value[Len(digits)]

to_string(n) == [i \in DOMAIN InBase(n, 10) |-> Decimals[InBase(n, 10)[i] + 1]]

(* Adds commas to a number.                                                 *)
Comma(n) ==
    LET s == to_string(n)
    IN  FlattenSeq([i \in DOMAIN s |->
            IF i > 1 /\ (Len(s) + 1 - i) % 3 = 0 THEN <<",", s[i]>> ELSE <<s[i]>>])

is_number(s) == s # <<>> /\ \A i \in DOMAIN s : IsDigit(s[i])

(* from_string: the number a text starts with, and 0 when there is none.    *)
DigitOf(c) == CHOOSE d \in 0..9 : Decimals[d + 1] = c
NumberOf(s) == ValueOf([i \in DOMAIN s |-> DigitOf(s[i])], 10)
from_string(s) == NumberOf(SubSeq(s, 1, Leading(s, IsDigit)))

IsAmount(s) == s # <<>> /\ s[1] = "$" /\ is_number(Tail(s))
InNumber(c) == IsDigit(c) \/ c = ","
NoCommas(s) == ReplaceString(s, <<",">>, <<>>)

(* The number a text starts with, and what it is a number of.               *)
Digits(s) == SubSeq(s, 1, Leading(s, InNumber))
Rest(s) == SubSeq(s, Leading(s, InNumber) + 1, Len(s))
HasUnit(s) == Digits(s) # <<>> /\ Len(Rest(s)) > 1 /\ Rest(s)[1] = Blank
Unit(s) == IF ltrim(Rest(s)) = <<>> THEN <<Blank>> ELSE ltrim(Rest(s))

number_tidy_dollars(s) == IF HasUnit(s) /\ Unit(s) = <<"dollars">> THEN <<"$">> \o NoCommas(Digits(s)) ELSE s
number_tidy_nodollars(s) == IF HasUnit(s) THEN NoCommas(Digits(s)) \o <<Blank>> \o Unit(s) ELSE s
TidySign(s) == IF Len(s) > 1 /\ s[1] = "$" THEN NoCommas(s) ELSE s
IsNumeral(s) == s # <<>> /\ \A i \in DOMAIN s : InNumber(s[i])
TidyNumeral(s) ==
    IF IsNumeral(s) \/ (Len(s) > 1 /\ s[1] = "-" /\ IsNumeral(Tail(s))) THEN NoCommas(s) ELSE s

tidy_num(num) == TidyNumeral(number_tidy_nodollars(TidySign(number_tidy_dollars(num))))

-----------------------------------------------------------------------------
(* conv_num: number words *)

Value(word) == IF Len(word) = 1 /\ word[1] \in DOMAIN NumberWords THEN NumberWords[word[1]] ELSE 0
IsMultiplier(word) == \E m \in DOMAIN Multipliers : Contains(word, m)
IsNumberWord(word) == Value(word) > 0 \/ IsMultiplier(word) \/ Contains(word, "dollars")
Multiplier(word) == Multipliers[CHOOSE m \in DOMAIN Multipliers : Contains(word, m)]

(* A word counts as many times as the word after it says.                   *)
Times(words, i) == IF i < Len(words) /\ IsMultiplier(words[i + 1]) THEN Multiplier(words[i + 1]) ELSE 1

InNumbers(words) ==
    LET initial == MapThenSumSet(LAMBDA i : Value(words[i]) * Times(words, i), DOMAIN words)
        currency == IF \E i \in DOMAIN words : Contains(words[i], "dollars") THEN <<"$">> ELSE <<>>
    IN  IF \A i \in DOMAIN words : IsNumberWord(words[i]) THEN currency \o to_string(initial) ELSE <<"0">>

conv_num(datain) ==
    IF datain = <<>> THEN <<"0">>
    ELSE InNumbers(Words(ReplaceString(ReplaceString(ReplaceString(datain,
             <<Blank, Blank>>, <<Blank>>), <<"-">>, <<>>), <<Blank, "and", Blank>>, <<Blank>>)))

-----------------------------------------------------------------------------
(* levenstein *)

WithoutReplace(x, y, z) == Min({x, y})                            \* mutant
min3(x, y, z) == Min({x, y, z})

(* The table of distances: a row holds those of a start of str1 from every  *)
(* start of str2.                                                           *)
NextRow(row, c, str2) ==
    LET next[j \in 0..Len(str2)] ==
            IF j = 0 THEN row[1] + 1
            ELSE IF c = str2[j] THEN row[j] ELSE 1 + min3(next[j - 1], row[j + 1], row[j])
    IN  <<row[1] + 1>> \o [j \in DOMAIN str2 |-> next[j]]

levenstein(s1, s2) ==
    LET str1 == utf8lower(s1, FALSE)
        str2 == utf8lower(s2, FALSE)
        dp[i \in 0..Len(str1)] ==
            IF i = 0 THEN [j \in 1..(Len(str2) + 1) |-> j - 1] ELSE NextRow(dp[i - 1], str1[i], str2)
    IN  dp[Len(str1)][Len(str2) + 1]

-----------------------------------------------------------------------------
(* Questions and answers *)

(* do_normal_round: the answer of the question, with its number.            *)
Asked(text) ==
    LET t == conv_num(trim(text))
    IN  tidy_num(IF is_number(t) /\ t # <<"0">> THEN t ELSE trim(text))

(* handle_message: what is compared.                                        *)
GivenUntidied(msg) == IF from_string(conv_num(msg)) > 0 THEN conv_num(msg) ELSE removepunct(msg)  \* mutant

Given(msg) == tidy_num(IF from_string(conv_num(msg)) > 0 THEN conv_num(msg) ELSE removepunct(msg))

(* Lengths are those of UTF-8, where a letter with an accent has two bytes. *)
length(s) == Len(s) + Cardinality({i \in DOMAIN s : s[i] \in DOMAIN Unaccented})

IsMatch(answer, trivia_message, spanish) ==
    LET same == utf8lower(answer, spanish) = utf8lower(trivia_message, spanish)
        long == length(trivia_message) >= length(answer)
    IN  /\ answer # <<>>
        /\ \/ long /\ same
           \/ /\ ~IsAmount(answer) /\ ~is_number(answer) /\ length(answer) > 5
              /\ same \/ (long /\ levenstein(trivia_message, answer) < 2)
Accepts(question, msg, spanish) == IsMatch(removepunct(question), Given(msg), spanish)

-----------------------------------------------------------------------------
(* Hints *)

IsVowel(c) == Lower(c) \in {"a", "aacute"}

(* How many letters, the first and the last; how many letters and vowels.   *)
letterlong(text) ==
    LET t == ReplaceString(text, <<Blank>>, <<>>)
    IN  IF t = <<>> THEN <<>> ELSE <<wlength(t), wfirst(t), wlast(t)>>
CountIf(s, Kind(_)) == Cardinality({i \in DOMAIN s : Kind(s[i])})
countvowel(s) == <<CountIf(s, IsVowel), CountIf(s, LAMBDA c : c # Blank)>>
vowelcount(text) == LET counts == countvowel(text) IN <<counts[2], counts[1]>>

(* A word from its first vowel on, what stood before it, and "ay".          *)
piglatinword(s) ==
    LET n == Leading(s, LAMBDA c : ~IsVowel(c))
    IN  IF n = Len(s) THEN s ELSE SubSeq(s, n + 1, Len(s)) \o SubSeq(s, 1, n) \o <<"a", "y">>
piglatin(s) ==
    lowercase(FlattenSeq([i \in DOMAIN Words(s) |-> piglatinword(Words(s)[i]) \o <<Blank>>]))

Romans == << <<1000, "M">>, <<900, "CM">>, <<500, "D">>, <<400, "CD">>, <<100, "C">>, <<90, "XC">>,
             <<50, "L">>, <<40, "XL">>, <<10, "X">>, <<9, "IX">>, <<5, "V">>, <<4, "IV">>, <<1, "I">> >>

(* The largest of them that a number is not below.                          *)
LargestRoman(n) == CHOOSE i \in DOMAIN Romans : /\ n >= Romans[i][1]
                                               /\ \A j \in 1..(i - 1) : n < Romans[j][1]
dec_to_roman(decimal) ==
    LET roman[n \in Nat] ==
            IF n = 0 THEN <<>>
            ELSE <<Romans[LargestRoman(n)][2]>> \o roman[n - Romans[LargestRoman(n)][1]]
    IN  roman[decimal]

GetNearestBelow(number, numstrs) ==                               \* mutant
    IF {v \in numstrs : v < number} = {} THEN 0 ELSE Max({v \in numstrs : v < number})
GetNearestNumberVal(number, numstrs) ==
    IF {v \in numstrs : v <= number} = {} THEN 0 ELSE Max({v \in numstrs : v <= number})

numbertoname(number, numstrs) == [value |-> number, inWords |-> number \in numstrs]
GetNearestNumber(number, numstrs) ==
    LET v == GetNearestNumberVal(number, numstrs)
    IN  IF v = 0 THEN [value |-> 0, inWords |-> FALSE] ELSE numbertoname(v, numstrs)

(* Numbers that have names, with a plus after each, of which the last is    *)
(* taken off again.                                                         *)
Plus == [value |-> 0, inWords |-> TRUE]

NamedNumbers(number, numstrs) ==
    LET named[n \in Nat] ==
            LET v == GetNearestNumberVal(n, numstrs)
            IN  IF v = 0 THEN IF n > 0 THEN <<numbertoname(n, numstrs)>> ELSE <<>>
                ELSE <<GetNearestNumber(n, numstrs), Plus>> \o named[n - v]
    IN  named[number]
MakeFirstHint(s, numstrs) ==
    LET Q == NamedNumbers(from_string(s), numstrs)
    IN  SubSeq(Q, 1, Len(Q) - 1)

(* A number in another system: Roman, or sixteen, eight or two digits.      *)
SecondHint(answer, r) ==
    LET n == from_string(answer)
    IN  IF r < 3 /\ n <= 10000 THEN [base |-> 0, digits |-> dec_to_roman(n)]
        ELSE LET b == IF r \in 3..5 \/ n > 10000 THEN 16 ELSE IF r \in 6..10 THEN 8 ELSE 2
             IN  [base |-> b, digits |-> InBase(n, b)]
(* question_t::fetch: what a row of the database becomes, and an insane     *)
(* question, which has its answers behind it.                               *)
fetch(row) ==
    [question : homoglyph(row.question), answer : {row.answer},
     shuffle1 : utf8shuffle(row.answer), shuffle2 : utf8shuffle(row.answer)]
fetch_insane_round(question, answers) == {<<shown>> \o answers : shown \in homoglyph(question)}

(* do_insane_round: what is asked for, and handle_message: what is found.   *)
FoundBy(list, spanish) == {utf8lower(removepunct(a), spanish) : a \in Range(Tail(list))}
Finds(insane, msg, spanish) == utf8lower(removepunct(msg), spanish) \in insane

-----------------------------------------------------------------------------
(* Texts in JSON *)

Newline == "newline"
EscapeCode == [c \in {Quote, Backslash, Newline} |-> IF c = Newline THEN "n" ELSE c]

EscapeNewlines(s) ==                                              \* mutant
    FlattenSeq([i \in DOMAIN s |-> IF s[i] = Newline THEN <<Backslash, "n">> ELSE <<s[i]>>])

escape_json(s) ==
    FlattenSeq([i \in DOMAIN s |->
        IF s[i] \in DOMAIN EscapeCode THEN <<Backslash, EscapeCode[s[i]]>> ELSE <<s[i]>>])

(* Reading what was written: the text that ends at the first quote which is *)
(* not escaped, and what follows it, which is nothing if it cannot be read. *)
Unreadable == [value |-> <<>>, rest |-> <<>>]
ReadText(s) ==
    LET from[i \in 1..(Len(s) + 2)] ==
            IF i > Len(s) \/ s[i] = Newline THEN Unreadable
            ELSE IF s[i] = Quote THEN [value |-> <<>>, rest |-> SubSeq(s, i + 1, Len(s))]
            ELSE LET escaped == s[i] = Backslash
                     codes == IF escaped /\ i < Len(s)
                                THEN {c \in DOMAIN EscapeCode : EscapeCode[c] = s[i + 1]} ELSE {}
                     next == from[i + IF escaped THEN 2 ELSE 1]
                 IN  IF escaped /\ codes = {} THEN Unreadable
                     ELSE [next EXCEPT !.value =
                             <<IF escaped THEN CHOOSE c \in codes : TRUE ELSE s[i]>> \o @]
    IN  from[1]

-----------------------------------------------------------------------------
(* The texts that are judged, one in each state                             *)

VARIABLE judged     \* what the function named by "of" is given

Strings(chars, n) == UNION {[1..k -> chars] : k \in 0..n}

(* Answers as they are stored: no blank at the ends, nor two in a row.      *)
IsNeat(s) == /\ s # <<>> /\ s[1] # Blank /\ Last(s) # Blank
             /\ \A i \in 1..(Len(s) - 1) : <<s[i], s[i + 1]>> # <<Blank, Blank>>
Answers == {s \in Strings({"1", "a", Blank, "-", ",", "$", "dollars", "one", "hundred"}, 4) : IsNeat(s)}

(* The texts that one insertion, removal or replacement makes of a text.    *)
Edits(s) ==
    {RemoveAt(s, i) : i \in DOMAIN s}
    \cup (UNION {{InsertAt(s, i, c) : i \in 1..(Len(s) + 1)} \cup {ReplaceAt(s, i, c) : i \in DOMAIN s} :
                   c \in {"a", "b"}})
Spelled == <<"a", "a", "b", "a", "b", "b">>

TextInit ==
    \/ \E s \in Answers : judged = [of |-> "answer", s |-> s]
    \/ \E s, t \in Strings({"a", "b"}, 3) : judged = [of |-> "distance", s |-> s, t |-> t]
    \/ \E s \in Edits(Spelled) : \E t \in Edits(s) : judged = [of |-> "message", s |-> t]
    \/ \E n \in 1..999 : judged = [of |-> "number", n |-> n]
    \/ \E n \in 1..130, names \in SUBSET {2, 5, 10, 60, 100} :
          judged = [of |-> "first hint", n |-> n, names |-> names \cup {1}]
    \/ \E n \in (1..300) \cup {999, 3999, 9999, 10000, 10001}, r \in 1..13 :
          judged = [of |-> "second hint", n |-> n, r |-> r]
    \/ \E s \in Strings({"a", "b", "B", Blank}, 4) : judged = [of |-> "letters", s |-> s]
    \/ \E s \in Strings({"a", "A", "o"}, 3) : judged = [of |-> "question", s |-> s]
    \/ \E s \in [1..6 -> {"a", "A", "o"}] : judged = [of |-> "pasted", s |-> s]

-----------------------------------------------------------------------------
(* Properties *)

(* A mark that is a word of its own, or that stands in an amount.           *)
HasLooseMark(s) ==
    \/ \E i \in DOMAIN Words(s) : removepunct(Words(s)[i]) = <<>>
    \/ Contains(s, "dollars") /\ \E i \in DOMAIN s : s[i] \in Punctuation

(* The answer is rewritten when the question is asked (digits for number    *)
(* words, no commas in numbers, $ for dollars), and a player's message in   *)
(* another way (state.cpp:281 and 552).  Yet whoever types the answer of    *)
(* the database, or the one that is shown in the end, is right, unless      *)
(* nothing of it is left or a mark stands loose in it.                      *)
AnswersCanBeGiven ==
    judged.of = "answer" =>
        LET question == Asked(judged.s)
        IN  ~HasLooseMark(judged.s) /\ removepunct(question) # <<>>
                => Accepts(question, judged.s, FALSE) /\ Accepts(question, question, FALSE)

(* "it's non-numeric and has a levenstein distance near enough to the       *)
(* current answer (account for misspellings)" (state.cpp:289): the distance *)
(* is below two exactly for texts that differ by one edit, and of those a   *)
(* player may give for an answer of six letters each that is not shorter.   *)
(* A text is shown in look-alikes, which "can't be pasted into google, and  *)
(* will break selfbots" (wlower.cpp:99): what is copied from it is taken    *)
(* for a misspelling if one letter has changed, and is no answer if more    *)
(* have, not even to an insane question.                                    *)
MisspellingsAreForgiven ==
    /\ judged.of = "distance" =>
          (levenstein(judged.s, judged.t) < 2 <=> judged.t \in Edits(judged.s) \cup {judged.s})
    /\ judged.of = "message" =>
          (Accepts(Spelled, judged.s, FALSE)
              <=> judged.s = Spelled \/ (judged.s \in Edits(Spelled) /\ Len(judged.s) >= 6))
    /\ judged.of \in {"question", "pasted"} =>
          \A shown \in homoglyph(judged.s) :
              LET changed == {i \in DOMAIN shown : shown[i] # judged.s[i]}
                  insane == FoundBy(<< <<>>, judged.s>>, FALSE)
              IN  /\ judged.s # <<>> =>
                        (Accepts(judged.s, shown, FALSE)
                            <=> Cardinality(changed) <= IF Len(judged.s) > 5 THEN 1 ELSE 0)
                  /\ Finds(insane, shown, FALSE) <=> changed = {}

(* Numbers in words, as lang.json spells them, up to 999.                   *)
WordsOf(n) ==
    LET word(v) == IF v = 0 THEN <<>> ELSE <<CHOOSE w \in DOMAIN NumberWords : NumberWords[w] = v, Blank>>
        tens(v) == IF v <= 20 THEN word(v) ELSE word((v \div 10) * 10) \o word(v % 10)
    IN  IF n < 100 THEN tens(n) ELSE word(n \div 100) \o <<"hundred", Blank>> \o tens(n % 100)

RomanWorth(letters) == Romans[CHOOSE i \in DOMAIN Romans : Romans[i][2] = letters][1]
Total(numbers) == MapThenSumSet(LAMBDA i : numbers[i], DOMAIN numbers)
Worth(roman) == Total([i \in DOMAIN roman |-> RomanWorth(roman[i])])
ReadHint(hint) == IF hint.base = 0 THEN Worth(hint.digits) ELSE ValueOf(hint.digits, hint.base)

(* What the hints of a question say of its answer is true (state.cpp:561):  *)
(* a number whose first hint is a sum of named numbers is that sum, however *)
(* many the table of names has besides one, and its second hint is the same *)
(* number in another system; the hints that count the letters of an answer  *)
(* agree, and pig Latin and the scrambled answer keep its letters.  And a   *)
(* number is answered by its name in words, or with commas, as well.        *)
HintsTellTheAnswer ==
    /\ judged.of = "number" =>
          /\ Accepts(Asked(to_string(judged.n)), trim(WordsOf(judged.n)), FALSE)
          /\ \A n \in {judged.n, 1000 * judged.n} : Accepts(Asked(to_string(n)), Comma(n), FALSE)
    /\ judged.of = "first hint" =>
          LET hint == MakeFirstHint(to_string(judged.n), judged.names)
          IN  /\ judged.n = Total([i \in DOMAIN hint |-> hint[i].value])
              /\ \A i \in DOMAIN hint : hint[i].inWords
    /\ judged.of = "second hint" => ReadHint(SecondHint(to_string(judged.n), judged.r)) = judged.n
    /\ judged.of = "letters" =>
          LET isB(c) == c = "b"
          IN  /\ letterlong(judged.s) # <<>> => letterlong(judged.s)[1] = vowelcount(judged.s)[1]
              /\ CountIf(piglatin(judged.s), isB) = CountIf(lowercase(judged.s), isB)
    /\ judged.of = "question" =>
          \A q \in fetch([question |-> judged.s, answer |-> judged.s]) :
              \A hint \in {q.shuffle1, q.shuffle2}, c \in {"a", "o"} :
                  CountIf(hint, LAMBDA d : d = c) = CountIf(lowercase(judged.s), LAMBDA d : d = c)
=============================================================================
