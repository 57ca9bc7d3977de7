---------------------------- MODULE WrittenTexts ----------------------------
(***************************************************************************)
(* Texts where others have to read them: the JSON of embeds (embeds.cpp)   *)
(* and the queries their parameters are put into (database.cpp), beside a  *)
(* reader of JSON to check the writers against.                            *)
(***************************************************************************)
EXTENDS TextFunctions

Optional(condition, s) == IF condition THEN s ELSE <<>>
Text(s) == <<Quote>> \o s \o <<Quote>>
Key(name) == Text(<<name>>) \o <<":">>
Url(name, url) == Key(name) \o <<"{">> \o Key("url") \o Text(escape_json(url)) \o <<"}">>

(* The footer is a text of the translations and the address of an icon.     *)
Footer(text) == Key("footer") \o <<"{">> \o Key("text") \o Text(text) \o <<"}">>

SimpleEmbed(emoji, text, title, image, thumbnail, powered_by) ==
    <<"{">> \o Optional(title # <<>>, Key("title") \o Text(escape_json(title)) \o <<",">>)
        \o Key("color") \o <<"0", ",">>
        \o Key("description") \o Text(emoji \o <<Blank>> \o escape_json(text))
        \o Optional(image # <<>>, <<",">> \o Url("image", image))
        \o Optional(thumbnail # <<>>, <<",">> \o Url("thumbnail", thumbnail))
        \o <<",">> \o Footer(escape_json(powered_by)) \o <<"}">>

Field(v) == <<"{">> \o Key("name") \o Text(escape_json(v.name)) \o <<",">>
                   \o Key("value") \o Text(escape_json(v.value)) \o <<"}">>

(* Its footer is not escaped.                                               *)
EmbedWithFields(title, fields, url, image, description, powered_by) ==
    <<"{">> \o Optional(url # <<>>, Key("url") \o Text(escape_json(url)) \o <<",">>)
        \o Key("title") \o Text(escape_json(title)) \o <<",">>
        \o Optional(description # <<>>, Key("description") \o Text(escape_json(description)) \o <<",">>)
        \o Key("color") \o <<"0", ",">> \o Key("fields") \o <<"[">>
        \o FlattenSeq([i \in DOMAIN fields |->
                Field(fields[i]) \o Optional(i < Len(fields), <<",">>)])
        \o <<"]", ",">>
        \o Optional(image # <<>>, Url("image", image) \o <<",">>)
        \o Footer(powered_by) \o <<"}">>

-----------------------------------------------------------------------------
(* Queries *)

(* real_query: each mark takes the next parameter, the last one for ever.   *)
WithParameters(format, parameters) ==
    FoldLeft(LAMBDA query, c :
                 IF c = "?" /\ Len(parameters) >= query.param + 1
                   THEN [text |-> query.text \o parameters[query.param + 1],
                         param |-> IF query.param # Len(parameters) - 1
                                     THEN query.param + 1 ELSE query.param]
                   ELSE [query EXCEPT !.text = Append(@, c)],
             [text |-> <<>>, param |-> 0], format).text

-----------------------------------------------------------------------------
(* A reader of JSON: the value a text starts with and what follows it.      *)

Expecting(c, read) == IF read.rest # <<>> /\ Head(read.rest) = c THEN Tail(read.rest) ELSE <<"unreadable">>

(* An object is the sequence of its members, an array that of its values;   *)
(* one step reads an element, which is followed by a comma or the end.      *)
RECURSIVE ReadValue(_), ReadElements(_, _, _)
ReadElements(s, end, isObject) ==
    LET key == IF isObject THEN ReadText(Expecting(Quote, [rest |-> s]))
               ELSE [value |-> <<>>, rest |-> <<":">> \o s]
        element == ReadValue(Expecting(":", key))
        here == <<key.value, element.value>>
    IN  IF element.rest = <<>> THEN Unreadable
        ELSE IF Head(element.rest) = end THEN [value |-> <<here>>, rest |-> Tail(element.rest)]
        ELSE LET others == ReadElements(Expecting(",", element), end, isObject)
             IN  [others EXCEPT !.value = <<here>> \o @]
ReadValue(s) ==
    IF s = <<>> THEN Unreadable
    ELSE IF Head(s) = Quote THEN ReadText(Tail(s))
    ELSE IF Head(s) = "{" THEN ReadElements(Tail(s), "}", TRUE)
    ELSE IF s[1] = "[" /\ Len(s) > 1 /\ s[2] = "]" THEN [value |-> <<>>, rest |-> SubSeq(s, 3, Len(s))]
    ELSE IF Head(s) = "[" THEN ReadElements(Tail(s), "]", FALSE)
    ELSE IF Head(s) = "0" THEN [value |-> 0, rest |-> Tail(s)]
    ELSE Unreadable

(* The values of a member of the object that the whole text is.             *)
Members(json, name) ==
    LET read == ReadValue(json \o <<"end">>)
    IN  IF read.rest # <<"end">> THEN {<<"not JSON">>}
        ELSE {read.value[i][2] : i \in {j \in DOMAIN read.value : read.value[j][1] = <<name>>}}

-----------------------------------------------------------------------------
(* The texts that are judged, one in each state                             *)

Awkward == Strings({Quote, Backslash, Newline, "}", ","}, 2)
Short == Strings({Quote, Backslash, "a"}, 1)
Marks(format) == Cardinality({i \in DOMAIN format : format[i] = "?"})

WrittenTextInit ==
    \/ \E s \in Awkward, t \in Short, u \in Short : judged = [of |-> "embed", s |-> s, t |-> t, u |-> u]
    \/ \E s \in Awkward, t \in Short, n \in 0..2 : judged = [of |-> "fields", s |-> s, t |-> t, n |-> n]
    \/ \E format \in Strings({"?", "a"}, 4) :
          \E parameters \in [1..Marks(format) -> Strings({"?", "b"}, 1)] :
             judged = [of |-> "query", s |-> format, parameters |-> parameters]

-----------------------------------------------------------------------------
(* Properties *)

IfAny(s) == IF s = <<>> THEN {} ELSE {s}

(* What a player or a question brings into the JSON of an embed comes out   *)
(* of it unchanged, next to what the bot adds, and cannot add or hide a     *)
(* member; a parameter lands where its mark is, marks of its own included.  *)
WrittenTextsReadBack ==
    /\ judged.of = "embed" =>
          LET json == SimpleEmbed(<<"!">>, judged.s, judged.t, judged.u, <<>>, judged.t)
          IN  /\ Members(json, "description") = {<<"!", Blank>> \o judged.s}
              /\ Members(json, "title") = IfAny(judged.t)
              /\ Members(json, "image") = {<< << <<"url">>, u>> >> : u \in IfAny(judged.u)}
    /\ judged.of = "fields" =>
          LET fields == [i \in 1..judged.n |-> [name |-> judged.t, value |-> judged.s]]
              json == EmbedWithFields(judged.t, fields, judged.s, judged.t, judged.s, <<"a">>)
          IN  /\ Members(json, "title") = {judged.t}
              /\ Members(json, "url") = IfAny(judged.s)
              /\ Members(json, "description") = IfAny(judged.s)
              /\ Members(json, "fields") =
                    {[i \in 1..judged.n |-> << <<>>, << << <<"name">>, judged.t>>, << <<"value">>, judged.s>> >> >>]}
    /\ judged.of = "query" =>
          WithParameters(judged.s, judged.parameters) =
              FlattenSeq([i \in DOMAIN judged.s |->
                  IF judged.s[i] = "?" THEN judged.parameters[Marks(SubSeq(judged.s, 1, i))] ELSE <<judged.s[i]>>])
=============================================================================
