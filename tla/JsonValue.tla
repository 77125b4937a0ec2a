----------------------------- MODULE JsonValue ------------------------------
(***************************************************************************)
(* JSON values as the parser library gives them: a pair of a kind and a    *)
(* content.                                                                *)
(***************************************************************************)
EXTENDS Integers, SequencesExt

Real(n)   == <<"real", n>>
Whole(n)  == <<"int", n>>
Text(s)   == <<"str", s>>
Arr(s)    == <<"arr", s>>
Obj(f)    == <<"obj", f>>
Null      == <<"null">>
Missing   == <<"missing">>

Is(kind, json) == json[1] = kind
IsNumber(json) == Is("real", json) \/ Is("int", json)
Get(json, key) == IF key \in DOMAIN json[2] THEN json[2][key] ELSE Missing

(* yyjson_arr_iter: nothing for what is not an array.                      *)
Elements(json) == IF Is("arr", json) THEN json[2] ELSE <<>>

(* yyjson_get_real and yyjson_get_num.                                     *)
GetReal(json) == IF Is("real", json) THEN json[2] ELSE "0"
GetNum(json)  == IF IsNumber(json) THEN json[2] ELSE "0"

(* Throw stands for an exception, which unwinds the whole conversion of a  *)
(* value to a text: a text with a Throw in it is no text.                  *)
Throw == "throw"
Throws(text) == Throw \in Range(text)
=============================================================================
