----------------------------- MODULE Credentials -----------------------------
(***************************************************************************)
(* normalizeCredentials (controllers/controller_util.go): the credentials  *)
(* of a binding, a JSON object, become the data of a secret.  A blank in a *)
(* key becomes an underscore; a value is written as JSON, and a quote at   *)
(* either end of the text is taken off.                                    *)
(*                                                                         *)
(* A text is a sequence of characters: "c" stands for one that JSON writes *)
(* as it is, "q" for the quote, "b" for the backslash and for everything   *)
(* else that is written with one, "d" for a digit of a number that a       *)
(* float64 has no room for, and a key has blanks and underscores.          *)
(***************************************************************************)
EXTENDS Naturals, Sequences, SequencesExt

\* A value is a string, or something else, of which text is the JSON.
Value(isString, text) == [isString |-> isString, text |-> text]

\* json.Marshal of a string.
Escaped(ch) == IF ch \in {"q", "b"} THEN <<"b", ch>> ELSE <<ch>>
Quoted(text) == <<"q">> \o FlattenSeq([k \in DOMAIN text |-> Escaped(text[k])]) \o <<"q">>

\* Numbers are read as float64 and written again.
Rounded(ch) == IF ch = "d" THEN "0" ELSE ch
Marshalled(v) ==
  IF v.isString THEN Quoted(v.text) ELSE [k \in DOMAIN v.text |-> Rounded(v.text[k])]

TrimPrefix(text) == IF text # <<>> /\ Head(text) = "q" THEN Tail(text) ELSE text
TrimSuffix(text) == IF text # <<>> /\ Last(text) = "q" THEN Front(text) ELSE text

Flattened_quoted(v) == TrimPrefix(Marshalled(v))
Flattened(v) == TrimSuffix(TrimPrefix(Marshalled(v)))

KeyOf(name) == [k \in DOMAIN name |-> IF name[k] = "blank" THEN "_" ELSE name[k]]

\* The map of the result is filled in no particular order: of the properties that
\* get the same key any may be the last.
normalizeCredentials(creds) ==
  LET keys == {KeyOf(name) : name \in DOMAIN creds}
  IN {[key \in keys |-> Flattened(creds[last[key]])] :
        last \in {f \in [keys -> DOMAIN creds] : \A key \in keys : KeyOf(f[key]) = key}}
=============================================================================
