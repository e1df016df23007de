----------------------------- MODULE MCErrorJson ----------------------------
(* ERROR bodies for TLC: every character class in the values an encoder     *)
(* writes, the same keys and values spelled in other ways, and strings that *)
(* no scanner may take.                                                     *)
EXTENDS ErrorJson

MCPayloads ==
    {[code |-> <<"letter">>, retryable |-> FALSE, request_id |-> << >>],
     [code |-> <<"quote", "slash">>, retryable |-> TRUE,
      request_id |-> <<"backspace", "emoji">>],
     [code |-> <<"bell">>, retryable |-> TRUE,
      request_id |-> <<"backslash", "newline">>]}

Written == {JsonString(<<f>>).string : f \in Fields}
           \cup {JsonString(p.code).string : p \in MCPayloads}
           \cup {JsonString(p.request_id).string : p \in MCPayloads}

MCStrings == Written \cup
    {<<Spelled("hex", "code")>>,            \* the key code, escaped
     <<Spelled("short", "slash")>>,         \* a slash, escaped
     <<Spelled("plus", "letter")>>,         \* \u+041
     <<Spelled("hex", "emoji")>>,           \* a pair of surrogates
     <<Spelled("raw", "newline")>>}         \* a bare line end

(* The keys, one of them also escaped. *)
MCKeyStrings == {JsonString(<<f>>).string : f \in Fields}
                \cup {<<Spelled("hex", "code")>>}
=============================================================================
