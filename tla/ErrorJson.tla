------------------------------ MODULE ErrorJson -----------------------------
(***************************************************************************)
(* The JSON body of an ERROR frame, src/src/treeframe.rs: ErrorPayload's   *)
(* encoder with json_string, and parse_error_json with its scanner.        *)
(*                                                                         *)
(* A body is a sequence of tokens, each with or without white space before *)
(* it.  A string is a sequence of pieces of text, and what matters of a    *)
(* piece is how it may be spelled: as itself, with a short escape, with \u *)
(* and four hexadecimal digits, or with \u, a plus sign and three digits,  *)
(* which u32::from_str_radix takes for a number as well.  The names of the *)
(* fields are pieces too.  The next token is chosen when the scanner       *)
(* reaches it; what follows a token that is refused makes no difference.   *)
(***************************************************************************)
EXTENDS Integers, SequencesExt

CONSTANTS Strings,     \* spelled strings that occur in a body
          Payloads,    \* ErrorPayloads a server encodes
          KeyStrings,  \* those of them that longer bodies are made of
          MaxTokens,   \* bound: tokens of a body without white space
          MaxLong,     \* bound: tokens of a body of marks and KeyStrings
          MaxSpaces    \* bound: tokens of it with white space before them

Fields == {"code", "retryable", "request_id"}

(* Pieces of text: the field names and one of each class of characters. *)
Quoted  == {"quote", "backslash"}            \* cannot stand for themselves
Lines   == {"newline"}                       \* \n \r \t
Control == Lines \cup {"backspace",          \* \b \f, which have a short escape
                       "bell"}               \* the other bytes below 0x20
Plain   == Fields \cup {"letter", "slash"}
Astral  == {"emoji"}                         \* above U+FFFF: two surrogates in \u
Texts   == Quoted \cup Control \cup Plain \cup Astral

HasShort == Quoted \cup Lines \cup {"backspace", "slash"}

Spelled(as, text) == [as |-> as, text |-> text]

VARIABLES body,     \* the tokens looked at so far
          at,       \* what the scanner expects next
          key,      \* the key whose value it expects
          fields,   \* the values read so far, << >> or <<value>>
          outcome   \* "pending", "ok", "refused" or "truncated"

vars == <<body, at, key, fields, outcome>>

Mark(m)         == [mark |-> m, string |-> << >>, space |-> FALSE]
StringToken(s)  == [mark |-> "string", string |-> s, space |-> FALSE]
Spaced(t)       == [t EXCEPT !.space = TRUE]

Tokens == LET tight == {Mark(m) : m \in {"{", "}", ":", ",", "true", "false",
                                         "junk"}}   \* junk: no token at all
                       \cup {StringToken(s) : s \in Strings}
          IN  tight \cup {Spaced(t) : t \in tight}

ValueOf(string) == [k \in DOMAIN string |-> string[k].text]

-----------------------------------------------------------------------------
(* json_string: quotes, backslashes and line ends by short escapes, other   *)
(* bytes below 0x20 by \u, everything else as it is.                        *)
ShortSlash(text) ==                    \* mutant of HowToWrite: \b as itself
    IF text \in Quoted \cup Lines THEN "short"
    ELSE IF text = "bell" THEN "hex" ELSE "raw"
HowToWrite(text) ==
    IF text \in Quoted \cup Lines THEN "short"
    ELSE IF text \in Control THEN "hex" ELSE "raw"

JsonString(value) ==
    StringToken([k \in DOMAIN value |-> Spelled(HowToWrite(value[k]), value[k])])

(* ErrorPayload::encode. *)
Encode(p) ==
    <<Mark("{"),
      JsonString(<<"code">>), Mark(":"), JsonString(p.code), Mark(","),
      JsonString(<<"retryable">>), Mark(":"),
      Mark(IF p.retryable THEN "true" ELSE "false"), Mark(","),
      JsonString(<<"request_id">>), Mark(":"), JsonString(p.request_id),
      Mark("}")>>

-----------------------------------------------------------------------------
(* JsonScan::string accepts the spelling of a piece.  A surrogate is not a  *)
(* char, so that text above U+FFFF has no \u form here.                     *)
PieceOk(piece) ==
    \/ piece.as = "raw"   /\ piece.text \notin Control \cup Quoted
    \/ piece.as = "short" /\ piece.text \in HasShort
    \/ piece.as \in {"hex", "plus"} /\ piece.text \notin Astral

StringOk(string) == \A k \in DOMAIN string : PieceOk(string[k])

Init ==
    /\ body = << >> /\ at = "open" /\ key = "" /\ outcome = "pending"
    /\ fields = [f \in Fields |-> << >>]

(* The key is judged after the colon: known, and not seen before. *)
MayFill(k) == k \in Fields /\ fields[k] = << >>

(* What the scanner goes on with at each place.  An object without fields is *)
(* refused: "}" is no string.                                                *)
Opens(token)  == at = "open" /\ token.mark = "{"
IsKey(token)  == at = "key" /\ token.mark = "string" /\ StringOk(token.string)
Colon(token)  == at = "colon" /\ token.mark = ":" /\ MayFill(key)
IsFlag(token) == /\ at = "value" /\ key = "retryable"
                 /\ token.mark \in {"true", "false"}
IsText(token) == /\ at = "value" /\ key # "retryable"
                 /\ token.mark = "string" /\ StringOk(token.string)
GoesOn(token) == at = "comma" /\ token.mark = ","
Closes(token) == at = "comma" /\ token.mark = "}"

Wanted(token) == \/ Opens(token) \/ IsKey(token) \/ Colon(token) \/ IsFlag(token)
                 \/ IsText(token) \/ GoesOn(token) \/ Closes(token)

Fits(longer) ==
    \/ Len(longer) <= MaxTokens /\ \A k \in DOMAIN longer : ~longer[k].space
    \/ /\ Len(longer) <= MaxLong
       /\ Cardinality({k \in DOMAIN longer : longer[k].space}) <= MaxSpaces
       /\ \A k \in DOMAIN longer :
            longer[k].mark = "string" => longer[k].string \in KeyStrings

Read(token) ==
    outcome = "pending" /\ body' = Append(body, token) /\ Fits(body')

ReadKey(token) ==
    /\ IsKey(token) /\ at' = "colon" /\ UNCHANGED fields
    /\ key' = IF \E f \in Fields : ValueOf(token.string) = <<f>>
              THEN ValueOf(token.string)[1] ELSE ""

ReadValue(token) ==
    /\ \/ /\ IsFlag(token)
          /\ fields' = [fields EXCEPT ![key] = <<token.mark = "true">>]
       \/ /\ IsText(token)
          /\ fields' = [fields EXCEPT ![key] = <<ValueOf(token.string)>>]
    /\ at' = "comma" /\ UNCHANGED key

ReadMark(token) ==
    /\ \/ Opens(token)  /\ at' = "key"
       \/ Colon(token)  /\ at' = "value"
       \/ GoesOn(token) /\ at' = "key"
       \/ Closes(token) /\ at' = "end"
    /\ UNCHANGED <<key, fields>>

Take == \E token \in Tokens :
    /\ Read(token)
    /\ ReadMark(token) \/ ReadKey(token) \/ ReadValue(token)
    /\ UNCHANGED outcome

Refuse == \E token \in Tokens :
    /\ Read(token) /\ ~Wanted(token)
    /\ outcome' = "refused" /\ UNCHANGED <<at, key, fields>>

(* At the end of the object every field must be there. *)
CodeThere == fields["code"] # << >>            \* mutant of Complete
Complete  == \A f \in Fields : fields[f] # << >>

EndOfBody ==
    /\ outcome = "pending"
    /\ outcome' = IF at # "end" THEN "truncated"
                  ELSE IF Complete THEN "ok" ELSE "refused"
    /\ UNCHANGED <<body, at, key, fields>>

Next == Take \/ Refuse \/ EndOfBody

Spec == Init /\ [][Next]_vars

-----------------------------------------------------------------------------
Result == [code |-> fields["code"][1], retryable |-> fields["retryable"][1],
           request_id |-> fields["request_id"][1]]

(* What an encoder writes is read back: no prefix of it is refused, and the *)
(* whole of it gives the payload that was written, whatever characters are  *)
(* in the code and the request id.                                          *)
WrittenIsRead ==
    \A p \in Payloads :
        /\ outcome = "refused" => ~IsPrefix(body, Encode(p))
        /\ outcome = "ok" /\ body = Encode(p) => Result = p

(* The schema is closed whatever the order of the fields: an accepted body  *)
(* has every field exactly once and no other one, and the payload holds the *)
(* value that stands after its key.                                         *)
ValueAt(k) == IF body[k].mark = "string" THEN ValueOf(body[k].string)
              ELSE body[k].mark = "true"

ClosedSchema ==
    outcome = "ok" =>
        LET keys == {k \in DOMAIN body : k > 1 /\ body[k].mark = ":"} IN
        /\ Cardinality(keys) = Cardinality(Fields)
        /\ \A f \in Fields : \E k \in keys :
             /\ ValueOf(body[k - 1].string) = <<f>>
             /\ fields[f] = <<ValueAt(k + 1)>>

(* The scanner is a "strict JSON scanner": the escapes it accepts are those *)
(* of JSON, \u with four hexadecimal digits.                                *)
EscapesAreJson ==
    outcome = "ok" =>
        \A k \in DOMAIN body : \A j \in DOMAIN body[k].string :
            body[k].string[j].as # "plus"
=============================================================================
