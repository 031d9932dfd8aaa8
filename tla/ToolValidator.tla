------------------------------ MODULE ToolValidator ------------------------------
(***************************************************************************)
(* ToolCallValidator (agent/tool_validation.py) and the body checks of     *)
(* ResponseValidator (validation/response.py): which tool calls of a       *)
(* model's answer the client gets to run, and with which arguments.        *)
(*                                                                         *)
(* A JSON value has a type, a text that tells values of a type apart as    *)
(* far as the validator does, and the members it holds as an object.  An   *)
(* array holds one item, given as its members too (`none' if the item is   *)
(* not an object).  A schema gives the type of each property, the required *)
(* ones, whether others are allowed, the type of the items of its arrays   *)
(* and the schema of the objects below; schemas are two deep.              *)
(*                                                                         *)
(* Texts of strings: digits, superscript (isdigit() holds, int() raises),  *)
(* decimal, yes and no (true and false in any case), code (has a comma     *)
(* before a bracket), trimmed (has not).  Of numbers: whole and fraction;  *)
(* of Booleans: true and false.                                            *)
(***************************************************************************)
EXTENDS Naturals, Sequences, Functions

CONSTANT Envelopes   \* the names of wrappers: "parameters", "arguments", "input"

NoMembers == <<>>

Scalar(type, text) == [type |-> type, text |-> text, members |-> NoMembers]
Holding(type, members) == [type |-> type, text |-> "", members |-> members]

\* A JSON object: its members are values, of which those below an envelope hold
\* values too.
IsValue(v) == v = [type |-> v.type, text |-> v.text, members |-> v.members]
Members(o) == {o[k] : k \in DOMAIN o}
IsObject(o) ==
    \A v \in Members(o) :
        /\ IsValue(v)
        /\ \A w \in Members(v.members) : IsValue(w) /\ \A x \in Members(w.members) : IsValue(x)

\* What Python's isinstance accepts: a Boolean is an integer.  A type that the
\* validator does not know accepts everything.
Types == {"integer", "number", "boolean", "string", "array", "object", "null"}
Accepts(type) ==
    CASE type = "integer" -> {"integer", "boolean"}
      [] type = "number" -> {"integer", "number", "boolean"}
      [] type \in {"boolean", "string", "array", "object"} -> {type}
      [] OTHER -> Types

\* The strings that are taken for a value of the type.
Takes(type) ==
    CASE type = "integer" -> {"digits", "superscript"}
      [] type = "number" -> {"digits", "decimal"}
      [] type = "boolean" -> {"yes", "no"}
      [] OTHER -> {}

\* A safe syntactic repair of a value that does not have the expected type.
Coercible(type, value) ==
    \/ value.type = "string" /\ value.text \in Takes(type)
    \/ type = "string" /\ value.type \in {"integer", "number", "boolean"}

\* int(), float(), the comparison with "true", and str().
Converted(type, value) ==
    CASE type = "integer" -> "whole"
      [] type = "number" -> "fraction"
      [] type = "boolean" -> IF value.text = "yes" THEN "true" ELSE "false"
      [] type = "string" /\ value.type = "integer" -> "digits"
      [] type = "string" /\ value.type = "number" -> "decimal"
      [] OTHER -> IF value.text = "true" THEN "yes" ELSE "no"

Repaired(type, value) ==
    IF value.type \in Accepts(type) THEN value
    ELSE [value EXCEPT !.type = type, !.text = Converted(type, value)]

\* int() raises on what isdigit() accepted.
Unreadable(type, value) ==
    type = "integer" /\ value.type = "string" /\ value.text = "superscript"

Present(object, schema) == DOMAIN object \cap DOMAIN schema.properties

\* Mutated: a missing argument is not an error.
CompleteAnyway(object, schema) ==
    ~schema.closed \/ DOMAIN object \subseteq DOMAIN schema.properties

\* Missing required arguments and disallowed additional ones.
Complete(object, schema) ==
    /\ schema.required \subseteq DOMAIN object
    /\ ~schema.closed \/ DOMAIN object \subseteq DOMAIN schema.properties

HasType(type, value) == value.type \in Accepts(type) \/ Coercible(type, value)

\* _validate_schema of an object below the first level.
ValidBelow(object, schema) ==
    /\ Complete(object, schema)
    /\ \A k \in Present(object, schema) : HasType(schema.properties[k], object[k])

RepairedBelow(object, schema) ==
    [k \in DOMAIN object |->
        IF k \in Present(object, schema)
        THEN Repaired(schema.properties[k], object[k]) ELSE object[k]]

\* An object is looked into if its schema has properties or required ones, an
\* array if its items are objects.
LooksInto(type, schema) ==
    \/ type = "object" /\ (DOMAIN schema.below.properties # {} \/ schema.below.required # {})
    \/ type = "array" /\ schema.items = "object"

\* _validate_schema: it returns no error.
Valid(object, schema) ==
    /\ Complete(object, schema)
    /\ \A k \in Present(object, schema) :
        LET type == schema.properties[k]
            value == object[k]
        IN  /\ HasType(type, value)
            /\ LooksInto(type, schema) =>
                    value.text # "none" /\ ValidBelow(value.members, schema.below)

\* _validate_schema comes to a string that int() cannot read.
RaisesBelow(object, schema) ==
    /\ Complete(object, schema)
    /\ \E k \in Present(object, schema) : Unreadable(schema.properties[k], object[k])

Raises(object, schema) ==
    /\ Complete(object, schema)
    /\ \E k \in Present(object, schema) :
        LET type == schema.properties[k]
            value == object[k]
        IN  \/ Unreadable(type, value)
            \/ /\ LooksInto(type, schema)
               /\ value.type = type /\ value.text # "none"
               /\ RaisesBelow(value.members, schema.below)

RepairedArguments(object, schema) ==
    [k \in DOMAIN object |->
        IF k \notin Present(object, schema) THEN object[k]
        ELSE IF schema.properties[k] \notin {"object", "array"}
        THEN Repaired(schema.properties[k], object[k])
        ELSE IF LooksInto(schema.properties[k], schema)
        THEN [object[k] EXCEPT !.members = RepairedBelow(@, schema.below)] ELSE object[k]]

\* json.loads and normalize_json_syntax: a source is an object in JSON; loose,
\* which only a parser that allows control characters in strings accepts;
\* wrapped in code fences, with trailing commas or single quotes; nothing at
\* all; or another JSON value, or no JSON.  The removal of trailing commas
\* also reaches into strings, however deep.
Mended == {"fenced", "commas", "quotes"}
Parses(source) == source.form \in {"json", "loose", "nothing"} \cup Mended

TrimmedText(value) == IF value.text = "code" THEN [value EXCEPT !.text = "trimmed"] ELSE value
TrimmedBelow(object) == [k \in DOMAIN object |-> TrimmedText(object[k])]
TrimmedInside(object) ==
    [k \in DOMAIN object |-> [TrimmedText(object[k]) EXCEPT !.members = TrimmedBelow(@)]]
Trimmed(object) ==
    [k \in DOMAIN object |-> [TrimmedText(object[k]) EXCEPT !.members = TrimmedInside(@)]]

Parsed(source) ==
    CASE source.form = "nothing" -> NoMembers
      [] source.form \in Mended -> Trimmed(source.object)
      [] OTHER -> source.object

\* A single member that is named like a wrapper, holds an object and is not a
\* parameter of the tool is an envelope, and is opened once.
Wrapper(object, schema) ==
    {k \in DOMAIN object \cap Envelopes :
        /\ DOMAIN object = {k}
        /\ object[k].type = "object"
        /\ k \notin DOMAIN schema.properties}

Unwrapped(object, schema) ==
    IF Wrapper(object, schema) = {} THEN object
    ELSE object[CHOOSE k \in Wrapper(object, schema) : TRUE].members

\* validate_tool_call: is_executable, that it raises, validated_arguments, and
\* whether normalizations_applied is not empty.
Arguments(call, schemas) == Unwrapped(Parsed(call.source), schemas[call.tool])

Legible(call, schemas) == call.tool \in DOMAIN schemas /\ Parses(call.source)

raising(call, schemas) ==
    Legible(call, schemas) /\ Raises(Arguments(call, schemas), schemas[call.tool])

rejected(call, schemas) ==
    ~(Legible(call, schemas) /\ Valid(Arguments(call, schemas), schemas[call.tool]))

executable(call, schemas) == ~rejected(call, schemas) /\ ~raising(call, schemas)

validated(call, schemas) == RepairedArguments(Arguments(call, schemas), schemas[call.tool])

normalized(call, schemas) ==
    \/ call.source.form \in Mended
    \/ Wrapper(Parsed(call.source), schemas[call.tool]) # {}
    \/ validated(call, schemas) # Arguments(call, schemas)

\* The form in which the arguments go out: the validated ones if something was
\* repaired, the source otherwise, and an empty object for no source.
delivered(call, schemas) ==
    IF normalized(call, schemas) \/ call.source.form = "nothing" THEN "json"
    ELSE call.source.form

\* check_sanity: an answer has text or calls, and is not beyond the size limit.
Sane(answer) ==
    /\ answer.text \in {"some", "bomb"} \/ answer.calls # <<>>
    /\ answer.text # "bomb"

-----------------------------------------------------------------------------
(* What a validated call should be.                                        *)

\* The reference: required arguments are there, no disallowed ones, and every
\* value has the type its schema gives; below the first level where the
\* validator looks.
ConformsBelow(object, schema) ==
    /\ \A k \in schema.required : k \in DOMAIN object
    /\ schema.closed => \A k \in DOMAIN object : k \in DOMAIN schema.properties
    /\ \A k \in DOMAIN object : k \in DOMAIN schema.properties =>
            object[k].type \in Accepts(schema.properties[k])

Conforms(object, schema) ==
    /\ ConformsBelow(object, schema)
    /\ \A k \in DOMAIN object :
        k \in DOMAIN schema.properties /\ LooksInto(schema.properties[k], schema) =>
            ConformsBelow(object[k].members, schema.below)

=============================================================================
