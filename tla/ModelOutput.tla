----------------------------- MODULE ModelOutput -----------------------------
(***************************************************************************)
(* From the text a model wrote to a typed response: the output parser      *)
(* (runtime/src/parser.rs), the runtime's own capability parser            *)
(* (runtime/src/capability_parser.rs) and the two of capabilities/.        *)
(*                                                                         *)
(* A text is a sequence of pieces.  What the parsers tell apart is blank   *)
(* space, text without braces, a JSON value without braces, a JSON object, *)
(* and text from a '{' on that is no JSON object, without (Open) or with   *)
(* (Broken) a '}' in it.  An object is a function from its field names to tagged    *)
(* values.                                                                 *)
(***************************************************************************)
EXTENDS Sequences, FiniteSetsExt

Space == [kind |-> "space"]
Word == [kind |-> "word"]
Scalar == [kind |-> "scalar"]
Open == [kind |-> "open"]
Broken == [kind |-> "broken"]
Object(fields) == [kind |-> "object", fields |-> fields]

String(text) == [type |-> "string", text |-> text]
Bool(b) == [type |-> "bool", truth |-> b]

NoFields == << >>

\* What is tagged a bool is one; a text is a sequence of pieces.
IsPiece(piece) ==
  piece.kind = "object" =>
    \A name \in DOMAIN piece.fields :
      piece.fields[name].type = "bool" => piece.fields[name] \in {Bool(TRUE), Bool(FALSE)}

IsText(text) ==
  /\ text \in Seq({text[i] : i \in DOMAIN text})
  /\ \A i \in DOMAIN text : IsPiece(text[i])

(* str::trim *)
Trim(text) ==
  LET solid == {i \in DOMAIN text : text[i] # Space}
  IN  IF solid = {} THEN << >> ELSE SubSeq(text, Min(solid), Max(solid))

-----------------------------------------------------------------------------
(* The output parser *)

Classified(format, value, warnings) ==
  [format |-> format, value |-> value, warnings |-> warnings]

FieldsOf(piece) == IF piece.kind = "object" THEN piece.fields ELSE NoFields

(* extract_format: a whole JSON value, or the object the first '{' begins.  *)
ExtractFormat(text) ==
  LET trimmed == Trim(text)
      whole == {i \in DOMAIN trimmed : Len(trimmed) = 1 /\ trimmed[i].kind \in {"object", "scalar"}}
      braces == {i \in DOMAIN trimmed : trimmed[i].kind \in {"object", "open", "broken"}}
      first == {i \in braces : trimmed[i].kind = "object" /\ \A j \in braces : i <= j}
      closed == \E i \in braces : trimmed[i].kind # "open"
  IN  IF trimmed = << >> THEN Classified("empty", NoFields, {})
      ELSE IF whole \cup first # {}
           THEN Classified("json", FieldsOf(trimmed[CHOOSE i \in whole \cup first : TRUE]), {})
           ELSE Classified("text", NoFields,
                  (IF braces # {} THEN {"no object"} ELSE {})
                    \cup (IF braces # {} /\ ~closed THEN {"incomplete"} ELSE {}))

(* DefaultOutputParser::parse *)
ParseOutput(text) == [raw |-> text, output |-> ExtractFormat(text)]

-----------------------------------------------------------------------------
(* The responses and the parsers that make them.  A recommendation is a set *)
(* of at most one text.                                                     *)

BuildSummaryResponse(success, summary, recommendation) ==
  [capability |-> "BuildSummary", success |-> success, text |-> summary,
   recommendation |-> recommendation]

ExplainRustResponse(explanation) == [capability |-> "ExplainRust", text |-> explanation]

(* Value::get(field).and_then(as_str), and as_bool, or a default            *)
StringField(value, field, default) ==
  IF field \in DOMAIN value /\ value[field].type = "string" THEN value[field].text ELSE default

BoolField(value, field, default) ==
  IF field \in DOMAIN value /\ value[field].type = "bool" THEN value[field].truth ELSE default

\* Variant: answers in the form of what the model wrote, not of the request.
ParseByOutput(model, capability) ==
  IF "explanation" \in DOMAIN model.output.value
  THEN ExplainRustResponse(StringField(model.output.value, "explanation", model.raw))
  ELSE BuildSummaryResponse(model.raw # << >>, model.raw, {})

(* DefaultCapabilityResponseParser::parse *)
ParseDefault(model, capability) ==
  LET value == model.output.value
  IN  IF capability = "BuildSummary"
      THEN BuildSummaryResponse(
             model.raw # << >> /\ BoolField(value, "success", TRUE),
             StringField(value, "summary", model.raw), {})
      ELSE ExplainRustResponse(StringField(value, "explanation", model.raw))

(* BuildSummaryParser::parse; what it warns of is dropped with its clone of *)
(* the warnings.                                                            *)
ParseBuildSummary(model) ==
  LET value == model.output.value
      Recommended == "recommendation" \in DOMAIN value /\ value.recommendation.type = "string"
  IN  CASE model.output.format = "json" ->
             BuildSummaryResponse(
               BoolField(value, "success", FALSE),
               StringField(value, "summary", << >>),
               IF Recommended THEN {value.recommendation.text} ELSE {})
        [] model.output.format = "text" -> BuildSummaryResponse(TRUE, Trim(model.raw), {})
        [] model.output.format = "empty" -> BuildSummaryResponse(FALSE, << >>, {})

(* ExplainRustParser::parse *)
ParseExplainRust(model) ==
  IF model.output.format = "json"
  THEN ExplainRustResponse(StringField(model.output.value, "explanation", << >>))
  ELSE ExplainRustResponse(Trim(model.raw))

(* The parsers a pipeline may be built with                                 *)
ParseCapability(parser, model, capability) ==
  CASE parser = "default" -> ParseDefault(model, capability)
    [] parser = "build_summary" -> ParseBuildSummary(model)
    [] parser = "explain_rust" -> ParseExplainRust(model)
=============================================================================
