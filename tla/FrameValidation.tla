--------------------------- MODULE FrameValidation ---------------------------
(***************************************************************************)
(* What a session answers to one inbound frame before anything downstream   *)
(* is called: the JSON and conversationId checks of the message loop        *)
(* (transport/session.py), the validation of InboundMessage                 *)
(* (schemas/request.py), and the mapping of its errors to an error scenario *)
(* (orchestrator/two_phase.py, schemas/error_scenarios.py).                 *)
(*                                                                         *)
(* A frame says of every field only what validation tells apart.  pydantic  *)
(* is external: it reports the errors of the fields in their declared order *)
(* (those of an unknown key last) and runs an `after' validator only when   *)
(* there are none.  The models do not ask for its strict mode, so a value   *)
(* of another type is converted where pydantic knows how.                   *)
(***************************************************************************)
EXTENDS Naturals, Sequences

CONSTANTS
    NotJson,     \* a text that is not JSON
    NotObject,   \* JSON, but not an object
    Inputs       \* what clients may send: these two and frames

Ongoing == "SESSION_ONGOING"
Complete == "SESSION_COMPLETE"

Timestamps == {"callStartTimeStamp", "callEndTimeStamp", "speakTimeStamp",
               "transcriptGenerateTimeStamp"}
MetaFields == {"conversationId", "callStartTimeStamp", "callEndTimeStamp", "eventType", "metaExtra"}
PayloadFields == {"sequenceNumber", "speaker", "text", "isFinal", "speakTimeStamp",
                  "transcriptGenerateTimeStamp", "payloadExtra"}

\* The order in which pydantic meets the fields; `text' stands for transcript,
\* engineProvider and dialect, the Extra ones for a key that is not declared.
FieldOrder ==
    <<"metaData", "conversationId", "callStartTimeStamp", "callEndTimeStamp", "eventType",
      "metaExtra", "payload", "sequenceNumber", "speaker", "text", "isFinal",
      "speakTimeStamp", "transcriptGenerateTimeStamp", "payloadExtra", "frameExtra">>

\* "bad": a value that cannot be read as the field's type, of no member, or not a
\* UTC time; "outside": a string beyond max_length, a negative sequenceNumber.
\* "lax": a value the contract does not allow but pydantic reads as one it does: a
\* sequenceNumber "5" or 5.0, a time given as a number of seconds or spelt with
\* more than 32 characters; likewise isFinal "true" or 1, and "false" or 0.
Values(x) ==
    CASE x \in {"metaData", "payload"}            -> {"object", "bad", "missing"}
      [] x = "conversationId"                     -> {"own", "other", "bad", "missing"}
      [] x = "callStartTimeStamp"                 -> {"utc", "lax", "bad", "missing"}
      [] x \in Timestamps \ {"callStartTimeStamp"} -> {"utc", "lax", "bad", "null", "absent"}
      [] x = "eventType"                          -> {Ongoing, Complete, "bad", "missing"}
      [] x = "sequenceNumber"                     -> {"ok", "lax", "outside", "bad", "missing"}
      [] x = "text"                               -> {"ok", "outside", "bad", "missing"}
      [] x = "speaker"                            -> {"Agent", "Customer", "System", "bad", "missing"}
      [] x = "isFinal"                            -> {"true", "false", "laxTrue", "laxFalse", "bad", "missing"}
      [] OTHER                                    -> {"none", "extra"}

Fields == {FieldOrder[i] : i \in DOMAIN FieldOrder}

AllValues == UNION {Values(x) : x \in Fields}

\* Any combination of fields may be at fault.
Frames == {f \in [Fields -> AllValues] : \A x \in Fields : f[x] \in Values(x)}

ASSUME InputsAssumption ==
    /\ NotJson # NotObject /\ NotJson \notin Frames /\ NotObject \notin Frames
    /\ \A f \in Inputs : f \in {NotJson, NotObject} \/ f \in Frames

\* The well-formed frames of the contract: a transcript and the end of a call.
WellFormed(event) ==
    [x \in Fields |->
        CASE x \in {"metaData", "payload"} -> "object"
          [] x = "conversationId"          -> "own"
          [] x = "callStartTimeStamp"      -> "utc"
          [] x = "callEndTimeStamp"        -> IF event = Complete THEN "utc" ELSE "null"
          [] x \in {"speakTimeStamp", "transcriptGenerateTimeStamp"} ->
               IF event = Complete THEN "absent" ELSE "utc"
          [] x = "eventType"               -> event
          [] x = "speaker"                 -> IF event = Complete THEN "System" ELSE "Agent"
          [] x = "isFinal"                 -> "true"
          [] x \in {"sequenceNumber", "text"} -> "ok"
          [] OTHER                         -> "none"]

-----------------------------------------------------------------------------
\* Fields inside a metaData or payload that is no object are not looked at.
Reached(f, x) ==
    /\ x \in MetaFields => f["metaData"] = "object"
    /\ x \in PayloadFields => f["payload"] = "object"

\* The type of pydantic's error for a field, as far as the mapping tells apart.
FaultOf(f, x) ==
    IF ~Reached(f, x) THEN "none"
    ELSE CASE f[x] = "missing" -> "missing"
           [] f[x] = "extra"   -> "extra_forbidden"
           [] f[x] = "outside" -> "constraint"
           [] f[x] = "bad" /\ x \in Timestamps -> "datetime"
           [] f[x] = "bad" /\ x \in {"eventType", "speaker"} -> "enum"
           [] f[x] = "bad" /\ x \notin Timestamps \cup {"eventType", "speaker"} -> "type"
           [] OTHER -> "none"

\* The positions, in FieldOrder, of the fields at fault.
FieldErrors(f) == {i \in DOMAIN FieldOrder : FaultOf(f, FieldOrder[i]) # "none"}

\* The model that model_validate builds of a frame without field errors.
Converted(f) ==
    [x \in Fields |->
        CASE f[x] = "lax" /\ x \in Timestamps       -> "utc"
          [] f[x] = "lax" /\ x = "sequenceNumber"    -> "ok"
          [] f[x] = "laxTrue"                        -> "true"
          [] f[x] = "laxFalse"                       -> "false"
          [] OTHER                                   -> f[x]]

\* Faulty variant of BreaksBusinessRule: a null timestamp passes for an omitted one.
NullTolerantBreaksBusinessRule(f) ==
    \/ f["eventType"] = Ongoing /\ (f["callEndTimeStamp"] = "utc" \/ f["speaker"] = "System"
            \/ f["speakTimeStamp"] # "utc" \/ f["transcriptGenerateTimeStamp"] # "utc")
    \/ f["eventType"] = Complete /\ (f["callEndTimeStamp"] # "utc" \/ f["speaker"] # "System"
            \/ f["speakTimeStamp"] = "utc" \/ f["transcriptGenerateTimeStamp"] = "utc")
    \/ f["isFinal"] = "false"

\* InboundMessage._check_business_rules raises on the validated model f.
BreaksBusinessRule(f) ==
    \/ /\ f["eventType"] = Ongoing
       /\ \/ f["callEndTimeStamp"] \notin {"null", "absent"}
          \/ f["speaker"] \notin {"Agent", "Customer"}
          \/ f["speakTimeStamp"] \in {"null", "absent"}
          \/ f["transcriptGenerateTimeStamp"] \in {"null", "absent"}
    \/ /\ f["eventType"] = Complete
       /\ \/ f["callEndTimeStamp"] \in {"null", "absent"}
          \/ f["speaker"] # "System"
          \/ f["speakTimeStamp"] # "absent"
          \/ f["transcriptGenerateTimeStamp"] # "absent"
    \/ f["isFinal"] = "false"

\* The fields are all right, and the rules between them are not met.
BrokenRule(f) == FieldErrors(f) = {} /\ BreaksBusinessRule(Converted(f))

\* ValidationError.errors(): the type of every error, by its position.
Errors(f) ==
    IF f = NotObject THEN [i \in {1} |-> "type"]
    ELSE IF BrokenRule(f) THEN [i \in {1} |-> "value_error"]
    ELSE [i \in FieldErrors(f) |-> FaultOf(f, FieldOrder[i])]

ScenarioOf(k) ==
    CASE k = "datetime"                    -> "INVALID_TIMESTAMP_FORMAT"
      [] k = "missing"                     -> "MISSING_REQUIRED_FIELD"
      [] k = "enum"                        -> "INVALID_ENUM_VALUE"
      [] k \in {"extra_forbidden", "type"} -> "INVALID_FIELD_TYPE"
      [] k = "value_error"                 -> "BUSINESS_RULE_VIOLATION"

First(P) == CHOOSE i \in P : \A j \in P : i <= j

\* Faulty variant of Classify: only the first error is looked at.
FirstOnlyClassify(errors) ==
    LET k == errors[First(DOMAIN errors)]
    IN  IF k = "constraint" THEN "MISSING_REQUIRED_FIELD" ELSE ScenarioOf(k)

\* _classify_validation_error: the first error of a known type; the types of a
\* length or range violation are not among them.
Classify(errors) ==
    LET known == {i \in DOMAIN errors : errors[i] # "constraint"}
    IN  IF known = {} THEN "MISSING_REQUIRED_FIELD" ELSE ScenarioOf(errors[First(known)])

\* The message loop's own checks, in their order, then handle_message.
AnswerTo(f) ==
    IF f = NotJson THEN "INVALID_JSON"
    ELSE IF f # NotObject /\ f["metaData"] = "object" /\ f["conversationId"] = "other"
           THEN "CONVERSATION_ID_MISMATCH"
    ELSE LET errors == Errors(f) IN IF DOMAIN errors # {} THEN Classify(errors) ELSE "VALID"

\* ProtocolErrorScenario: the application code of each of these answers.
CodeOf(a) ==
    CASE a = "INVALID_JSON"             -> "E1001"
      [] a = "INVALID_ENUM_VALUE"       -> "E1002"
      [] a = "MISSING_REQUIRED_FIELD"   -> "E1003"
      [] a = "INVALID_FIELD_TYPE"       -> "E1004"
      [] a = "INVALID_TIMESTAMP_FORMAT" -> "E1005"
      [] a \in {"CONVERSATION_ID_MISMATCH", "BUSINESS_RULE_VIOLATION"} -> "E1009"

-----------------------------------------------------------------------------
VARIABLES
    inbound,   \* the last frame received
    answer,    \* the scenario it is answered with, or VALID
    closed     \* the connection has been closed after an ERROR frame

frameVars == <<inbound, answer, closed>>

Init == inbound = WellFormed(Ongoing) /\ answer = "VALID" /\ closed = FALSE

\* A frame is received and either goes on to prepare or closes the connection.
ReceiveFrame(f) ==
    /\ ~closed
    /\ inbound' = f
    /\ answer' = AnswerTo(f)
    /\ closed' = (answer' # "VALID")

Next == \E f \in Inputs : ReceiveFrame(f)

Spec == Init /\ [][Next]_frameVars

-----------------------------------------------------------------------------
(***************************************************************************)
(* Properties                                                              *)
(***************************************************************************)

\* The contract's tables and rules (api-contract.md 2.2 and 2.3): every field of
\* its type and within its length, the rules between fields met.
MeetsContract(f) ==
    /\ f \notin {NotJson, NotObject}
    /\ f["metaData"] = "object" /\ f["payload"] = "object"
    /\ f["conversationId"] = "own" /\ f["callStartTimeStamp"] = "utc"
    /\ f["sequenceNumber"] = "ok" /\ f["text"] = "ok" /\ f["isFinal"] = "true"
    /\ \A x \in {"metaExtra", "payloadExtra", "frameExtra"} : f[x] = "none"
    /\ \/ /\ f["eventType"] = Ongoing /\ f["speaker"] \in {"Agent", "Customer"}
          /\ f["callEndTimeStamp"] \in {"null", "absent"}
          /\ f["speakTimeStamp"] = "utc" /\ f["transcriptGenerateTimeStamp"] = "utc"
       \/ /\ f["eventType"] = Complete /\ f["speaker"] = "System"
          /\ f["callEndTimeStamp"] = "utc"
          /\ f["speakTimeStamp"] = "absent" /\ f["transcriptGenerateTimeStamp"] = "absent"

\* A frame goes on to prepare, and keeps its connection, exactly if it reads as one
\* of the contract's once its values are converted, however many fields are at
\* fault or in need of conversion together: conversion decides no rule, and makes up
\* for no missing, unknown, overlong or unreadable field.  That it goes on although
\* the frame as sent is none of the contract's is what the code does (pydantic's
\* default mode, two_phase.py:108), and not what api-contract.md:403-404 says:
\* "Field type mismatch", "Timestamp not valid ISO-8601 UTC" are to be errors.
AcceptedIffReadsAsContract ==
    /\ answer = "VALID" <=>
         inbound \notin {NotJson, NotObject} /\ MeetsContract(Converted(inbound))
    /\ closed <=> answer # "VALID"

HasFault(f, k) == \E i \in DOMAIN Errors(f) : Errors(f)[i] = k

\* What each code tells the client is wrong with its frame (api-contract.md 4.3.3).
Names(a, f) ==
    CASE a = "INVALID_JSON"             -> f = NotJson
      [] a = "CONVERSATION_ID_MISMATCH" -> f["conversationId"] = "other"
      [] a = "INVALID_ENUM_VALUE"       -> HasFault(f, "enum")
      [] a = "MISSING_REQUIRED_FIELD"   -> HasFault(f, "missing")
      [] a = "INVALID_FIELD_TYPE"       -> HasFault(f, "type") \/ HasFault(f, "extra_forbidden")
      [] a = "INVALID_TIMESTAMP_FORMAT" -> HasFault(f, "datetime")
      [] a = "BUSINESS_RULE_VIOLATION"  -> BrokenRule(f)
      [] OTHER                          -> TRUE

\* The answer names a fault the frame has, unless all its faults are of length or
\* range, which come out as E1003: a fault of a kind the codes know is never hidden
\* behind one they do not.
KnownFaultIsNamed ==
    answer # "VALID" =>
        \/ Names(answer, inbound)
        \/ /\ \A i \in DOMAIN Errors(inbound) : Errors(inbound)[i] = "constraint"
           /\ CodeOf(answer) = "E1003"
=============================================================================
