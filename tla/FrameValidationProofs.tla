------------------------ MODULE FrameValidationProofs ------------------------
(***************************************************************************)
(* Theorems of FrameValidation, for every frame: however many fields are at *)
(* fault together, and in whatever way.                                     *)
(***************************************************************************)
EXTENDS FrameValidation, TLAPS, WellFoundedInduction

-----------------------------------------------------------------------------
(* Fields and their faults *)

LEMMA FieldNames ==
    /\ DOMAIN FieldOrder = 1 .. 15
    /\ Fields = {"metaData", "conversationId", "callStartTimeStamp", "callEndTimeStamp", "eventType",
                 "metaExtra", "payload", "sequenceNumber", "speaker", "text", "isFinal",
                 "speakTimeStamp", "transcriptGenerateTimeStamp", "payloadExtra", "frameExtra"}
<1>1. DOMAIN FieldOrder = 1 .. 15
  BY DEF FieldOrder
<1>2. \A i \in 1 .. 15 : \/ i = 1 \/ i = 2 \/ i = 3 \/ i = 4 \/ i = 5 \/ i = 6 \/ i = 7 \/ i = 8
                         \/ i = 9 \/ i = 10 \/ i = 11 \/ i = 12 \/ i = 13 \/ i = 14 \/ i = 15
  OBVIOUS
<1>3. /\ FieldOrder[1] = "metaData" /\ FieldOrder[2] = "conversationId"
      /\ FieldOrder[3] = "callStartTimeStamp" /\ FieldOrder[4] = "callEndTimeStamp"
      /\ FieldOrder[5] = "eventType" /\ FieldOrder[6] = "metaExtra"
      /\ FieldOrder[7] = "payload" /\ FieldOrder[8] = "sequenceNumber"
      /\ FieldOrder[9] = "speaker" /\ FieldOrder[10] = "text" /\ FieldOrder[11] = "isFinal"
      /\ FieldOrder[12] = "speakTimeStamp" /\ FieldOrder[13] = "transcriptGenerateTimeStamp"
      /\ FieldOrder[14] = "payloadExtra" /\ FieldOrder[15] = "frameExtra"
  BY DEF FieldOrder
<1> QED
  BY <1>1, <1>2, <1>3 DEF Fields

\* A field's value is one of its own.
LEMMA FieldValues ==
    ASSUME NEW f \in Frames
    PROVE  /\ f["metaData"] \in {"object", "bad", "missing"}
           /\ f["payload"] \in {"object", "bad", "missing"}
           /\ f["conversationId"] \in {"own", "other", "bad", "missing"}
           /\ f["callStartTimeStamp"] \in {"utc", "lax", "bad", "missing"}
           /\ f["callEndTimeStamp"] \in {"utc", "lax", "bad", "null", "absent"}
           /\ f["speakTimeStamp"] \in {"utc", "lax", "bad", "null", "absent"}
           /\ f["transcriptGenerateTimeStamp"] \in {"utc", "lax", "bad", "null", "absent"}
           /\ f["eventType"] \in {Ongoing, Complete, "bad", "missing"}
           /\ f["sequenceNumber"] \in {"ok", "lax", "outside", "bad", "missing"}
           /\ f["text"] \in {"ok", "outside", "bad", "missing"}
           /\ f["speaker"] \in {"Agent", "Customer", "System", "bad", "missing"}
           /\ f["isFinal"] \in {"true", "false", "laxTrue", "laxFalse", "bad", "missing"}
           /\ f["metaExtra"] \in {"none", "extra"}
           /\ f["payloadExtra"] \in {"none", "extra"}
           /\ f["frameExtra"] \in {"none", "extra"}
<1>1. \A x \in Fields : f[x] \in Values(x)
  BY DEF Frames
<1> QED
  BY <1>1, FieldNames DEF Values, Timestamps

\* What pydantic converts, field by field.
LEMMA Conversion ==
    ASSUME NEW f \in Frames
    PROVE  /\ \A x \in Fields \ (Timestamps \cup {"sequenceNumber", "isFinal"}) : Converted(f)[x] = f[x]
           /\ \A x \in Timestamps : Converted(f)[x] = IF f[x] = "lax" THEN "utc" ELSE f[x]
           /\ Converted(f)["sequenceNumber"] =
                IF f["sequenceNumber"] = "lax" THEN "ok" ELSE f["sequenceNumber"]
           /\ Converted(f)["isFinal"] = CASE f["isFinal"] = "laxTrue"  -> "true"
                                         [] f["isFinal"] = "laxFalse" -> "false"
                                         [] OTHER -> f["isFinal"]
<1>1. \A x \in Fields \ (Timestamps \cup {"sequenceNumber", "isFinal"}) :
        f[x] \notin {"lax", "laxTrue", "laxFalse"}
  BY FieldValues, FieldNames DEF Timestamps, Ongoing, Complete
<1>2. \A x \in Timestamps \cup {"sequenceNumber"} : x \in Fields /\ f[x] \notin {"laxTrue", "laxFalse"}
  BY FieldValues, FieldNames DEF Timestamps
<1>3. "isFinal" \in Fields /\ f["isFinal"] # "lax" /\ "sequenceNumber" \notin Timestamps
  BY FieldValues, FieldNames DEF Timestamps
<1> QED
  BY <1>1, <1>2, <1>3 DEF Converted

LEMMA ConvertedFrame == \A f \in Frames : Converted(f) \in Frames
<1> SUFFICES ASSUME NEW f \in Frames PROVE Converted(f) \in Frames
  OBVIOUS
<1>1. \A x \in Fields : f[x] \in Values(x)
  BY DEF Frames
<1>2. \A x \in Timestamps : "utc" \in Values(x)
  BY DEF Values, Timestamps
<1>3. "ok" \in Values("sequenceNumber") /\ {"true", "false"} \subseteq Values("isFinal")
  BY DEF Values, Timestamps
<1>4. ASSUME NEW x \in Fields PROVE Converted(f)[x] \in Values(x)
  <2>1. CASE x \in Timestamps
    BY <1>1, <1>2, <2>1, Conversion
  <2>2. CASE x = "sequenceNumber"
    BY <1>1, <1>3, <2>2, Conversion
  <2>3. CASE x = "isFinal"
    BY <1>1, <1>3, <2>3, Conversion
  <2> QED
    BY <1>1, <2>1, <2>2, <2>3, Conversion
<1> QED
  BY <1>4 DEF Converted, Frames, AllValues

FieldKinds == {"missing", "extra_forbidden", "constraint", "datetime", "enum", "type"}

LEMMA Faults ==
    ASSUME NEW f, NEW x
    PROVE  /\ FaultOf(f, x) \in FieldKinds \cup {"none"}
           /\ FaultOf(f, x) = "none" <=>
                ~Reached(f, x) \/ f[x] \notin {"missing", "extra", "outside", "bad"}
BY DEF FaultOf, FieldKinds

\* A frame has no error exactly if both objects are there, no field that was
\* looked at has a faulty value, and the rules between fields hold.
LEMMA NoErrors ==
    ASSUME NEW f \in Frames
    PROVE  DOMAIN Errors(f) = {} <=>
             /\ \A x \in Fields : f[x] \notin {"missing", "extra", "outside", "bad"}
             /\ ~BreaksBusinessRule(Converted(f))
<1>1. f # NotObject
  BY InputsAssumption
<1>2. DOMAIN Errors(f) = {} <=> FieldErrors(f) = {} /\ ~BreaksBusinessRule(Converted(f))
  BY <1>1 DEF Errors, BrokenRule
<1>3. FieldErrors(f) = {} <=> \A x \in Fields : FaultOf(f, x) = "none"
  BY DEF FieldErrors, Fields
<1>4. ASSUME \A x \in Fields : FaultOf(f, x) = "none", NEW x \in Fields
      PROVE  f[x] \notin {"missing", "extra", "outside", "bad"}
  <2>1. \A y \in {"metaData", "payload"} : Reached(f, y) /\ y \in Fields
    BY FieldNames DEF Reached, MetaFields, PayloadFields
  <2>2. f["metaData"] = "object" /\ f["payload"] = "object"
    BY <1>4, <2>1, Faults, FieldValues
  <2>3. Reached(f, x)
    BY <2>2 DEF Reached
  <2> QED
    BY <1>4, <2>3, Faults
<1>5. (\A x \in Fields : f[x] \notin {"missing", "extra", "outside", "bad"}) =>
        \A x \in Fields : FaultOf(f, x) = "none"
  BY Faults
<1> QED
  BY <1>2, <1>3, <1>4, <1>5

-----------------------------------------------------------------------------
(* Classification *)

LEMMA FirstIsMember ==
    ASSUME NEW P, P \subseteq Nat, P # {}
    PROVE  First(P) \in P
<1> DEFINE Less == OpToRel(<, Nat)
<1>0. IsWellFoundedOn(Less, Nat)
  BY NatLessThanWellFounded
<1>1. \A j, i \in Nat : j < i => <<j, i>> \in Less
  BY DEF OpToRel
<1> HIDE DEF Less
<1>2. PICK i \in P : \A j \in P : ~(<<j, i>> \in Less)
  BY <1>0, WFMin
<1>3. \A j \in P : i <= j
  <2>1. ASSUME NEW j \in P PROVE ~(j < i)
    BY <1>1, <1>2, Zenon
  <2> QED
    BY <2>1
<1> QED
  BY <1>3 DEF First

\* The loop over the errors answers for one of them, or finds none it knows.
LEMMA ClassifyPicks ==
    ASSUME NEW e, DOMAIN e \subseteq Nat
    PROVE  \/ /\ \A i \in DOMAIN e : e[i] = "constraint"
              /\ Classify(e) = "MISSING_REQUIRED_FIELD"
           \/ \E i \in DOMAIN e : e[i] # "constraint" /\ Classify(e) = ScenarioOf(e[i])
<1> DEFINE known == {i \in DOMAIN e : e[i] # "constraint"}
<1>1. known # {} => First(known) \in known
  BY FirstIsMember
<1> QED
  BY <1>1 DEF Classify

\* What errors there are.
LEMMA ErrorsOf ==
    ASSUME NEW f
    PROVE  /\ DOMAIN Errors(f) \subseteq Nat
           /\ \A i \in DOMAIN Errors(f) :
                \/ Errors(f)[i] \in FieldKinds
                \/ /\ Errors(f)[i] = "value_error"
                   /\ BrokenRule(f)
<1>1. CASE f = NotObject
  BY <1>1 DEF Errors, FieldKinds
<1>2. CASE f # NotObject /\ BrokenRule(f)
  BY <1>2 DEF Errors
<1>3. CASE f # NotObject /\ ~BrokenRule(f)
  <2>1. Errors(f) = [i \in FieldErrors(f) |-> FaultOf(f, FieldOrder[i])]
    BY <1>3 DEF Errors
  <2>2. FieldErrors(f) \subseteq Nat
    BY FieldNames DEF FieldErrors
  <2>3. \A i \in FieldErrors(f) : FaultOf(f, FieldOrder[i]) \in FieldKinds
    BY Faults DEF FieldErrors
  <2> QED
    BY <2>1, <2>2, <2>3
<1> QED
  BY <1>1, <1>2, <1>3

\* Any fault is answered with an error.
LEMMA ClassifyRefuses ==
    ASSUME NEW f
    PROVE  Classify(Errors(f)) # "VALID"
BY ErrorsOf, ClassifyPicks DEF FieldKinds, ScenarioOf

-----------------------------------------------------------------------------
(* The two properties, of one input *)

\* The checks of the loop, of pydantic and of the business rules accept together
\* what reads as a frame of the contract's tables.
LEMMA ContractDecided ==
    ASSUME NEW f, f \in {NotJson, NotObject} \/ f \in Frames
    PROVE  AnswerTo(f) = "VALID" <=> f \notin {NotJson, NotObject} /\ MeetsContract(Converted(f))
<1>1. CASE f \in {NotJson, NotObject}
  <2>1. DOMAIN Errors(NotObject) # {}
    BY DEF Errors
  <2> QED
    BY <1>1, <2>1, ClassifyRefuses DEF AnswerTo
<1>2. CASE f \in Frames
  <2>1. f # NotJson /\ f # NotObject
    BY <1>2, InputsAssumption
  <2>2. AnswerTo(f) = "VALID" <=>
          /\ ~(f["metaData"] = "object" /\ f["conversationId"] = "other")
          /\ \A x \in Fields : f[x] \notin {"missing", "extra", "outside", "bad"}
          /\ ~BreaksBusinessRule(Converted(f))
    BY <1>2, <2>1, NoErrors, ClassifyRefuses DEF AnswerTo
  <2> DEFINE g == Converted(f)
  <2>3. (\A x \in Fields : f[x] \notin {"missing", "extra", "outside", "bad"}) <=>
          /\ f["metaData"] = "object" /\ f["payload"] = "object"
          /\ f["conversationId"] \in {"own", "other"}
          /\ f["callStartTimeStamp"] \in {"utc", "lax"}
          /\ f["callEndTimeStamp"] \in {"utc", "lax", "null", "absent"}
          /\ f["speakTimeStamp"] \in {"utc", "lax", "null", "absent"}
          /\ f["transcriptGenerateTimeStamp"] \in {"utc", "lax", "null", "absent"}
          /\ f["eventType"] \in {Ongoing, Complete}
          /\ f["sequenceNumber"] \in {"ok", "lax"} /\ f["text"] = "ok"
          /\ f["speaker"] \in {"Agent", "Customer", "System"}
          /\ f["isFinal"] \in {"true", "false", "laxTrue", "laxFalse"}
          /\ f["metaExtra"] = "none" /\ f["payloadExtra"] = "none" /\ f["frameExtra"] = "none"
    BY <1>2, FieldNames, FieldValues DEF Ongoing, Complete
  <2>4. /\ g["metaData"] = f["metaData"] /\ g["payload"] = f["payload"]
        /\ g["conversationId"] = f["conversationId"] /\ g["eventType"] = f["eventType"]
        /\ g["text"] = f["text"] /\ g["speaker"] = f["speaker"]
        /\ g["metaExtra"] = f["metaExtra"] /\ g["payloadExtra"] = f["payloadExtra"]
        /\ g["frameExtra"] = f["frameExtra"]
    BY <1>2, Conversion, FieldNames DEF Timestamps
  <2>5. /\ g["callStartTimeStamp"] = "utc" <=> f["callStartTimeStamp"] \in {"utc", "lax"}
        /\ g["sequenceNumber"] = "ok" <=> f["sequenceNumber"] \in {"ok", "lax"}
        /\ g["isFinal"] = "true" <=> f["isFinal"] \in {"true", "laxTrue"}
        /\ g["isFinal"] = "false" <=> f["isFinal"] \in {"false", "laxFalse"}
    BY <1>2, Conversion, FieldValues DEF Timestamps
  <2>6. \A x \in {"callEndTimeStamp", "speakTimeStamp", "transcriptGenerateTimeStamp"} :
          /\ g[x] = "utc" <=> f[x] \in {"utc", "lax"}
          /\ g[x] = "null" <=> f[x] = "null"
          /\ g[x] = "absent" <=> f[x] = "absent"
    BY <1>2, Conversion, FieldValues DEF Timestamps
  <2>7. g \notin {NotJson, NotObject}
    BY <1>2, ConvertedFrame, InputsAssumption
  <2> HIDE DEF g
  <2>8. (/\ ~(f["metaData"] = "object" /\ f["conversationId"] = "other")
         /\ \A x \in Fields : f[x] \notin {"missing", "extra", "outside", "bad"}
         /\ ~BreaksBusinessRule(g)) <=> MeetsContract(g)
    BY <2>3, <2>4, <2>5, <2>6, <2>7 DEF BreaksBusinessRule, MeetsContract, Ongoing, Complete
  <2> QED
    BY <2>1, <2>2, <2>8 DEF g
<1> QED
  BY <1>1, <1>2

\* An answer that is no constraint's names an error there is.
LEMMA FaultNamed ==
    ASSUME NEW f, f \in {NotJson, NotObject} \/ f \in Frames, AnswerTo(f) # "VALID"
    PROVE  \/ Names(AnswerTo(f), f)
           \/ /\ \A i \in DOMAIN Errors(f) : Errors(f)[i] = "constraint"
              /\ CodeOf(AnswerTo(f)) = "E1003"
<1>1. CASE f = NotJson
  BY <1>1 DEF AnswerTo, Names
<1>2. CASE f # NotJson /\ AnswerTo(f) = "CONVERSATION_ID_MISMATCH" /\ f["conversationId"] = "other"
  BY <1>2 DEF Names
<1>3. CASE AnswerTo(f) = Classify(Errors(f))
  <2>1. CASE \A i \in DOMAIN Errors(f) : Errors(f)[i] = "constraint"
    BY <1>3, <2>1, ErrorsOf, ClassifyPicks DEF CodeOf
  <2>2. ASSUME NEW i \in DOMAIN Errors(f), Errors(f)[i] # "constraint",
               AnswerTo(f) = ScenarioOf(Errors(f)[i])
        PROVE  Names(AnswerTo(f), f)
    <3>1. \/ Errors(f)[i] \in FieldKinds
          \/ /\ Errors(f)[i] = "value_error"
             /\ BrokenRule(f)
      BY ErrorsOf
    <3>2. HasFault(f, Errors(f)[i])
      BY DEF HasFault
    <3> QED
      BY <2>2, <3>1, <3>2 DEF FieldKinds, ScenarioOf, Names
  <2> QED
    BY <1>3, <2>1, <2>2, ErrorsOf, ClassifyPicks
<1> QED
  BY <1>1, <1>2, <1>3 DEF AnswerTo

-----------------------------------------------------------------------------
(* Every step answers the frame it received *)

FrameInv ==
    /\ inbound \in {NotJson, NotObject} \/ inbound \in Frames
    /\ answer = AnswerTo(inbound)
    /\ closed <=> answer # "VALID"

LEMMA FrameInduction == Spec => []FrameInv
<1>1. Init => FrameInv
  <2>1. WellFormed(Ongoing) \in Frames
    <3>1. \A x \in Fields : WellFormed(Ongoing)[x] \in Values(x)
      BY FieldNames DEF WellFormed, Values, Timestamps, Ongoing, Complete
    <3> QED
      BY <3>1 DEF WellFormed, Frames, AllValues
  <2>2. MeetsContract(WellFormed(Ongoing))
    <3> DEFINE w == WellFormed(Ongoing)
    <3>1. /\ w["metaData"] = "object" /\ w["payload"] = "object"
          /\ w["conversationId"] = "own" /\ w["callStartTimeStamp"] = "utc"
          /\ w["callEndTimeStamp"] = "null" /\ w["eventType"] = Ongoing
          /\ w["sequenceNumber"] = "ok" /\ w["text"] = "ok" /\ w["isFinal"] = "true"
          /\ w["metaExtra"] = "none" /\ w["payloadExtra"] = "none" /\ w["frameExtra"] = "none"
      BY FieldNames DEF WellFormed, Timestamps, Ongoing, Complete
    <3>2. /\ w["speaker"] = "Agent"
          /\ w["speakTimeStamp"] = "utc" /\ w["transcriptGenerateTimeStamp"] = "utc"
      BY FieldNames DEF WellFormed, Timestamps, Ongoing, Complete
    <3> HIDE DEF w
    <3>3. MeetsContract(w)
      BY <2>1, <3>1, <3>2, InputsAssumption DEF MeetsContract, w
    <3> QED
      BY <3>3 DEF w
  <2>3. Converted(WellFormed(Ongoing)) = WellFormed(Ongoing)
    <3>1. \A x \in Fields : WellFormed(Ongoing)[x] \notin {"lax", "laxTrue", "laxFalse"}
      BY FieldNames DEF WellFormed, Timestamps, Ongoing, Complete
    <3>2. WellFormed(Ongoing) = [x \in Fields |-> WellFormed(Ongoing)[x]]
      BY DEF WellFormed
    <3> QED
      BY <3>1, <3>2 DEF Converted
  <2>4. WellFormed(Ongoing) \notin {NotJson, NotObject}
    BY <2>1, InputsAssumption
  <2> QED
    BY <2>1, <2>2, <2>3, <2>4, ContractDecided DEF Init, FrameInv
<1>2. FrameInv /\ [Next]_frameVars => FrameInv'
  <2>1. ASSUME NEW f \in Inputs, ReceiveFrame(f) PROVE FrameInv'
    <3>1. f \in {NotJson, NotObject} \/ f \in Frames
      BY InputsAssumption
    <3>2. inbound' = f /\ answer' = AnswerTo(f) /\ (closed' <=> AnswerTo(f) # "VALID")
      BY <2>1 DEF ReceiveFrame
    <3> QED
      BY <3>1, <3>2 DEF FrameInv
  <2>2. FrameInv /\ UNCHANGED frameVars => FrameInv'
    BY DEF FrameInv, frameVars
  <2> QED
    BY <2>1, <2>2 DEF Next
<1> QED
  BY <1>1, <1>2, PTL DEF Spec

\* A frame reaches prepare, and its connection goes on, exactly if it reads as one
\* of the contract's, whatever else a client may put into it.
THEOREM AcceptsWhatReadsAsContract == Spec => []AcceptedIffReadsAsContract
<1>1. FrameInv => AcceptedIffReadsAsContract
  BY ContractDecided DEF FrameInv, AcceptedIffReadsAsContract
<1> QED
  BY <1>1, FrameInduction, PTL

\* The error code of a refused frame names a fault it has, or all its faults are
\* of length or range.
THEOREM ErrorsAreNamed == Spec => []KnownFaultIsNamed
<1>1. FrameInv => KnownFaultIsNamed
  BY FaultNamed DEF FrameInv, KnownFaultIsNamed
<1> QED
  BY <1>1, FrameInduction, PTL
=============================================================================
