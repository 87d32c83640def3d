----------------------- MODULE WeldingRecognition_proofs -----------------------
(***************************************************************************)
(* Proofs about WeldingRecognition: for any number of calls, frames and    *)
(* configurations one call is inside at a time, the counter is given back, *)
(* nothing is decided with bounds that nobody has configured, the newest   *)
(* setting survives the channel, and one flash is never welding.           *)
(***************************************************************************)
EXTENDS WeldingRecognition, FiniteSetTheorems, TLAPS

Busy == {h \in Calls : pc[h] # "idle"}

\* The counter is the number of calls between its increment and its decrement.
CounterExact == running = Cardinality(Busy)

\* Nobody but the first is let in.
OneInside == \A g, h \in Inside : g = h

\* What a configuration has assigned so far is in the model.
BoundsKnown ==
  /\ model.on => model.w \in Bounds /\ model.n \in Bounds
  /\ \/ news.left = <<>>
     \/ /\ news.config \in Config
        /\ \/ news.left = <<"w", "n", "on", "low", "high">>
           \/ news.left = <<"n", "on", "low", "high">> /\ model.w \in Bounds
           \/ /\ news.left \in {<<"on", "low", "high">>, <<"low", "high">>, <<"high">>}
              /\ model.w \in Bounds /\ model.n \in Bounds
  /\ \A h \in Calls : pc[h] = "deciding" => model.w \in Bounds /\ model.n \in Bounds

Types ==
  /\ running \in Nat
  /\ pc \in [Calls -> {"idle", "looking", "deciding", "leaving"}]
  /\ model \in Model

\* The newest setting is the current one, wherever it is on its way.
NewestIsApplied ==
  /\ channel = <<>> \/ channel = <<applied>>
  /\ sender.holds = <<>> \/ Len(sender.holds) = 1
  /\ channel = <<>> /\ sender.holds # <<>> => Head(sender.holds) = applied
  /\ CameraToldApplied

IInv ==
  Types /\ CounterExact /\ OneInside /\ BoundsKnown /\ NewestIsApplied

-----------------------------------------------------------------------------
LEMMA BusyFinite == IsFiniteSet(Busy)
BY CallsAssumption, FS_Subset DEF Busy

LEMMA InitHolds == Init => IInv
<1> SUFFICES ASSUME Init PROVE IInv
  OBVIOUS
<1>1. Types
  BY DEF Init, Types, Model, Unset
<1>2. CounterExact
  <2>1. Busy = {}
    BY DEF Init, Busy
  <2> QED BY <2>1, FS_EmptySet DEF Init, CounterExact
<1>3. OneInside
  BY DEF Init, OneInside, Inside
<1>4. BoundsKnown
  BY DEF Init, BoundsKnown, Unset
<1>5. NewestIsApplied
  BY DEF Init, NewestIsApplied, CameraToldApplied
<1> QED BY <1>1, <1>2, <1>3, <1>4, <1>5 DEF IInv

\* The step of one call, and everybody else's.
Handle(h) ==
  \/ \E count \in Count, alone \in BOOLEAN : Enter(h, count, alone)
  \/ LookAlone(h) \/ Look(h) \/ Decide(h) \/ Leave(h)

-----------------------------------------------------------------------------
(* The counter and the types.                                              *)

LEMMA CounterStep == IInv /\ [Next]_vars => CounterExact' /\ OneInside'
<1> SUFFICES ASSUME IInv, [Next]_vars PROVE CounterExact' /\ OneInside'
  OBVIOUS
<1>0. Types /\ running = Cardinality(Busy) /\ OneInside
  BY DEF IInv, CounterExact
<1>1. ASSUME NEW h \in Calls, NEW count, NEW alone, Enter(h, count, alone)
      PROVE  CounterExact' /\ OneInside'
  <2>0. PICK to \in {"looking", "leaving"} : pc' = [pc EXCEPT ![h] = to]
    BY <1>1 DEF Enter
  <2>1. Busy' = Busy \cup {h} /\ h \notin Busy
    BY <1>0, <1>1, <2>0 DEF Enter, Types, Busy
  <2>2. Cardinality(Busy') = Cardinality(Busy) + 1
    BY <2>1, BusyFinite, FS_AddElement
  <2>3. CounterExact'
    BY <1>0, <1>1, <2>2 DEF Enter, CounterExact
  <2>4. CASE running = 0
    <3>1. Busy = {}
      BY <1>0, <2>4, BusyFinite, FS_EmptySet
    <3>2. Inside' \subseteq {h}
      BY <1>0, <1>1, <3>1 DEF Enter, Types, Busy, Inside
    <3> QED BY <2>3, <3>2 DEF OneInside
  <2>5. CASE running # 0
    <3>0. ~First
      BY <1>0, <1>1, <2>5 DEF Enter, First, Types
    <3>1. pc' = [pc EXCEPT ![h] = "leaving"]
      BY <1>1, <3>0 DEF Enter
    <3>2. Inside' \subseteq Inside
      BY <1>0, <3>1 DEF Types, Inside
    <3> QED BY <1>0, <2>3, <3>2 DEF OneInside
  <2> QED BY <2>4, <2>5
<1>2. ASSUME NEW h \in Calls, LookAlone(h) \/ Look(h) \/ Decide(h)
      PROVE  CounterExact' /\ OneInside'
  <2>1. running' = running
    BY <1>2 DEF LookAlone, Look, Decide
  <2>2. PICK to \in {"leaving", "deciding"} : pc' = [pc EXCEPT ![h] = to]
    BY <1>2 DEF LookAlone, Look, Decide
  <2>3. pc[h] \in {"looking", "deciding"}
    BY <1>2 DEF LookAlone, Look, Decide
  <2>4. Busy' = Busy /\ Inside' \subseteq Inside
    BY <1>0, <2>2, <2>3 DEF Types, Busy, Inside
  <2> QED BY <1>0, <2>1, <2>4 DEF CounterExact, OneInside
<1>3. ASSUME NEW h \in Calls, Leave(h) PROVE CounterExact' /\ OneInside'
  <2>1. Busy' = Busy \ {h} /\ h \in Busy /\ Inside' \subseteq Inside
    BY <1>0, <1>3 DEF Leave, Types, Busy, Inside
  <2>2. Cardinality(Busy') = Cardinality(Busy) - 1
    BY <2>1, BusyFinite, FS_RemoveElement
  <2> QED BY <1>0, <1>3, <2>1, <2>2 DEF Leave, CounterExact, OneInside
<1>4. ASSUME UNCHANGED callVars PROVE CounterExact' /\ OneInside'
  BY <1>0, <1>4 DEF callVars, CounterExact, OneInside, Busy, Inside
<1>5. \/ \E h \in Calls : Handle(h)
      \/ UNCHANGED callVars
  BY DEF Next, Handle, Configure, Assign, Load, SendDefault, OthersSend, Take, Process, SenderEnds,
         Dispose, vars
<1>6. CASE \E h \in Calls : Handle(h)
  BY <1>1, <1>2, <1>3, <1>6 DEF Handle
<1> QED BY <1>4, <1>5, <1>6

\* Given assigns one field after the other, and the model keeps its type.
LEMMA AssignCases ==
  ASSUME IInv, Assign
  PROVE  pc' = pc /\ model' \in Model /\ BoundsKnown'
<1>0. /\ Types /\ BoundsKnown /\ pc' = pc
      /\ news.config \in Config /\ news.config \in Model
      /\ \A h \in Calls : pc[h] = "deciding" => model.w \in Bounds /\ model.n \in Bounds
  BY BoundsAssumption DEF IInv, BoundsKnown, Assign, callVars, Config, Model
<1>1. /\ model' = [model EXCEPT ![Head(news.left)] = news.config[Head(news.left)]]
      /\ news'.left = Tail(news.left) /\ news'.config = news.config
  BY DEF Assign
<1>2. ASSUME NEW field \in Fields, Head(news.left) = field
      PROVE  /\ model' \in Model
             /\ \A other \in Fields \ {field} : model'[other] = model[other]
             /\ model'[field] = news.config[field]
  <2>1. model' = [model EXCEPT ![field] = news.config[field]]
    BY <1>1, <1>2
  <2>2. model \in Model /\ news.config \in Model
    BY <1>0 DEF Types
  <2> QED BY <2>1, <2>2 DEF Fields, Model
<1>3. CASE news.left = <<"w", "n", "on", "low", "high">>
  <2>1. Head(news.left) = "w" /\ Tail(news.left) = <<"n", "on", "low", "high">>
    BY <1>3
  <2>2. /\ model' \in Model /\ model'.w = news.config.w
        /\ model'.n = model.n /\ model'.on = model.on
    BY <1>2, <2>1 DEF Fields
  <2> QED BY <1>0, <1>1, <2>1, <2>2 DEF BoundsKnown, Config
<1>4. CASE news.left = <<"n", "on", "low", "high">> /\ model.w \in Bounds
  <2>1. Head(news.left) = "n" /\ Tail(news.left) = <<"on", "low", "high">>
    BY <1>4
  <2>2. /\ model' \in Model /\ model'.w = model.w
        /\ model'.n = news.config.n /\ model'.on = model.on
    BY <1>2, <2>1 DEF Fields
  <2> QED BY <1>0, <1>1, <1>4, <2>1, <2>2 DEF BoundsKnown, Config
<1>5. CASE /\ news.left \in {<<"on", "low", "high">>, <<"low", "high">>, <<"high">>}
           /\ model.w \in Bounds /\ model.n \in Bounds
  <2>1. /\ Head(news.left) \in {"on", "low", "high"}
        /\ Tail(news.left) \in {<<"low", "high">>, <<"high">>, <<>>}
    <3>1. CASE news.left = <<"on", "low", "high">>
      BY <3>1
    <3>2. CASE news.left = <<"low", "high">>
      BY <3>2
    <3>3. CASE news.left = <<"high">>
      BY <3>3
    <3> QED BY <1>5, <3>1, <3>2, <3>3
  <2>2. model' \in Model /\ model'.w = model.w /\ model'.n = model.n
    BY <1>2, <2>1 DEF Fields
  <2> QED BY <1>0, <1>1, <1>5, <2>1, <2>2 DEF BoundsKnown
<1> QED BY <1>0, <1>3, <1>4, <1>5 DEF BoundsKnown, Assign

\* Nothing but Given touches the model.
LEMMA BoundsStep == IInv /\ [Next]_vars => Types' /\ BoundsKnown'
<1> SUFFICES ASSUME IInv, [Next]_vars PROVE Types' /\ BoundsKnown'
  OBVIOUS
<1>0. Types /\ BoundsKnown /\ CounterExact
  BY DEF IInv
<1>a. running' \in Nat
  BY CounterStep, FS_CardinalityType, CallsAssumption, FS_Subset DEF CounterExact, Busy
<1>1. ASSUME NEW h \in Calls, Handle(h) PROVE Types' /\ BoundsKnown'
  <2>1. model' = model /\ news' = news
    BY <1>1 DEF Handle, Enter, LookAlone, Look, Decide, Leave, storeVars
  <2>2. PICK to \in {"idle", "looking", "deciding", "leaving"} :
             /\ pc' = [pc EXCEPT ![h] = to]
             /\ to = "deciding" => model.on
    BY <1>1 DEF Handle, Enter, LookAlone, Look, Decide, Leave
  <2>3. Types'
    BY <1>0, <1>a, <2>1, <2>2 DEF Types
  <2> QED BY <1>0, <2>1, <2>2, <2>3 DEF Types, BoundsKnown
<1>2. ASSUME NEW config \in Config, Configure(config) PROVE Types' /\ BoundsKnown'
  <2>1. pc' = pc /\ model' = model
    BY <1>2 DEF Configure, callVars
  <2>2. news'.config \in Config /\ news'.left = <<"w", "n", "on", "low", "high">>
    BY <1>2 DEF Configure, FieldOrder
  <2> QED BY <1>0, <1>a, <2>1, <2>2 DEF Types, BoundsKnown
<1>3. CASE Assign
  BY <1>0, <1>a, <1>3, AssignCases DEF Types
<1>4. ASSUME UNCHANGED <<pc, model, news>> PROVE Types' /\ BoundsKnown'
  BY <1>0, <1>a, <1>4 DEF Types, BoundsKnown
<1>5. \/ \E h \in Calls : Handle(h)
      \/ \E config \in Config : Configure(config)
      \/ Assign
      \/ UNCHANGED <<pc, model, news>>
  BY DEF Next, Handle, Load, SendDefault, OthersSend, Take, Process, SenderEnds, Dispose, vars,
         callVars, storeVars
<1> QED BY <1>1, <1>2, <1>3, <1>4, <1>5

-----------------------------------------------------------------------------
(* The way of a setting.                                                   *)

LEMMA NewestStep == IInv /\ [Next]_vars => NewestIsApplied'
<1> SUFFICES ASSUME IInv, [Next]_vars PROVE NewestIsApplied'
  OBVIOUS
<1>0. NewestIsApplied
  BY DEF IInv
<1> USE DEF NewestIsApplied, CameraToldApplied
<1>1. ASSUME NEW h \in Calls, NEW profile, Decide(h), Switch(profile)
      PROVE  NewestIsApplied'
  <2>1. channel' = <<applied'>> /\ sender' = sender
    BY <1>1 DEF Decide, Switch, Write, senderVars
  <2> QED BY <1>0, <2>1
<1>2. CASE SendDefault \/ OthersSend
  BY <1>0, <1>2 DEF SendDefault, OthersSend, decisionVars
<1>3. CASE Take
  <2>1. channel = <<applied>> /\ sender'.holds = channel /\ applied' = applied
    BY <1>0, <1>3 DEF Take
  <2> QED BY <1>3, <2>1 DEF Take
<1>4. CASE Process
  <2>1. /\ sent' = Head(sender.holds) /\ sender'.holds = <<>>
        /\ channel' = channel /\ applied' = applied
    BY <1>4 DEF Process, decisionVars
  <2> QED BY <1>0, <1>4, <2>1 DEF Process
<1>5. CASE SenderEnds
  BY <1>0, <1>5 DEF SenderEnds, decisionVars
<1>6. ASSUME UNCHANGED <<channel, applied, sender, sent, overruled>>
      PROVE  NewestIsApplied'
  BY <1>0, <1>6
<1>7. \/ \E h \in Calls : \E profile \in Profiles : Decide(h) /\ Switch(profile)
      \/ SendDefault \/ OthersSend \/ Take \/ Process \/ SenderEnds
      \/ UNCHANGED <<channel, applied, sender, sent, overruled>>
  <2>1. ASSUME NEW h \in Calls, Decide(h)
        PROVE  \/ \E profile \in Profiles : Decide(h) /\ Switch(profile)
               \/ UNCHANGED <<channel, applied, sender, sent, overruled>>
    BY <2>1 DEF Decide, Profiles, decisionVars, senderVars
  <2>2. ASSUME NEW h \in Calls, NEW count, NEW alone,
               Enter(h, count, alone) \/ LookAlone(h) \/ Look(h) \/ Leave(h)
        PROVE  UNCHANGED <<channel, applied, sender, sent, overruled>>
    BY <2>2 DEF Enter, LookAlone, Look, Leave, decisionVars, senderVars
  <2> QED BY <2>1, <2>2 DEF Next, Configure, Assign, Load, Dispose, vars,
                            decisionVars, senderVars
<1> QED BY <1>1, <1>2, <1>3, <1>4, <1>5, <1>6, <1>7

LEMMA Invariance == Spec => []IInv
<1>1. IInv /\ [Next]_vars => IInv'
  BY CounterStep, BoundsStep, NewestStep DEF IInv
<1> QED BY InitHolds, <1>1, PTL DEF Spec

-----------------------------------------------------------------------------
(* The types of all variables.                                             *)

LEMMA LesserType ==
  ASSUME NEW a \in Count, NEW b \in Count
  PROVE  Both(a, b) \in Count
BY LevelAssumption DEF Count, Both, Lesser

LEMMA AddLastType ==
  ASSUME NEW S, NEW buffer \in Seq(S), NEW x \in S, Len(buffer) <= Window
  PROVE  /\ AddLast(buffer, x) \in Seq(S)
         /\ Len(AddLast(buffer, x)) =
              IF Len(buffer) = Window THEN Window ELSE Len(buffer) + 1
         /\ Len(AddLast(buffer, x)) <= Window
<1>1. CASE Len(buffer) = Window
  <2>1. buffer # <<>>
    BY <1>1, WindowAssumption
  <2>2. Tail(buffer) \in Seq(S) /\ Len(Tail(buffer)) = Window - 1
    BY <1>1, <2>1
  <2> QED BY <1>1, <2>2, WindowAssumption DEF AddLast
<1>2. CASE Len(buffer) # Window
  BY <1>2, WindowAssumption DEF AddLast
<1> QED BY <1>1, <1>2

LEMMA TypeStep == IInv /\ TypeOK /\ [Next]_vars => TypeOK'
<1> SUFFICES ASSUME IInv, TypeOK, [Next]_vars PROVE TypeOK'
  OBVIOUS
<1>0. running' \in Nat /\ pc' \in [Calls -> {"idle", "looking", "deciding", "leaving"}]
      /\ model' \in Model
  BY BoundsStep DEF Types
<1> USE <1>0 DEF TypeOK, callVars, pictureVars, decisionVars, storeVars, senderVars
<1>1. ASSUME NEW h \in Calls, NEW count \in Count, NEW alone \in BOOLEAN,
             Enter(h, count, alone)
      PROVE  TypeOK'
  <2>1. Counted(count) \in Count /\ model.high \in BOOLEAN
    BY DEF Counted, Count, Model
  <2>2. hand' \in [Calls -> [n : Nat, count : Count, alone : BOOLEAN, sure : BOOLEAN]]
    BY <1>1, <2>1 DEF Enter
  <2> QED BY <1>1, <2>2 DEF Enter
<1>2. ASSUME NEW h \in Calls, LookAlone(h) PROVE TypeOK'
  <2>1. flashes' \in Nat /\ lit' \in BOOLEAN
    BY <1>2 DEF LookAlone, Flash
  <2> QED BY <1>2, <2>1 DEF LookAlone
<1>3. ASSUME NEW h \in Calls, Look(h) PROVE TypeOK'
  <2>1. count0' \in Count /\ count1' \in Count
        /\ flashes' \in Nat /\ lit' \in BOOLEAN
    BY <1>3 DEF Look, Flash
  <2>4. sighted' \in 0 .. Window
    BY <1>3, WindowAssumption DEF Look, Lesser
  <2>2. Both(count0', count1').bright \in {0, Level}
        /\ Both(count0', count1').dark \in {0, Level}
    BY <2>1, LesserType DEF Count
  <2>a. PICK b \in {0, Level}, d \in {0, Level} :
               bright' = AddLast(bright, b) /\ dark' = AddLast(dark, d)
    BY <1>3, <2>2 DEF Look
  <2>b. /\ bright' \in Seq({0, Level}) /\ Len(bright') <= Window
        /\ Len(bright') = IF Len(bright) = Window THEN Window ELSE Len(bright) + 1
    BY <2>a, AddLastType
  <2>c. /\ dark' \in Seq({0, Level})
        /\ Len(dark') = IF Len(dark) = Window THEN Window ELSE Len(dark) + 1
    <3>1. dark \in Seq({0, Level}) /\ Len(dark) <= Window
      OBVIOUS
    <3> HIDE DEF TypeOK
    <3> QED BY <2>a, <3>1, AddLastType
  <2>3. bright' \in Seq({0, Level}) /\ Len(bright') <= Window
        /\ dark' \in Seq({0, Level}) /\ Len(dark') = Len(bright')
    BY <2>b, <2>c
  <2> QED BY <1>3, <2>1, <2>3, <2>4 DEF Look
<1>4. ASSUME NEW h \in Calls, Decide(h) PROVE TypeOK'
  <2>0. ASSUME NEW profile \in Profiles, Switch(profile)
        PROVE  /\ welding' \in BOOLEAN /\ applied' \in Settings
               /\ channel' \in Seq(Settings) /\ Len(channel') <= 1
    <3>1. Setting(profile) \in Settings
      BY DEF Setting, Settings
    <3>2. applied' \in Settings /\ channel' = <<applied'>>
      BY <2>0, <3>1 DEF Switch, Write
    <3>3. <<applied'>> \in Seq(Settings) /\ Len(<<applied'>>) = 1
      BY <3>2
    <3> QED BY <2>0, <3>2, <3>3 DEF Switch
  <2>1. welding' \in BOOLEAN /\ applied' \in Settings
        /\ channel' \in Seq(Settings) /\ Len(channel') <= 1
    BY <1>4, <2>0 DEF Decide, Profiles
  <2> QED BY <1>4, <2>1 DEF Decide
<1>5. ASSUME NEW h \in Calls, Leave(h) PROVE TypeOK'
  <2>1. NoFrame \in [n : Nat, count : Count, alone : BOOLEAN, sure : BOOLEAN]
    BY DEF NoFrame, Nothing, Count
  <2> QED BY <1>5, <2>1 DEF Leave
<1>6. ASSUME NEW config \in Config, Configure(config) PROVE TypeOK'
  <2>1. config \in Model
    BY BoundsAssumption DEF Config, Model
  <2>2. FieldOrder \in Seq(Fields)
    BY DEF FieldOrder, Fields
  <2> QED BY <1>6, <2>1, <2>2 DEF Configure
<1>7. CASE Assign
  <2>1. Tail(news.left) \in Seq(Fields)
    BY <1>7 DEF Assign
  <2> QED BY <1>7, <2>1 DEF Assign
<1>8. ASSUME NEW profile \in Profiles, Load(profile) PROVE TypeOK'
  BY <1>8 DEF Load
<1>9. CASE SendDefault \/ OthersSend
  BY <1>9 DEF SendDefault, OthersSend, Settings, Profiles
<1>10. CASE Take
  <2>1. <<>> \in Seq(Settings) /\ Len(<<>>) = 0
    OBVIOUS
  <2> QED BY <1>10, <2>1 DEF Take
<1>11. CASE Process
  <2>1. <<>> \in Seq(Settings) /\ Len(<<>>) = 0
    OBVIOUS
  <2>2. Head(sender.holds) \in Settings
    BY <1>11 DEF Process
  <2>a. sender' = [sender EXCEPT !.holds = <<>>]
        /\ sender \in [holds : Seq(Settings), ended : BOOLEAN]
    BY <1>11 DEF Process
  <2>b. sender' \in [holds : Seq(Settings), ended : BOOLEAN] /\ sender'.holds = <<>>
    BY <2>a, <2>1
  <2>3. sender' \in [holds : Seq(Settings), ended : BOOLEAN] /\ Len(sender'.holds) <= 1
    BY <2>1, <2>b
  <2> QED BY <1>11, <2>2, <2>3 DEF Process
<1>12. CASE SenderEnds
  BY <1>12 DEF SenderEnds
<1>14. CASE Dispose
  BY <1>14 DEF Dispose
<1>13. CASE UNCHANGED vars
  BY <1>13 DEF vars
<1> HIDE DEF TypeOK
<1> QED BY <1>1, <1>2, <1>3, <1>4, <1>5, <1>6, <1>7, <1>8, <1>9, <1>10, <1>11, <1>12,
           <1>13, <1>14 DEF Next

\* The variables keep their types; the channel and the hands of the sender hold at
\* most one setting, and the buffers no more than they can.
THEOREM TypeCorrect == Spec => []TypeOK
<1>1. ASSUME Init PROVE TypeOK
  <2>1. Nothing \in Count /\ NoFrame \in [n : Nat, count : Count, alone : BOOLEAN, sure : BOOLEAN]
    BY DEF NoFrame, Nothing, Count
  <2>2. bright \in Seq({0, Level}) /\ dark \in Seq({0, Level}) /\ channel \in Seq(Settings)
        /\ Len(bright) = 0 /\ Len(dark) = 0 /\ Len(channel) = 0
    BY <1>1 DEF Init
  <2>3. sender \in [holds : Seq(Settings), ended : BOOLEAN] /\ Len(sender.holds) = 0
    BY <1>1 DEF Init
  <2>4. news \in [config : Model, left : Seq(Fields)]
    BY <1>1 DEF Init, Model, Unset
  <2>5. /\ running \in Nat /\ pc \in [Calls -> {"idle", "looking", "deciding", "leaving"}]
        /\ hand \in [Calls -> [n : Nat, count : Count, alone : BOOLEAN, sure : BOOLEAN]]
        /\ count0 \in Count /\ count1 \in Count
        /\ model \in Model
    BY <1>1, <2>1 DEF Init, Model, Unset
  <2>6. /\ welding \in BOOLEAN /\ applied \in Settings /\ sent \in Settings
        /\ loaded \subseteq Profiles /\ disposed \in BOOLEAN
        /\ started \in BOOLEAN /\ overruled \in BOOLEAN
        /\ frames \in Nat /\ configs \in Nat /\ flashes \in Nat
    BY <1>1 DEF Init, Settings, Profiles
  <2>7. sighted \in 0 .. Window
    <3>1. sighted = 0
      BY <1>1 DEF Init
    <3> QED BY <3>1, WindowAssumption
  <2>8. lit \in BOOLEAN
    BY <1>1 DEF Init
  <2> QED BY <2>7, <2>8, <2>2, <2>3, <2>4, <2>5, <2>6, WindowAssumption DEF TypeOK
<1>2. TypeOK /\ IInv /\ [Next]_vars => TypeOK'
  BY TypeStep
<1> QED BY Invariance, <1>1, <1>2, PTL DEF Spec

-----------------------------------------------------------------------------
\* However many calls the pipeline makes at a time, at most one of them updates the
\* counts, the buffers and the decision; and whatever way the calls took out of
\* Handle, when none is under way the next frame is looked at.
THEOREM GuardAlwaysHolds == Spec => []GuardHolds
<1>1. ASSUME OneInside PROVE Cardinality(Inside) <= 1
  <2>1. CASE Inside = {}
    BY <2>1, FS_EmptySet
  <2>2. CASE Inside # {}
    <3>1. PICK h \in Inside : Inside = {h}
      BY <1>1, <2>2 DEF OneInside
    <3> QED BY <3>1, FS_Singleton
  <2> QED BY <2>1, <2>2
<1>2. ASSUME CounterExact, \A h \in Calls : pc[h] = "idle" PROVE running = 0
  <2>1. Busy = {}
    BY <1>2 DEF Busy
  <2> QED BY <1>2, <2>1, FS_EmptySet DEF CounterExact
<1>3. IInv => GuardHolds
  BY <1>1, <1>2 DEF IInv, GuardHolds
<1> QED BY Invariance, <1>3, PTL

\* Of the settings decided while the sender is busy the newest survives the channel
\* of one place, so that a drained channel means the camera was told the current one.
THEOREM NewestSettingTold == Spec => []CameraToldApplied
<1>1. IInv => CameraToldApplied
  BY DEF IInv, NewestIsApplied
<1> QED BY Invariance, <1>1, PTL

-----------------------------------------------------------------------------
(* Flashes.                                                                *)

One(count) == IF count.bright > 0 THEN 1 ELSE 0

\* Each of the two counts that is bright was a flash of its own, a bright place
\* of the window was bright in both of them, and a window without one is below
\* any bound a user may configure.
FlashInv ==
  /\ One(count0) + One(count1) <= flashes
  /\ Lit(bright) # {} => flashes >= 2
  /\ NoWeldingFromOneFlash

\* The lesser of two counts is bright only if both are.
LEMMA BothBright ==
  ASSUME NEW a \in Count, NEW b \in Count, Both(a, b).bright > 0
  PROVE  One(a) = 1 /\ One(b) = 1
BY LevelAssumption DEF Count, Both, Lesser, One

\* A window is lit by what is added, if it was not lit before.
LEMMA LitByAdded ==
  ASSUME NEW buffer \in Seq({0, Level}), NEW x \in {0, Level},
         Lit(buffer) = {}, x = 0
  PROVE  Lit(AddLast(buffer, x)) = {}
<1>1. \A i \in 1 .. Len(buffer) : buffer[i] = 0
  BY LevelAssumption DEF Lit
<1>2. CASE Len(buffer) = Window
  <2>0. Len(buffer) >= 1 /\ Tail(buffer) \in Seq({0, Level})
        /\ Len(Tail(buffer)) = Len(buffer) - 1
    BY <1>2, WindowAssumption
  <2>1. \A i \in 1 .. Len(buffer) - 1 : Tail(buffer)[i] = buffer[i + 1]
    BY <2>0
  <2>2. \A i \in 1 .. Len(buffer) - 1 : Tail(buffer)[i] = 0
    BY <1>1, <2>0, <2>1
  <2>3. \A i \in 1 .. Len(buffer) : Append(Tail(buffer), x)[i] = 0
    <3> DEFINE rest == Tail(buffer)
    <3>1. /\ rest \in Seq({0, Level}) /\ Len(buffer) = Len(rest) + 1
          /\ \A i \in 1 .. Len(rest) : rest[i] = 0
      BY <2>0, <2>2
    <3> HIDE DEF rest
    <3>2. \A i \in 1 .. Len(rest) + 1 : Append(rest, x)[i] = 0
      BY <3>1, x = 0
    <3> QED BY <3>1, <3>2 DEF rest
  <2>4. DOMAIN Append(Tail(buffer), x) = 1 .. Len(buffer)
    BY <2>0
  <2> QED BY <1>2, <2>3, <2>4 DEF Lit, AddLast
<1>3. CASE Len(buffer) # Window
  <2>1. \A i \in 1 .. Len(buffer) + 1 : Append(buffer, x)[i] = 0
    BY <1>1, x = 0
  <2>2. DOMAIN Append(buffer, x) = 1 .. Len(buffer) + 1
    OBVIOUS
  <2> QED BY <1>3, <2>1, <2>2 DEF Lit, AddLast
<1> QED BY <1>2, <1>3

\* What is above a bound that a user may configure has a bright place.
LEMMA UnlitIsBelow ==
  ASSUME NEW buffer \in Seq({0, Level}), NEW bound \in Bounds,
         Exceeds(buffer, bound)
  PROVE  Lit(buffer) # {}
<1> SUFFICES ASSUME Lit(buffer) = {} PROVE FALSE
  OBVIOUS
<1>1. Cardinality(Lit(buffer)) = 0
  BY FS_EmptySet
<1>2. 0 > bound * Len(buffer)
  BY <1>1, LevelAssumption DEF Exceeds
<1>3. bound * Len(buffer) >= 0
  BY BoundsAssumption
<1> QED BY <1>2, <1>3, BoundsAssumption

LEMMA FlashStep == IInv /\ TypeOK /\ FlashInv /\ [Next]_vars => FlashInv'
<1> SUFFICES ASSUME IInv, TypeOK, FlashInv, [Next]_vars PROVE FlashInv'
  OBVIOUS
<1>0. /\ count0 \in Count /\ count1 \in Count /\ flashes \in Nat
      /\ bright \in Seq({0, Level}) /\ Level > 0
      /\ One(count0) + One(count1) <= flashes
      /\ Lit(bright) # {} => flashes >= 2
      /\ welding => flashes >= 2
  BY LevelAssumption DEF TypeOK, FlashInv, NoWeldingFromOneFlash
<1> USE DEF NoWeldingFromOneFlash
<1>1. ASSUME NEW h \in Calls, LookAlone(h) PROVE FlashInv'
  <2>1. /\ One(count0') + One(count1') <= flashes' /\ flashes' >= flashes
    <3>1. /\ count1' = count1 /\ flashes' = flashes + One(count0')
      BY <1>0, <1>1 DEF LookAlone, Flash, One
    <3> QED BY <1>0, <3>1 DEF One
  <2>2. bright' = bright /\ welding' = welding
    BY <1>1 DEF LookAlone, decisionVars
  <2>3. flashes' \in Nat
    BY <1>0, <1>1 DEF LookAlone, Flash
  <2>4. Lit(bright') = Lit(bright)
    BY <2>2
  <2> QED BY <1>0, <2>1, <2>2, <2>3, <2>4 DEF FlashInv
<1>2. ASSUME NEW h \in Calls, Look(h) PROVE FlashInv'
  <2>0. hand[h].count \in Count
    BY DEF TypeOK
  <2>1. /\ count0' \in Count /\ count1' \in Count
        /\ \/ count0' = count0 /\ flashes' = flashes + One(count1')
           \/ count1' = count1 /\ flashes' = flashes + One(count0')
    BY <1>0, <1>2, <2>0 DEF Look, Flash, One
  <2>2. One(count0') + One(count1') <= flashes' /\ flashes' >= flashes
        /\ flashes' \in Nat
    BY <1>0, <2>1 DEF One
  <2>3. welding' = welding
    BY <1>2 DEF Look, decisionVars
  <2>4. ASSUME Lit(bright') # {} PROVE flashes' >= 2
    <3>1. CASE Lit(bright) # {}
      BY <1>0, <2>2, <3>1
    <3>2. CASE Both(count0', count1').bright > 0
      <4>1. One(count0') = 1 /\ One(count1') = 1
        BY <2>1, <3>2, BothBright
      <4> QED BY <2>2, <4>1
    <3>3. CASE Lit(bright) = {} /\ ~(Both(count0', count1').bright > 0)
      <4>1. Both(count0', count1').bright \in {0, Level}
        BY <2>1, LesserType DEF Count
      <4>2. Both(count0', count1').bright = 0
        BY <1>0, <3>3, <4>1
      <4>3. bright' = AddLast(bright, 0)
        BY <1>2, <4>2 DEF Look
      <4> QED BY <1>0, <2>4, <3>3, <4>3, LitByAdded
    <3> QED BY <3>1, <3>2, <3>3
  <2> QED BY <1>0, <2>2, <2>3, <2>4 DEF FlashInv
<1>3. ASSUME NEW h \in Calls, Decide(h) PROVE FlashInv'
  <2>1. count0' = count0 /\ count1' = count1 /\ bright' = bright
        /\ flashes' = flashes
    BY <1>3 DEF Decide, pictureVars
  <2>2. model.w \in Bounds
    BY <1>3 DEF Decide, IInv, BoundsKnown
  <2>3. ~welding /\ welding' => Exceeds(bright, model.w)
    BY <1>3 DEF Decide, Switch, decisionVars
  <2>4. welding' => flashes >= 2
    BY <1>0, <2>2, <2>3, UnlitIsBelow
  <2> QED BY <1>0, <2>1, <2>4 DEF FlashInv
<1>4. ASSUME UNCHANGED <<count0, count1, bright, flashes, welding>>
      PROVE  FlashInv'
  BY <1>0, <1>4 DEF FlashInv
<1>5. \/ \E h \in Calls : LookAlone(h) \/ Look(h) \/ Decide(h)
      \/ UNCHANGED <<count0, count1, bright, flashes, welding>>
  BY DEF Next, Enter, Leave, Configure, Assign, Load, SendDefault, OthersSend, Take, Process,
         SenderEnds, Dispose, vars, pictureVars, decisionVars
<1> QED BY <1>1, <1>2, <1>3, <1>4, <1>5

\* However many frames are skipped, come alone or are looked at by which call:
\* welding is never detected before two frames had bright pixels.
THEOREM OneFlashIsNoWelding == Spec => []NoWeldingFromOneFlash
<1>1. Init => FlashInv
  <2>1. Init => Lit(bright) = {}
    BY DEF Init, Lit
  <2> QED BY <2>1 DEF Init, FlashInv, One, Nothing, NoWeldingFromOneFlash
<1>2. FlashInv => NoWeldingFromOneFlash
  BY DEF FlashInv
<1> QED BY Invariance, TypeCorrect, <1>1, <1>2, FlashStep, PTL DEF Spec

-----------------------------------------------------------------------------
(* Counts made without a border.                                           *)

\* The newest places of the buffer, which come from frames counted with a configured
\* border, are dark as long as no such frame was bright.
SightInv == \A i \in DOMAIN bright : i > Len(bright) - sighted /\ bright[i] > 0 => lit

\* What AddLast does to a place of the buffer.
LEMMA AddLastPlaces ==
  ASSUME NEW buffer \in Seq({0, Level}), NEW x \in {0, Level}, Len(buffer) <= Window,
         NEW i \in DOMAIN AddLast(buffer, x)
  PROVE  LET new == AddLast(buffer, x) IN
         /\ i = Len(new) => new[i] = x
         /\ i # Len(new) => \E j \in DOMAIN buffer :
              new[i] = buffer[j] /\ Len(new) - i = Len(buffer) - j + 1
<1>1. CASE Len(buffer) = Window
  <2> DEFINE rest == Tail(buffer)
  <2>1. /\ rest \in Seq({0, Level}) /\ Len(rest) = Len(buffer) - 1 /\ Len(buffer) \in Nat
        /\ \A k \in 1 .. Len(rest) : rest[k] = buffer[k + 1]
    BY <1>1, WindowAssumption
  <2>2. AddLast(buffer, x) = Append(rest, x)
    BY <1>1 DEF AddLast
  <2> HIDE DEF rest
  <2>3. i \in 1 .. Len(rest) + 1 /\ Len(Append(rest, x)) = Len(rest) + 1
    BY <2>1, <2>2
  <2>4. CASE i = Len(rest) + 1
    BY <2>1, <2>2, <2>3, <2>4
  <2>5. CASE i \in 1 .. Len(rest)
    <3>1. Append(rest, x)[i] = rest[i]
      BY <2>1, <2>5
    <3>2. i + 1 \in DOMAIN buffer /\ rest[i] = buffer[i + 1]
      BY <2>1, <2>5
    <3>3. Len(rest) + 1 - i = Len(buffer) - (i + 1) + 1
      BY <2>1, <2>5
    <3> QED BY <2>1, <2>2, <2>3, <2>5, <3>1, <3>2, <3>3
  <2> QED BY <2>1, <2>3, <2>4, <2>5
<1>2. CASE Len(buffer) # Window
  <2>1. AddLast(buffer, x) = Append(buffer, x) /\ Len(Append(buffer, x)) = Len(buffer) + 1
    BY <1>2 DEF AddLast
  <2>2. i \in 1 .. Len(buffer) + 1
    BY <2>1
  <2>3. CASE i = Len(buffer) + 1
    BY <2>1, <2>3
  <2>4. CASE i \in 1 .. Len(buffer)
    <3>1. Append(buffer, x)[i] = buffer[i] /\ i \in DOMAIN buffer
      BY <2>4
    <3>2. Len(buffer) + 1 - i = Len(buffer) - i + 1
      BY <2>4
    <3> QED BY <2>1, <2>4, <3>1, <3>2
  <2> QED BY <2>2, <2>3, <2>4
<1> QED BY <1>1, <1>2

LEMMA SightStep == TypeOK /\ SightInv /\ [Next]_vars => SightInv'
<1> SUFFICES ASSUME TypeOK, SightInv, [Next]_vars PROVE SightInv'
  OBVIOUS
<1>0. /\ bright \in Seq({0, Level}) /\ Len(bright) <= Window /\ sighted \in 0 .. Window
      /\ lit \in BOOLEAN /\ Len(bright) \in Nat
  BY DEF TypeOK
<1>1. ASSUME NEW h \in Calls, Look(h) PROVE SightInv'
  <2> DEFINE x == Both(count0', count1').bright
  <2>1. /\ bright' = AddLast(bright, x)
        /\ sighted' = IF hand[h].sure THEN Lesser(sighted + 1, Window) ELSE 0
        /\ lit' = (lit \/ (hand[h].sure /\ hand[h].count.bright > 0))
    BY <1>1 DEF Look, Flash
  <2>2. /\ count0' \in Count /\ count1' \in Count /\ hand[h].count \in Count
        /\ hand[h].count \in {count0', count1'}
    BY <1>1 DEF Look, TypeOK
  <2>3. x \in {0, Level}
    BY <2>2, LesserType DEF Count
  <2>4. x > 0 => hand[h].count.bright > 0
    <3>1. x > 0 => One(count0') = 1 /\ One(count1') = 1
      BY <2>2, BothBright
    <3> QED BY <2>2, <3>1 DEF One
  <2> HIDE DEF x
  <2> SUFFICES ASSUME NEW i \in DOMAIN bright', i > Len(bright') - sighted', bright'[i] > 0
               PROVE  lit'
    BY DEF SightInv
  <2>5. hand[h].sure /\ sighted' <= sighted + 1
    <3>1. bright' \in Seq({0, Level})
      BY <1>0, <2>1, <2>3, AddLastType
    <3>2. sighted' # 0
      BY <3>1
    <3> QED BY <1>0, <2>1, <3>2, WindowAssumption DEF Lesser
  <2>6. CASE i = Len(bright')
    <3>1. bright'[i] = x
      BY <1>0, <2>1, <2>3, <2>6, AddLastPlaces
    <3> QED BY <2>1, <2>4, <2>5, <3>1
  <2>7. CASE i # Len(bright')
    <3>1. PICK j \in DOMAIN bright :
                 bright'[i] = bright[j] /\ Len(bright') - i = Len(bright) - j + 1
      BY <1>0, <2>1, <2>3, <2>7, AddLastPlaces
    <3>2. bright' \in Seq({0, Level}) /\ sighted' \in Nat
      BY <1>0, <2>1, <2>3, AddLastType, WindowAssumption DEF Lesser
    <3>3. j > Len(bright) - sighted
      <4>1. /\ Len(bright') \in Nat /\ i \in Nat /\ j \in Nat
        BY <1>0, <3>2
      <4> QED BY <1>0, <2>5, <3>1, <3>2, <4>1
    <3> QED BY <2>1, <3>1, <3>3 DEF SightInv
  <2> QED BY <2>6, <2>7
<1>2. ASSUME NEW h \in Calls, LookAlone(h) PROVE SightInv'
  <2>1. bright' = bright /\ sighted' = sighted /\ (lit => lit')
    BY <1>2 DEF LookAlone, Flash
  <2> QED BY <2>1 DEF SightInv
<1>3. ASSUME UNCHANGED <<bright, sighted, lit>> PROVE SightInv'
  BY <1>3 DEF SightInv
<1>4. \/ \E h \in Calls : LookAlone(h) \/ Look(h)
      \/ UNCHANGED <<bright, sighted, lit>>
  BY DEF Next, Enter, Decide, Leave, Configure, Assign, Load, SendDefault, OthersSend, Take,
         Process, SenderEnds, Dispose, vars, pictureVars
<1> QED BY <1>1, <1>2, <1>3, <1>4

\* Given assigns the switch after the bounds, so that a call that reads the model
\* between two assignments never decides with bounds nobody has configured; it
\* assigns the borders later still, but a buffer that holds no count made without
\* one is above its bound only if a frame was bright by the configured border.
THEOREM ConfiguredBoundsOnly == Spec => DecidesWithConfiguredBounds
<1>1. TypeOK /\ IInv /\ SightInv /\ [Next]_vars =>
        [welding' # welding =>
           /\ model.w \in Bounds /\ model.n \in Bounds
           /\ welding' /\ sighted >= Len(bright) => lit]_vars
  <2> SUFFICES ASSUME TypeOK, IInv, SightInv, Next, welding' # welding
               PROVE  /\ model.w \in Bounds /\ model.n \in Bounds
                      /\ welding' /\ sighted >= Len(bright) => lit
    OBVIOUS
  <2>1. PICK h \in Calls : Decide(h)
    BY DEF Next, Enter, LookAlone, Look, Leave, Configure, Assign, Load, SendDefault,
           OthersSend, Take, Process, SenderEnds, Dispose, decisionVars
  <2>2. model.w \in Bounds /\ model.n \in Bounds
    BY <2>1 DEF Decide, IInv, BoundsKnown
  <2>3. ASSUME welding', sighted >= Len(bright) PROVE lit
    <3>1. Exceeds(bright, model.w)
      BY <2>1, <2>3 DEF Decide, Switch, decisionVars, TypeOK
    <3>2. bright \in Seq({0, Level}) /\ sighted \in Nat
      BY DEF TypeOK
    <3>3. PICK i \in DOMAIN bright : bright[i] > 0
      BY <2>2, <3>1, <3>2, UnlitIsBelow DEF Lit
    <3>4. i > Len(bright) - sighted
      BY <2>3, <3>2
    <3> QED BY <3>3, <3>4 DEF SightInv
  <2> QED BY <2>2, <2>3
<1>2. Init => SightInv
  BY DEF Init, SightInv
<1> QED BY Invariance, TypeCorrect, SightStep, <1>1, <1>2, PTL
        DEF Spec, DecidesWithConfiguredBounds
=============================================================================
