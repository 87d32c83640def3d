-------------------------- MODULE WeldingRecognition --------------------------
(***************************************************************************)
(* WeldingRecognitionService of EventPi.Services.Camera with the read      *)
(* models it looks at.  The video pipeline calls Handle for every frame,   *)
(* several calls at a time; the service decides from the bright and the    *)
(* dark pixels of the last frames whether somebody is welding and hands    *)
(* the setting of the camera over, through a channel of one place, to a    *)
(* thread that queues it for the CameraManager.  Meanwhile configuration   *)
(* and profiles arrive from the event store, the WeldingRecognitionProvider*)
(* sends the default profile once after the start, and the camera page and *)
(* the profile buttons queue settings for the same camera at any time.     *)
(*                                                                         *)
(* Counts of pixels are in percent of the frame, as the bounds are; of a   *)
(* border between bright, dark and other pixels only whether it has been   *)
(* configured matters: until then it is 0, so that no pixel is dark and    *)
(* how many are bright says nothing about the picture.                     *)
(*                                                                         *)
(* The two CircularBuffers are the windows their own module shows them to  *)
(* be.                                                                     *)
(***************************************************************************)
EXTENDS Integers, Sequences, FiniteSets

CONSTANTS
  Calls,       \* calls of Handle that may run at the same time
  Level,       \* how many pixels are bright, or dark, if any are
  Bounds,      \* the bounds a user may configure
  Window,      \* capacity of the buffers, 3 in the code
  MaxFrames,   \* how many frames arrive (bounds the runs)
  MaxConfigs   \* how many configurations arrive (bounds the runs)

ASSUME CallsAssumption == IsFiniteSet(Calls)
ASSUME LevelAssumption == Level \in Nat \ {0}
ASSUME BoundsAssumption == Bounds \subseteq Nat
ASSUME WindowAssumption == Window \in Nat \ {0}

VARIABLES
  running,   \* isRunning
  pc,        \* where each call of Handle is
  hand,      \* the frame of each call: number, counts, whether it comes alone, and
             \* whether its bright pixels were counted with a configured border
  count0,    \* _count0: the last frame of even number, or the last alone
  count1,    \* _count1: the last frame of odd number
  bright,    \* _bufferBrightPixels
  dark,      \* _bufferDarkPixels
  welding,   \* IsWelding
  applied,   \* CurrentAppliedProfile
  model,     \* WeldingRecognitionModel: the two bounds, the switch, and whether the
             \* borders of dark and of bright pixels are configured
  news,      \* the configuration Given assigns, and the fields it has yet to assign
  loaded,    \* the profiles the provider has loaded
  channel,   \* _channel
  sender,    \* OnSendCommand: the settings it holds, and whether it has ended
  started,   \* the provider has sent the profile of the start
  sent,      \* what was queued last for the camera
  overruled, \* history: it was not the sender that queued it
  disposed,  \* Dispose was called
  frames,    \* history: number of frames that arrived
  configs,   \* history: number of configurations that arrived
  flashes,   \* history: number of frames looked at that were counted as bright
  sighted,   \* history: how many of the newest places of the buffers come from
             \* frames counted with a configured border
  lit        \* history: a frame counted with a configured border was bright

callVars == <<running, pc, hand>>
pictureVars == <<count0, count1, bright, dark, flashes, sighted, lit>>
decisionVars == <<welding, applied, channel>>
storeVars == <<model, news, loaded, configs>>
senderVars == <<sender, sent, started, overruled, disposed>>
vars == <<callVars, pictureVars, decisionVars, storeVars, senderVars, frames>>

Count == [bright : {0, Level}, dark : {0, Level}]
Nothing == [bright |-> 0, dark |-> 0]
NoFrame == [n |-> 0, count |-> Nothing, alone |-> FALSE, sure |-> FALSE]
Profiles == {"default", "welding"}
Settings == Profiles \union {"factory"}
Config == [w : Bounds, n : Bounds, on : BOOLEAN, low : {TRUE}, high : {TRUE}]
Unset == [w |-> 0, n |-> 0, on |-> FALSE, low |-> FALSE, high |-> FALSE]

Init ==
  /\ running = 0
  /\ pc = [h \in Calls |-> "idle"]
  /\ hand = [h \in Calls |-> NoFrame]
  /\ count0 = Nothing /\ count1 = Nothing
  /\ bright = <<>> /\ dark = <<>>
  /\ welding = FALSE /\ applied = "factory"
  /\ model = Unset
  /\ news = [config |-> Unset, left |-> <<>>]
  /\ loaded = {}
  /\ channel = <<>>
  /\ sender = [holds |-> <<>>, ended |-> FALSE] /\ sent = "factory"
  /\ started = FALSE /\ overruled = FALSE
  /\ disposed = FALSE
  /\ frames = 0 /\ configs = 0 /\ flashes = 0
  /\ sighted = 0 /\ lit = FALSE

-----------------------------------------------------------------------------
(* Handle.                                                                 *)

\* Mutant: one call too many is let in.
First_OffByOne == running' <= 2

First == running' <= 1

\* CountPixelsOutsideRange: without a border no pixel is darker than it, and any
\* number of pixels may be brighter.
Counted(pixels) == IF model.low THEN pixels ELSE [pixels EXCEPT !.dark = 0]

\* Interlocked.Increment, the test of what it returned, and the counting with the
\* borders of that moment.
Enter(h, pixels, alone) ==
  /\ pc[h] = "idle"
  /\ frames < MaxFrames
  /\ frames = 0 => alone
  /\ frames' = frames + 1
  /\ hand' = [hand EXCEPT ![h] = [n |-> frames, count |-> Counted(pixels),
                                   alone |-> alone, sure |-> model.high]]
  /\ running' = running + 1
  /\ pc' = [pc EXCEPT ![h] = IF First THEN "looking" ELSE "leaving"]
  /\ UNCHANGED <<pictureVars, decisionVars, storeVars, senderVars>>

\* The history of the frames looked at.
Flash(frame) ==
  /\ flashes' = IF frame.count.bright > 0 THEN flashes + 1 ELSE flashes
  /\ lit' = (lit \/ (frame.sure /\ frame.count.bright > 0))

\* prv is null: the pipeline has no previous frame to go with the first one, nor
\* with the first one after an interruption.
LookAlone(h) ==
  /\ pc[h] = "looking"
  /\ hand[h].alone
  /\ count0' = hand[h].count
  /\ Flash(hand[h])
  /\ pc' = [pc EXCEPT ![h] = "leaving"]
  /\ UNCHANGED <<running, hand, count1, bright, dark, sighted, decisionVars, storeVars,
                 senderVars, frames>>

Lesser(a, b) == IF a < b THEN a ELSE b

\* Mutant: the greater of the two counts.
Both_Either(a, b) ==
  [bright |-> a.bright + b.bright - Lesser(a.bright, b.bright),
   dark |-> Lesser(a.dark, b.dark)]

\* DarkBrightPixels.Min: a lamp that flickers is in one frame and not in the other.
Both(a, b) ==
  [bright |-> Lesser(a.bright, b.bright), dark |-> Lesser(a.dark, b.dark)]

\* Mutant: a full buffer overwrites its newest place.
AddLast_OverNewest(buffer, x) ==
  IF Len(buffer) = Window THEN [buffer EXCEPT ![Window] = x] ELSE Append(buffer, x)

\* CircularBuffer.AddLast.
AddLast(buffer, x) ==
  IF Len(buffer) = Window THEN Append(Tail(buffer), x) ELSE Append(buffer, x)

Look(h) ==
  /\ pc[h] = "looking"
  /\ ~hand[h].alone
  /\ IF hand[h].n % 2 = 1
       THEN count1' = hand[h].count /\ UNCHANGED count0
       ELSE count0' = hand[h].count /\ UNCHANGED count1
  /\ bright' = AddLast(bright, Both(count0', count1').bright)
  /\ dark' = AddLast(dark, Both(count0', count1').dark)
  /\ sighted' = IF hand[h].sure THEN Lesser(sighted + 1, Window) ELSE 0
  /\ Flash(hand[h])
  /\ pc' = [pc EXCEPT ![h] = IF model.on THEN "deciding" ELSE "leaving"]
  /\ UNCHANGED <<running, hand, decisionVars, storeVars, senderVars, frames>>

\* The frames of the window with pixels of the kind.
Lit(buffer) == {i \in DOMAIN buffer : buffer[i] > 0}

\* Average() > bound: the counts are 0 or Level, which makes up their sum.
Exceeds(buffer, bound) ==
  Level * Cardinality(Lit(buffer)) > bound * Len(buffer)

\* A profile that is not loaded is null, and CopyFrom leaves the setting as new.
Setting(profile) == IF profile \in loaded THEN profile ELSE "factory"

\* Mutant: DropWrite, a full channel refuses the new setting.
Write_DropNewest(setting) ==
  channel' = IF channel = <<>> THEN <<setting>> ELSE channel

\* TryWrite to a channel of one place, DropOldest.
Write(setting) == channel' = <<setting>>

Switch(profile) ==
  /\ welding' = (profile = "welding")
  /\ applied' = Setting(profile)
  /\ Write(applied')

Decide(h) ==
  /\ pc[h] = "deciding"
  /\ \/ ~welding /\ Exceeds(bright, model.w) /\ Switch("welding")
     \/ welding /\ Exceeds(dark, model.n) /\ Switch("default")
     \/ /\ IF welding THEN ~Exceeds(dark, model.n) ELSE ~Exceeds(bright, model.w)
        /\ UNCHANGED decisionVars
  /\ pc' = [pc EXCEPT ![h] = "leaving"]
  /\ UNCHANGED <<running, hand, pictureVars, storeVars, senderVars, frames>>

\* Mutant: the count is not taken back.
Leave_KeepsCount(h) ==
  /\ pc[h] = "leaving"
  /\ pc' = [pc EXCEPT ![h] = "idle"]
  /\ hand' = [hand EXCEPT ![h] = NoFrame]
  /\ UNCHANGED <<running, pictureVars, decisionVars, storeVars, senderVars, frames>>

\* Interlocked.Decrement on each of the ways out.
Leave(h) ==
  /\ pc[h] = "leaving"
  /\ running' = running - 1
  /\ pc' = [pc EXCEPT ![h] = "idle"]
  /\ hand' = [hand EXCEPT ![h] = NoFrame]
  /\ UNCHANGED <<pictureVars, decisionVars, storeVars, senderVars, frames>>

-----------------------------------------------------------------------------
(* The event store.                                                        *)

\* Mutant: detection is switched on before its bounds are known.
FieldOrder_SwitchFirst == <<"on", "w", "n", "low", "high">>

\* The order in which Given assigns the fields: the borders come after the switch.
FieldOrder == <<"w", "n", "on", "low", "high">>

Configure(config) ==
  /\ configs < MaxConfigs
  /\ news.left = <<>>
  /\ news' = [config |-> config, left |-> FieldOrder]
  /\ configs' = configs + 1
  /\ UNCHANGED <<callVars, pictureVars, decisionVars, model, loaded, senderVars,
                 frames>>

\* One assignment of Given: Handle may read the model between two of them.
Assign ==
  /\ news.left # <<>>
  /\ model' = [model EXCEPT ![Head(news.left)] = news.config[Head(news.left)]]
  /\ news' = [news EXCEPT !.left = Tail(news.left)]
  /\ UNCHANGED <<callVars, pictureVars, decisionVars, loaded, configs, senderVars,
                 frames>>

\* WeldingRecognitionProvider subscribes to the default profile first.
Load(profile) ==
  /\ profile \notin loaded
  /\ profile = "welding" => "default" \in loaded
  /\ loaded' = loaded \union {profile}
  /\ UNCHANGED <<callVars, pictureVars, decisionVars, model, news, configs,
                 senderVars, frames>>

\* Five seconds after the first event of the default profile the provider sends it
\* over the bus, whose handler queues it for all cameras, whatever was sent before.
SendDefault ==
  /\ ~started
  /\ started' = TRUE
  /\ sent' = "default" /\ overruled' = TRUE
  /\ UNCHANGED <<callVars, pictureVars, decisionVars, storeVars, sender, disposed,
                 frames>>

\* The handler of the camera page's command, and the two buttons that switch the
\* profile by hand, queue another setting for the camera whenever they are used.
OthersSend ==
  /\ sent' = "other" /\ overruled' = TRUE
  /\ UNCHANGED <<callVars, pictureVars, decisionVars, storeVars, sender, started,
                 disposed, frames>>

-----------------------------------------------------------------------------
(* OnSendCommand.                                                          *)

Take ==
  /\ ~sender.ended /\ sender.holds = <<>>
  /\ channel # <<>>
  /\ sender' = [sender EXCEPT !.holds = channel]
  /\ channel' = <<>>
  /\ UNCHANGED <<callVars, pictureVars, welding, applied, storeVars, sent, started,
                 overruled, disposed, frames>>

\* ProcessAsync of the manager: the job is put into its unbounded queue.
Process ==
  /\ sender.holds # <<>>
  /\ sent' = Head(sender.holds) /\ overruled' = FALSE
  /\ sender' = [sender EXCEPT !.holds = <<>>]
  /\ UNCHANGED <<callVars, pictureVars, decisionVars, storeVars, started, disposed,
                 frames>>

\* The loop condition, or ReadAsync, sees the cancellation.
SenderEnds ==
  /\ disposed /\ ~sender.ended
  /\ sender.holds = <<>>
  /\ sender' = [sender EXCEPT !.ended = TRUE]
  /\ UNCHANGED <<callVars, pictureVars, decisionVars, storeVars, sent, started,
                 overruled, disposed, frames>>

Dispose ==
  /\ ~disposed
  /\ disposed' = TRUE
  /\ UNCHANGED <<callVars, pictureVars, decisionVars, storeVars, sender, sent, started,
                 overruled, frames>>

Next ==
  \/ \E h \in Calls : \/ \E pixels \in Count, alone \in BOOLEAN :
                           Enter(h, pixels, alone)
                      \/ LookAlone(h) \/ Look(h) \/ Decide(h) \/ Leave(h)
  \/ \E config \in Config : Configure(config)
  \/ Assign
  \/ \E profile \in Profiles : Load(profile)
  \/ SendDefault \/ OthersSend
  \/ Take \/ Process \/ SenderEnds \/ Dispose

Spec == Init /\ [][Next]_vars

-----------------------------------------------------------------------------
Fields == {"w", "n", "on", "low", "high"}
Model == [w : Nat, n : Nat, on : BOOLEAN, low : BOOLEAN, high : BOOLEAN]

\* The types of the variables; the channel and the hands of the sender hold at
\* most one setting, and the buffers no more than they can.
TypeOK ==
  /\ running \in Nat
  /\ pc \in [Calls -> {"idle", "looking", "deciding", "leaving"}]
  /\ hand \in [Calls -> [n : Nat, count : Count, alone : BOOLEAN,
                     sure : BOOLEAN]]
  /\ count0 \in Count /\ count1 \in Count
  /\ bright \in Seq({0, Level}) /\ Len(bright) <= Window
  /\ dark \in Seq({0, Level}) /\ Len(dark) = Len(bright)
  /\ welding \in BOOLEAN /\ applied \in Settings
  /\ sent \in Settings \union {"other"}
  /\ model \in Model
  /\ news \in [config : Model, left : Seq(Fields)]
  /\ loaded \subseteq Profiles
  /\ channel \in Seq(Settings) /\ Len(channel) <= 1
  /\ sender \in [holds : Seq(Settings), ended : BOOLEAN] /\ Len(sender.holds) <= 1
  /\ disposed \in BOOLEAN
  /\ started \in BOOLEAN /\ overruled \in BOOLEAN
  /\ frames \in Nat /\ configs \in Nat /\ flashes \in Nat
  /\ sighted \in 0 .. Window /\ lit \in BOOLEAN

Inside == {h \in Calls : pc[h] \in {"looking", "deciding"}}

\* "Making sure we are not processing in parallel": two calls never update the
\* counts, the buffers and the decision at the same time; and when no call is
\* under way the next frame will be looked at: no way out of Handle forgets to
\* take its count back, which would end detection for good.
GuardHolds ==
  /\ Cardinality(Inside) <= 1
  /\ (\A h \in Calls : pc[h] = "idle") => running = 0

\* One single frame counted as bright, the flash of a lamp, is never taken for
\* welding, whatever frames are skipped and whichever came first.  (Before the
\* border is configured any frame that is not black counts as bright.)
NoWeldingFromOneFlash == welding => flashes >= 2

\* A configuration is taken over field by field while frames are looked at, the
\* borders after the switch.  Detection still never decides with bounds nobody has
\* configured; and counts made without a border, which may be taken for welding,
\* do so only until they have left the buffer: then it takes a frame that was bright
\* by the configured border.  (The two bounds may be of two configurations.)
DecidesWithConfiguredBounds ==
  [][welding' # welding =>
       /\ model.w \in Bounds /\ model.n \in Bounds
       /\ welding' /\ sighted >= Len(bright) => lit]_vars

\* Once the channel is drained the camera was told the setting the service takes
\* for the current one, unless somebody else has queued a setting since: of the
\* settings decided faster than they are sent the newest survives.
CameraToldApplied ==
  channel = <<>> /\ sender.holds = <<>> => sent = applied \/ overruled
=============================================================================
