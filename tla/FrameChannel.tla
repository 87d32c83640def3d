---------------------------- MODULE FrameChannel ----------------------------
(***************************************************************************)
(* What a frame buffer between two processes promises, whatever its        *)
(* implementation: frames are numbered 0, 1, 2, ... in the order in which  *)
(* they are published, and the consumer gets each of them exactly once, in *)
(* that order, until the publisher is a whole buffer ahead of it.  From    *)
(* then on it may find anything, but it still gets as many frames as are   *)
(* published.                                                              *)
(***************************************************************************)
EXTENDS Integers

CONSTANTS
  Capacity,    \* how many frames the buffer holds
  MaxFrames    \* how many frames are ever published (bounds the runs)

VARIABLES
  published,   \* number of frames published so far
  consumed,    \* number of frames the consumer has dealt with
  latest,      \* number of the frame the consumer looked at last, or NoFrame
  overrun      \* the publisher has overwritten a frame that was in use

vars == <<published, consumed, latest, overrun>>

NoFrame == -1

Init ==
  /\ published = 0
  /\ consumed = 0
  /\ latest = NoFrame
  /\ overrun = FALSE

Publish ==
  /\ published < MaxFrames
  /\ published' = published + 1
  /\ UNCHANGED <<consumed, latest, overrun>>

\* The next frame is dealt with; what it is is certain without an overrun only.
Consume ==
  /\ consumed < published
  /\ consumed' = consumed + 1
  /\ overrun \/ latest' = consumed
  /\ UNCHANGED <<published, overrun>>

\* Possible only if the buffer is full but for the frame in the consumer's
\* hands, which it has dealt with but not released.
Overrun ==
  /\ ~overrun
  /\ published - consumed >= Capacity - 1
  /\ overrun' = TRUE
  /\ UNCHANGED <<published, consumed, latest>>

Next == Publish \/ Consume \/ Overrun

Spec == Init /\ [][Next]_vars

\* Publishing and consuming never stop while there is something to do.
FairSpec == Spec /\ WF_published(Publish) /\ WF_consumed(Consume)
=============================================================================
