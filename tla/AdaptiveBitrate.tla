-------------------------- MODULE AdaptiveBitrate --------------------------
(***************************************************************************)
(* The bitrate of one encoder (src/adaptive_bitrate.cpp, and the end of    *)
(* the loop of encode_run in src/video.cpp).  The client's reports of lost *)
(* packets and the host's own encoding times scale the bitrate down; when  *)
(* ten seconds pass without trouble it is scaled up again.  The scale is   *)
(* a level: a penalty takes it down by one or more, a recovery step up by  *)
(* one.  The average loss is known by the thresholds the code compares it  *)
(* with.                                                                   *)
(***************************************************************************)
EXTENDS Integers

CONSTANTS
  MaxScale,   \* the level that stands for _current_scale = 1
  Timeout,    \* RECOVERY_TIMEOUT, in frames
  Reporting   \* whether the client reports frames that lost nothing, too

VARIABLES
  control,    \* the members of AdaptiveBitrate; elapsed is the time since
              \* _recovery_start, in frames up to Timeout
  net_stats,  \* the adaptive_bitrate_net_stats event of the mail
  bitrate,    \* the level the encoder works at: config.bitrate
  disabled,   \* bitrate_reconfigure_disabled
  calm        \* from now on nothing is lost and frames are on time

vars == <<control, net_stats, bitrate, disabled, calm>>

\* Thresholds of _ewma_loss: up to 1, up to 5, and above.
Losses == {"zero", "low", "mid", "high"}
Control == [ewma_loss : Losses, primed : BOOLEAN, scale : 0 .. MaxScale,
            in_recovery : BOOLEAN, elapsed : 0 .. Timeout]
Report == [loss : Losses, spike : BOOLEAN]
NoReport == [loss |-> "none", spike |-> FALSE]

Init ==
  /\ control = [ewma_loss |-> "zero", primed |-> FALSE, scale |-> MaxScale,
                in_recovery |-> FALSE, elapsed |-> 0]
  /\ net_stats = NoReport
  /\ bitrate = MaxScale /\ disabled = FALSE
  /\ calm = FALSE

-----------------------------------------------------------------------------
(* The control thread raises what the client reports; an earlier report    *)
(* that encode_run has not taken is replaced.                              *)
ClientReports ==
  /\ \E r \in Report :
       /\ calm => Reporting /\ r.loss = "zero" /\ ~r.spike
       /\ net_stats' = r
  /\ UNCHANGED <<control, bitrate, disabled, calm>>

\* EWMA_ALPHA * loss + (1 - EWMA_ALPHA) * old.  Something of an old loss
\* always remains: 0.7 times the smallest positive float rounds to itself.
Averages(old, loss) ==
  IF loss # "zero" THEN Losses \ {"zero"}
  ELSE CASE old = "zero" -> {"zero"}
         [] old = "low"  -> {"low"}
         [] old = "mid"  -> {"mid", "low"}
         [] old = "high" -> {"high", "mid"}

LossPenalty(loss) == CASE loss = "high" -> 2 [] loss = "mid" -> 1 [] OTHER -> 0
Count(b) == IF b THEN 1 ELSE 0
Less(scale, by) == IF scale < by THEN 0 ELSE scale - by

Arm(c) == IF c.in_recovery THEN c
          ELSE [c EXCEPT !.in_recovery = TRUE, !.elapsed = 0]

(* What update_network_stats may make of c.                                *)
UpdateNetworkStats(c, r) ==
  IF ~c.primed THEN {[c EXCEPT !.primed = TRUE, !.ewma_loss = r.loss]}
  ELSE {IF r.spike \/ l # "zero"
        THEN [c EXCEPT !.ewma_loss = l, !.in_recovery = FALSE,
                       !.scale = Less(@, LossPenalty(l) + Count(r.spike))]
        ELSE Arm(c) : l \in Averages(c.ewma_loss, r.loss)}

LeftUnarmed(c, slow, late) ==   \* mutant: only the network arms recovery
  IF slow \/ late
  THEN [c EXCEPT !.in_recovery = FALSE,
                 !.scale = Less(@, Count(slow) + Count(late))]
  ELSE IF c.in_recovery /\ c.elapsed = Timeout /\ c.scale < MaxScale
  THEN [c EXCEPT !.scale = @ + 1] ELSE c

(* What update_stream_health makes of c after a frame that was slow to     *)
(* encode, late, or neither.                                               *)
UpdateStreamHealth(c, slow, late) ==
  IF slow \/ late
  THEN [c EXCEPT !.in_recovery = FALSE,
                 !.scale = Less(@, Count(slow) + Count(late))]
  ELSE IF c.in_recovery /\ c.elapsed = Timeout /\ c.scale < MaxScale
  THEN [c EXCEPT !.scale = @ + 1]
  ELSE Arm(c)

Later(c) == IF c.elapsed < Timeout THEN [c EXCEPT !.elapsed = @ + 1] ELSE c

(* The end of the loop of encode_run: a report is taken if there is one.   *)
FrameEncoded(slow, late) ==
  /\ calm => ~slow /\ ~late
  /\ \E c \in IF net_stats = NoReport THEN {Later(control)}
              ELSE UpdateNetworkStats(Later(control), net_stats) :
       control' = UpdateStreamHealth(c, slow, late)
  /\ net_stats' = NoReport
  /\ UNCHANGED <<bitrate, disabled, calm>>

(* Once a second encode_run compares the target with what the encoder      *)
(* works at, which it may be able to change or not.                        *)
ReconfigureBitrate ==
  /\ bitrate # control.scale /\ ~disabled
  /\ \/ bitrate' = control.scale /\ UNCHANGED disabled
     \/ disabled' = TRUE /\ UNCHANGED bitrate
  /\ UNCHANGED <<control, net_stats, calm>>

\* The link and the encoder are in order from here on.
CalmsDown ==
  /\ ~calm /\ calm' = TRUE
  /\ net_stats' = NoReport
  /\ UNCHANGED <<control, bitrate, disabled>>

Next ==
  \/ ClientReports
  \/ \E slow, late \in BOOLEAN : FrameEncoded(slow, late)
  \/ ReconfigureBitrate \/ CalmsDown

\* encode_run keeps encoding, at the minimum frame rate if nothing changes.
Fairness ==
  /\ WF_vars(FrameEncoded(FALSE, FALSE)) /\ WF_vars(ReconfigureBitrate)

-----------------------------------------------------------------------------
(* Once the link and the encoder are in order the encoder comes back to    *)
(* the bitrate the client has asked for, unless it cannot change it        *)
(* (update_stream_health, and update_network_stats when the client         *)
(* reports).                                                               *)
BitrateReturns ==
  calm ~> (disabled \/ (control.scale = MaxScale /\ bitrate = MaxScale))
=============================================================================
