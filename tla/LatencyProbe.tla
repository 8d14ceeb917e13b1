---------------------------- MODULE LatencyProbe ----------------------------
(***************************************************************************)
(* The latency compensation of beta15: every transmission of "clock" leaves*)
(* a probe with its send time, and the raw handler, after it has handled   *)
(* an event of the repeater, adds half of the time since the probe to the  *)
(* offset of a completed check and removes the probe.                      *)
(*                                                                         *)
(* One repeater whose clock is exact, so that the published offset is the  *)
(* error of the measurement.  Time runs in ticks up to Horizon; an offset  *)
(* is kept twice as large, in half ticks.  The login before a check sends  *)
(* no probe and is left out.                                               *)
(***************************************************************************)
EXTENDS Integers

CONSTANTS
  Attempts,   (* beta14 _CLOCK_ATTEMPTS                                    *)
  Delay,      (* bound: one way over the radio                             *)
  Wait,       (* the wait for a reply, the route estimate                  *)
  Gap,        (* beta14 _RETRY_GAP_SECONDS                                 *)
  Cap,        (* _MAX_LATENCY_COMPENSATION_SECONDS                         *)
  Checks,     (* bound: checks of the repeater                             *)
  Horizon,    (* bound: ticks                                              *)
  NoProbe

ConstantsAssumption ==
  /\ {Attempts, Checks} \subseteq Nat \ {0}
  /\ {Delay, Wait, Gap, Cap, Horizon} \subseteq Nat
  /\ Delay <= Cap
  /\ NoProbe \notin Nat

VARIABLES
  now,
  pc,        (* idle, waiting for a reply, or in the gap before a retry    *)
  attempt,
  since,     (* when the await began                                       *)
  answered,  (* the future of the check is done                            *)
  completed, (* result.state is COMPLETED                                  *)
  offset,    (* result.clock_offset_seconds, in half ticks                 *)
  probe,     (* send time in _beta15_clock_probes                          *)
  replies,   (* replies on the air: [read: when, at: due]                  *)
  checks     (* checks begun                                               *)

vars == <<now, pc, attempt, since, answered, completed, offset, probe, replies, checks>>

Smaller(a, b) == IF a <= b THEN a ELSE b

Init ==
  /\ now = 0 /\ pc = "idle" /\ attempt = 0 /\ since = 0
  /\ answered = FALSE /\ completed = FALSE
  /\ offset = 0 /\ probe = NoProbe /\ replies = {} /\ checks = 0

(* A "clock" goes out: the probe is replaced, and the reply, if there is   *)
(* one, is read after one delay and due after another.                     *)
Transmit(n) ==
  /\ probe' = now
  /\ attempt' = n
  /\ \/ \E there, back \in 0..Delay :
          replies' = replies \cup {[read |-> now + there, at |-> now + there + back]}
     \/ replies' = replies

StartCheck ==
  /\ pc = "idle"
  /\ checks < Checks
  /\ checks' = checks + 1
  /\ Transmit(1)
  /\ pc' = "waiting" /\ since' = now
  /\ answered' = FALSE /\ completed' = FALSE
  /\ UNCHANGED <<now, offset>>

RetryLeft    == attempt < Attempts

(* The reply window is over: a gap, or the check has timed out.            *)
WaitEnds ==
  /\ pc = "waiting"
  /\ ~answered
  /\ now >= since + Wait
  /\ pc' = IF RetryLeft THEN "gap" ELSE "idle"
  /\ since' = now
  /\ UNCHANGED <<now, attempt, answered, completed, offset, probe, replies, checks>>

(* The retry is sent even if the reply came during the gap; the future is  *)
(* looked at after the transmission.                                       *)
GapEnds ==
  /\ pc = "gap"
  /\ now >= since + Gap
  /\ Transmit(attempt + 1)
  /\ pc' = IF answered THEN "idle" ELSE "waiting"
  /\ since' = now
  /\ UNCHANGED <<now, answered, completed, offset, checks>>

CheckReturns ==
  /\ pc = "waiting"
  /\ answered
  /\ pc' = "idle"
  /\ UNCHANGED <<now, attempt, since, answered, completed, offset, probe, replies, checks>>

WholeTrip    == 2 * Smaller(now - probe, 2 * Cap)             (* a mutant *)
(* Half of the round trip, in half ticks.                                  *)
Compensation == Smaller(now - probe, 2 * Cap)

(* _apply_latency_compensation, with the result the handler left.          *)
Compensate(done, raw) ==
  IF probe # NoProbe /\ done
  THEN offset' = raw + Compensation /\ probe' = NoProbe
  ELSE offset' = raw /\ UNCHANGED probe

(* A reply is handled: it completes the check that is registered, whatever *)
(* transmission it answers, and is ignored when none is.                   *)
Expected == pc \in {"waiting", "gap"} /\ ~answered

Reply(m) ==
  /\ m.at = now
  /\ replies' = replies \ {m}
  /\ IF Expected
     THEN /\ answered' = TRUE /\ completed' = TRUE
          /\ Compensate(TRUE, 2 * (m.read - now))
     ELSE /\ UNCHANGED <<answered, completed>>
          /\ Compensate(completed, offset)
  /\ UNCHANGED <<now, pc, attempt, since, checks>>

(* Any other event of the repeater: an advert, a message, a login reply.   *)
OtherEvent ==
  /\ completed /\ probe # NoProbe
  /\ Compensate(completed, offset)
  /\ UNCHANGED <<now, pc, attempt, since, answered, completed, replies, checks>>

Tick ==
  /\ now < Horizon
  /\ \A m \in replies : m.at > now
  /\ ~(pc = "waiting" /\ answered)
  /\ now' = now + 1
  /\ UNCHANGED <<pc, attempt, since, answered, completed, offset, probe, replies, checks>>

Next == \/ StartCheck \/ WaitEnds \/ GapEnds \/ CheckReturns
        \/ (\E m \in replies : Reply(m)) \/ OtherEvent \/ Tick
Spec == Init /\ [][Next]_vars

-----------------------------------------------------------------------------
TypeOK ==
  /\ now \in 0..Horizon /\ since \in 0..Horizon
  /\ pc \in {"idle", "waiting", "gap"}
  /\ attempt \in 0..Attempts /\ checks \in 0..Checks
  /\ {answered, completed} \subseteq BOOLEAN
  /\ offset \in Int
  /\ probe \in Nat \cup {NoProbe}
  /\ \A m \in replies : m.at >= now /\ m.read <= m.at

(* Travel time is not reported as drift: a published offset is never lower *)
(* than the delay of its reply explains, whatever was retransmitted, late  *)
(* or overheard, and exceeds the truth by at most one delay if its check   *)
(* transmitted once.                                                       *)
WithinDelay ==
  completed => /\ offset >= -2 * Delay
               /\ attempt = 1 => offset <= Delay

(* ... and so does that of a check that transmitted more than once.        *)
RetriesWithinDelay == completed => offset <= Delay
=============================================================================
