---------------------------- MODULE MCClockWrite ----------------------------
(***************************************************************************)
(* Three instances of ClockWrite in one run.  The constants of the         *)
(* configuration make the shared one: two syncs share a companion, frames  *)
(* are lost, callers cancel and boots are slow.  In the faulty one replies *)
(* also come late, the companion restarts on its own and one password is a *)
(* guest's.  In the calm one nothing is lost and only r1 is synchronized.  *)
(***************************************************************************)
EXTENDS ClockWrite

CONSTANTS
  r1, r2,
  CalmCompanions, CalmOffsets, CalmStamps, CalmEstimates   (* the calm one's *)

Companion(ahead, contacts) == [lead |-> ahead, future |-> contacts]
Administrators == [r \in Repeaters |-> "admin"]
OneGuest       == [r \in Repeaters |-> IF r = r1 THEN "admin" ELSE "guest"]
OldAdverts     == [r \in Repeaters |-> Past]
NewAdverts     == [r \in Repeaters |-> 2 * Hour]

SharedCompanions == {Companion(30, {30}), Companion(7200, {3600, 7200})}
OneOffset        == {-7200}
NoStamps         == {Past}
OneEstimate      == {1}

(* What the calm one starts with: behind, exact, at both sides of the safe *)
(* lead, repairable, days ahead.                                           *)
ManyCompanions == {Companion(-7200, {}), Companion(0, {}), Companion(29, {29}),
                   Companion(31, {31}), Companion(7200, {3600, 7200}),
                   Companion(3 * Day, {3 * Day})}
ManyOffsets    == {-7200, -31, -30, 0, 30, 31, 7200}
ManyStamps     == {Past, 0, Day - 1}
ManyEstimates  == {1, 15, 30}

(* A companion that is too far ahead has its clock from a contact, none is *)
(* exactly as far ahead as is still safe, and no repeater has accepted a   *)
(* request of a day ahead.                                                 *)
ASSUME CalmAssumption ==
  /\ r1 \in Repeaters
  /\ CalmCompanions \subseteq [lead : Int \ {SafeLead}, future : SUBSET (Int \ {SafeLead})]
  /\ \A c \in CalmCompanions : c.lead > SafeLead => \E x \in c.future : x > Grace
  /\ CalmOffsets \subseteq Int
  /\ CalmStamps \subseteq Int /\ \A s \in CalmStamps : s < Day
  /\ CalmEstimates \subseteq 1..30

Calm == INSTANCE ClockWrite WITH
  Access <- Administrators, SavedAdmin <- Repeaters, Advert <- NewAdverts,
  Companions <- CalmCompanions, Offsets <- CalmOffsets,
  Stamps <- CalmStamps, Estimates <- CalmEstimates, Firmware13 <- TRUE,
  Lossy <- FALSE, LateReplies <- FALSE, Cancels <- FALSE, SlowBoots <- FALSE,
  MaxRestarts <- 0, MaxSyncs <- 2

FaultyCompanions == {Companion(-7200, {}), Companion(7200, {3600, 7200})}
Faulty == INSTANCE ClockWrite WITH
  Access <- OneGuest, SavedAdmin <- {r1}, Companions <- FaultyCompanions,
  Offsets <- {-7200, 0}, LateReplies <- TRUE, MaxRestarts <- 1

VARIABLE world
mcvars == <<world, vars>>

MCInit ==
  \/ world = "shared" /\ Init
  \/ world = "faulty" /\ Faulty!Init /\ off[r2] = -7200
  \/ world = "calm" /\ Calm!Init /\ off[r2] = 0 /\ stamp[r2] = Past

OnlyFirst == \A r \in Repeaters \ {r1} : runs'[r] = 0 /\ stamp'[r] = stamp[r]
MCNext == /\ UNCHANGED world
          /\ \/ world = "shared" /\ Next
             \/ world = "faulty" /\ Faulty!Next
             \/ world = "calm" /\ Calm!Next /\ OnlyFirst

MCStep(r) == /\ UNCHANGED world
             /\ \/ world = "shared" /\ Step(r)
                \/ world = "faulty" /\ Faulty!Step(r)
                \/ world = "calm" /\ Calm!Step(r)
MCBoots   == UNCHANGED world /\ CompanionBoots

MCSpec == /\ MCInit /\ [][MCNext]_mcvars
          /\ \A r \in Repeaters : WF_mcvars(MCStep(r))
          /\ WF_mcvars(MCBoots)

(* With an administrator password and a radio that loses nothing, every    *)
(* sync of the calm instance ends in SUCCESS: stale replay state is        *)
(* recovered, a companion ahead is repaired, one behind is set forward.    *)
CalmSyncSucceeds == world = "calm" => CleanSyncSucceeds
=============================================================================
