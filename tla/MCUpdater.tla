----------------------------- MODULE MCUpdater -----------------------------
(***************************************************************************)
(* The updater in one run, in two worlds: one install after another, with  *)
(* stops anywhere and archives of a branch; and installs that overlap,     *)
(* because callers are cancelled and the entry is reloaded.  Beside them,  *)
(* the offers of UpdateOffer.  A behaviour is of one of the two modules,   *)
(* and the other stands still in it.                                       *)
(***************************************************************************)
EXTENDS Updater

CONSTANTS Order, Published   (* UpdateOffer's                               *)

VARIABLES
  part,
  channel, releases, head, latest, error, running  (* UpdateOffer's        *)

offer_vars == <<channel, releases, head, latest, error, running>>
mcvars == <<part, vars, offer_vars>>

SmallWorlds == {
  [overlap |-> FALSE, crashes |-> TRUE,  branch |-> TRUE,  versions |-> 3, starts |-> 3],
  [overlap |-> TRUE,  crashes |-> FALSE, branch |-> FALSE, versions |-> 2, starts |-> 2]}

(* Two bases, an alpha iteration of two digits and one of two parts.       *)
Version(base, alpha) == [base |-> base, alpha |-> alpha]
SmallOrder == <<Version(1, <<9>>), Version(1, <<10>>), Version(1, <<10, 1>>), Version(1, <<>>),
                Version(2, <<1>>), Version(2, <<>>)>>
Offer == INSTANCE UpdateOffer

ASSUME OfferAssumption == Offer!ConstantsAssumption

(* A bound on overlapping installs: once one has begun no check withdraws  *)
(* an offer, it may only change it.                                        *)
OffersStand == world.overlap /\ starts > 0 =>
  \A c \in 1..Coordinators : offer[c] # None => offer'[c] # None

MCInit ==
  /\ part \in {"install", "offer"}
  /\ Init /\ Offer!Init
  /\ part # "offer" => channel = "stable"
  /\ part # "install" => ~world.overlap

MCNext ==
  /\ UNCHANGED part
  /\ \/ part = "install" /\ Next /\ OffersStand /\ UNCHANGED offer_vars
     \/ part = "offer" /\ Offer!Next /\ UNCHANGED vars

MCInstallStep(i) == part = "install" /\ InstallStep(i) /\ UNCHANGED <<part, offer_vars>>

MCSpec == MCInit /\ [][MCNext]_mcvars /\ \A i \in Installs : WF_mcvars(MCInstallStep(i))

(* No offer of either channel, in whatever order the versions are made and *)
(* published, ever takes the installation back, and none of the stable     *)
(* channel to a draft, a prerelease or a version that is only on the branch.*)
OffersGoForward == Offer!NeverDowngrades /\ Offer!StableStaysReleased

(* A later version is never taken for an older one: two-digit and dotted   *)
(* alpha iterations, finals and new bases can be installed once offered.   *)
(* (The states of both modules are well typed as well.)                    *)
LaterCanBeInstalled == TypeOK /\ Offer!TypeOK /\ Offer!LaterCanBeInstalled
=============================================================================
