---------------------------- MODULE UpdateOffer ----------------------------
(***************************************************************************)
(* Which version the updater offers: the two channels, the choice among the*)
(* published releases, what a failed check leaves, and the order of the    *)
(* versions that decides whether an offer can be installed.                *)
(*                                                                         *)
(* A version is a base and an alpha iteration, empty for a final version.  *)
(* An install is one step here; how it is done is the subject of Updater.  *)
(***************************************************************************)
EXTENDS Integers, Sequences

CONSTANTS
  Order,     (* the versions, in the order the project makes them          *)
  Published, (* bound: releases published                                  *)
  None

VersionSet == {Order[n] : n \in DOMAIN Order}
Place(v)   == CHOOSE n \in DOMAIN Order : Order[n] = v
IsFinal(v) == v.alpha = <<>>

(* Bases, then the iterations of a base part by part, then its final.      *)
MadeBefore(v, w) ==
  \/ v.base < w.base
  \/ v.base = w.base /\ ~IsFinal(v) /\ IsFinal(w)
  \/ /\ v.base = w.base /\ ~IsFinal(v) /\ ~IsFinal(w)
     /\ \E k \in 0..Len(v.alpha) :
          /\ k < Len(w.alpha) /\ \A j \in 1..k : v.alpha[j] = w.alpha[j]
          /\ k = Len(v.alpha) \/ v.alpha[k + 1] < w.alpha[k + 1]

ConstantsAssumption ==
  /\ Order \in Seq([base : Nat, alpha : Seq(Nat)]) /\ Order # <<>> /\ Published \in Nat
  /\ \A m, n \in DOMAIN Order : m < n => MadeBefore(Order[m], Order[n])
  /\ None \notin VersionSet

VARIABLES
  channel,  (* the update channel of the entry                             *)
  releases, (* GitHub's list, last published first: [version, kind]        *)
  head,     (* the version in the branch manifest                          *)
  latest,   (* data.latest_version                                         *)
  error,    (* last_check_error                                            *)
  running   (* INTEGRATION_VERSION                                         *)

vars == <<channel, releases, head, latest, error, running>>

Kinds == {"release", "draft", "prerelease", "malformed"}

Init ==
  /\ channel \in {"stable", "development"}
  /\ releases = <<>> /\ head = Order[1] /\ running = Order[1]
  /\ latest = None /\ error = None

Publish ==
  /\ Len(releases) < Published
  /\ \E v \in VersionSet, kind \in Kinds :
       /\ \A n \in DOMAIN releases : releases[n].version # v
       /\ releases' = <<[version |-> v, kind |-> kind]>> \o releases
  /\ UNCHANGED <<channel, head, latest, error, running>>

Develop ==
  /\ Place(head) < Len(Order)
  /\ head' = Order[Place(head) + 1]
  /\ UNCHANGED <<channel, releases, latest, error, running>>

Eligible(r)    == r.kind = "release"

(* _async_get_stable_update: the first release of the list that will do.   *)
StableOffer ==
  IF \E n \in DOMAIN releases : Eligible(releases[n])
  THEN releases[CHOOSE n \in DOMAIN releases :
                  Eligible(releases[n]) /\ \A k \in 1..(n-1) : ~Eligible(releases[k])].version
  ELSE None

(* A check is answered: the offer of the channel, or none.                 *)
Checked ==
  /\ latest' = IF channel = "stable" THEN StableOffer ELSE head
  /\ error' = IF latest' = None THEN "none" ELSE None
  /\ UNCHANGED <<channel, releases, head, running>>

BadMetadata ==
  /\ latest' = None /\ error' = "metadata"
  /\ UNCHANGED <<channel, releases, head, running>>

(* An offer that is known stays.                                           *)
NetworkError ==
  /\ error' = "network"
  /\ UNCHANGED <<channel, releases, head, latest, running>>

NoOffer    == latest' = None

(* The entry is reloaded with the other channel.                           *)
SwitchChannel ==
  /\ channel' \in {"stable", "development"} \ {channel}
  /\ NoOffer /\ error' = None
  /\ UNCHANGED <<releases, head, running>>

TupleBelow(s, t) ==
  \E k \in 1..Len(t) : /\ k = Len(s) + 1 \/ (k <= Len(s) /\ s[k] < t[k])
                       /\ \A j \in 1..(k-1) : s[j] = t[j]

AwesomeAbove(v, w) ==
  v.base > w.base \/ (v.base = w.base /\ IsFinal(v) /\ ~IsFinal(w))

AlphasByDigit(v, w) ==                                        (* a mutant *)
  IF IsFinal(v) \/ IsFinal(w) THEN AwesomeAbove(v, w)
  ELSE v.base > w.base \/ (v.base = w.base /\ v.alpha[1] % 10 > w.alpha[1] % 10)
AnyOther(v, w) == v # w                                       (* a mutant *)
version_is_newer(v, w) ==
  IF IsFinal(v) \/ IsFinal(w) THEN AwesomeAbove(v, w)
  ELSE v.base > w.base \/ (v.base = w.base /\ TupleBelow(w.alpha, v.alpha))

CanInstall == latest # None /\ version_is_newer(latest, running)
Install ==
  /\ CanInstall
  /\ running' = latest
  /\ latest' = None /\ error' = None
  /\ UNCHANGED <<channel, releases, head>>

Next == Publish \/ Develop \/ Checked \/ BadMetadata \/ NetworkError \/ SwitchChannel \/ Install
Spec == Init /\ [][Next]_vars

-----------------------------------------------------------------------------
TypeOK ==
  /\ channel \in {"stable", "development"}
  /\ releases \in Seq([version : VersionSet, kind : Kinds])
  /\ {head, running} \subseteq VersionSet
  /\ latest \in VersionSet \cup {None}
  /\ error \in {None, "none", "metadata", "network"}

(* No offer of either channel, in whatever order the versions are made and *)
(* published, ever takes the installation back.                            *)
NeverDowngrades == [][running' # running => Place(running') > Place(running)]_running

(* A later version is never taken for an older one: two-digit and dotted   *)
(* alpha iterations, finals and new bases can be installed once offered.   *)
LaterCanBeInstalled ==
  latest # None /\ Place(latest) > Place(running) => CanInstall

(* The stable channel never takes the installation to a draft, a prerelease*)
(* or an unpublished version, whatever channel and checks came before.     *)
StableStaysReleased ==
  [][channel = "stable" /\ running' # running =>
       \E n \in DOMAIN releases : releases[n] = [version |-> running', kind |-> "release"]]_vars

(* The stable channel offers the newest published production version.      *)
OffersNewest ==
  [][channel = "stable" /\ Checked /\ latest' # None =>
       \A n \in DOMAIN releases : releases[n].kind = "release" =>
         Place(releases[n].version) <= Place(latest')]_vars
=============================================================================
