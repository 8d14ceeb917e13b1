------------------------------ MODULE Updater ------------------------------
(***************************************************************************)
(* Installing an update: the call that downloads the archive under the     *)
(* coordinator's lock, and the executor job that backs the integration up, *)
(* swaps the directories and rolls back.  The job goes on when its call is *)
(* cancelled, a reload makes a new coordinator with a lock of its own, any *)
(* file operation may fail, those of the rollback too, and Home Assistant  *)
(* may stop at every step.                                                 *)
(*                                                                         *)
(* A directory is absent (None), Broken (partly copied or deleted) or a    *)
(* whole tree of some version.  Versions are ordered numbers; version_is_- *)
(* newer and the validation of an archive's contents are UpdateOffer's.    *)
(* Backups are listed in the order of their names, which is that of their  *)
(* creation as long as the wall clock is not set back and no two of them   *)
(* are made in the same second.                                            *)
(***************************************************************************)
EXTENDS Integers, Sequences, FiniteSets

CONSTANTS
  Installs,     (* install calls                                           *)
  Newest,       (* bound: versions 1..Newest                               *)
  Limit,        (* BACKUP_LIMIT                                            *)
  Coordinators, (* bound: times the entry is loaded, plus one              *)
  Worlds,       (* what may happen in a behaviour, see world               *)
  None, Broken

ASSUME ConstantsAssumption ==
  /\ {Newest, Limit, Coordinators} \subseteq Nat \ {0}
  /\ Worlds \subseteq [overlap : BOOLEAN, crashes : BOOLEAN, branch : BOOLEAN,
                       versions : 1..Newest, starts : Nat]
  /\ None # Broken /\ {None, Broken} \cap Nat = {} /\ None \notin Installs

Versions == 1..Newest

VARIABLES
  world,      (* fixed: may callers be cancelled and the entry be reloaded *)
              (* (overlap), may Home Assistant stop (crashes), is it the   *)
              (* development channel, whose archive is the branch head     *)
              (* (branch); bounds: versions published, installs begun      *)
  remote,     (* the newest version published                              *)
  coord,      (* the coordinator of the loaded entry                       *)
  offer,      (* coordinator -> data.latest_version                        *)
  lock,       (* coordinator -> _install_lock is held                      *)
  status,     (* coordinator -> installation_state                         *)
  call,       (* install -> its coroutine: [pc, of: coordinator, shown,    *)
              (*   archive: version of the archive URL, None for a branch] *)
  job,        (* install -> its executor job: [pc, offered, content, reads:*)
              (*   the tree a backup is copying, base: the tree it copied] *)
  installed,  (* custom_components/meshcore_noc                            *)
  candidate,  (* install -> .meshcore_noc-new-* while its job is at work   *)
  previous,   (* install -> .meshcore_noc-old-* while its job is at work   *)
  left,       (* whole trees that ended jobs left in .meshcore_noc-old-*   *)
  backups,    (* oldest first: [label, tree, by: the job still copying it] *)
  loaded,     (* INTEGRATION_VERSION, None when it cannot be loaded        *)
  starts,     (* installs begun                                            *)
  ran,        (* history: the version that was loaded last                 *)
  made,       (* history: backups begun since ran was loaded               *)
  hurt        (* history: since an install succeeded, Home Assistant was   *)
              (* stopped while the old tree was set aside, or a rollback   *)
              (* failed                                                    *)

disk == <<installed, candidate, previous, left, backups>>
vars == <<world, remote, coord, offer, lock, status, call, job, disk, loaded, starts, ran, made,
          hurt>>

NoCall == [pc |-> "idle", of |-> 1, shown |-> None, archive |-> None]
NoJob  == [pc |-> "none", offered |-> None, content |-> None, reads |-> None, base |-> None]

Init ==
  /\ world \in Worlds
  /\ remote = 1 /\ coord = 1 /\ loaded = 1 /\ ran = 1 /\ installed = 1
  /\ offer = [c \in 1..Coordinators |-> None]
  /\ lock = [c \in 1..Coordinators |-> FALSE]
  /\ status = [c \in 1..Coordinators |-> "idle"]
  /\ call = [i \in Installs |-> NoCall]
  /\ job = [i \in Installs |-> NoJob]
  /\ candidate = [i \in Installs |-> None]
  /\ previous = [i \in Installs |-> None]
  /\ backups = <<>> /\ starts = 0 /\ made = 0
  /\ left = {} /\ hurt = FALSE

Publish ==
  /\ remote < world.versions
  /\ remote' = remote + 1
  /\ UNCHANGED <<world, coord, offer, lock, status, call, job, disk, loaded, starts, ran, made,
                 hurt>>

(* _async_update_data: the published version, nothing (no stable release,  *)
(* invalid metadata), or what was known (a network error).                 *)
Refresh ==
  /\ \E latest \in {remote, None} : offer' = [offer EXCEPT ![coord] = latest]
  /\ UNCHANGED <<world, remote, coord, lock, status, call, job, disk, loaded, starts, ran, made,
                 hurt>>

LockIgnored(c) == TRUE                                        (* a mutant *)
LockIsFree(c)  == ~lock[c]

StartInstall(i) ==
  /\ call[i].pc = "idle" /\ job[i].pc = "none"
  /\ starts < world.starts /\ loaded # None
  /\ LockIsFree(coord)
  /\ offer[coord] # None /\ offer[coord] > loaded
  /\ lock' = [lock EXCEPT ![coord] = TRUE]
  /\ status' = [status EXCEPT ![coord] = "downloading"]
  /\ call' = [call EXCEPT ![i] = [pc |-> "downloading", of |-> coord, shown |-> offer[coord],
                                  archive |-> IF world.branch THEN None ELSE offer[coord]]]
  /\ starts' = starts + 1
  /\ UNCHANGED <<world, remote, coord, offer, job, disk, loaded, ran, made, hurt>>

(* The job gets the version offered now.                                   *)
Downloaded(i) ==
  /\ call[i].pc = "downloading"
  /\ call' = [call EXCEPT ![i].pc = "installing"]
  /\ status' = [status EXCEPT ![call[i].of] = "installing"]
  /\ job' = [job EXCEPT ![i] = [pc |-> "extract", offered |-> offer[call[i].of],
               content |-> IF call[i].archive = None THEN remote ELSE call[i].archive,
               reads |-> None, base |-> None]]
  /\ UNCHANGED <<world, remote, coord, offer, lock, disk, loaded, starts, ran, made, hurt>>

Release(i, outcome) ==
  /\ call' = [call EXCEPT ![i] = NoCall]
  /\ lock' = [lock EXCEPT ![call[i].of] = FALSE]
  /\ status' = [status EXCEPT ![call[i].of] = outcome]

DownloadFails(i) ==
  /\ call[i].pc = "downloading"
  /\ Release(i, "failed")
  /\ UNCHANGED <<world, remote, coord, offer, job, disk, loaded, starts, ran, made, hurt>>

(* The caller is cancelled: no handler sets the state, the lock is freed,  *)
(* and a job that has begun goes on in its thread.                         *)
CallerCancelled(i) ==
  /\ world.overlap
  /\ call[i].pc \in {"downloading", "installing"}
  /\ Release(i, status[call[i].of])
  /\ UNCHANGED <<world, remote, coord, offer, job, disk, loaded, starts, ran, made, hurt>>

(* The job's result reaches the call, which asks for a restart.  No job    *)
(* looks for an old tree that another left behind.                         *)
KeepsHeld(i) ==                                               (* a mutant *)
  /\ call' = [call EXCEPT ![i].pc = IF job[i].pc = "failed" THEN "held" ELSE "idle"]
  /\ lock' = [lock EXCEPT ![call[i].of] = job[i].pc = "failed"]
  /\ status' = [status EXCEPT ![call[i].of] = "failed"]
Reported(i) ==
  Release(i, IF job[i].pc = "failed" THEN "failed" ELSE "restart_requested")

JobReturns(i) ==
  /\ job[i].pc \in {"replaced", "failed"}
  /\ job' = [job EXCEPT ![i] = NoJob]
  /\ candidate' = [candidate EXCEPT ![i] = None]
  /\ previous' = [previous EXCEPT ![i] = None]
  /\ left' = left \cup ({previous[i]} \cap Versions)
  /\ IF call[i].pc = "installing" THEN Reported(i) ELSE UNCHANGED <<call, lock, status>>
  /\ UNCHANGED <<world, remote, coord, offer, installed, backups, loaded, starts, ran, made, hurt>>

Reload ==
  /\ world.overlap
  /\ coord < Coordinators
  /\ coord' = coord + 1
  /\ UNCHANGED <<world, remote, offer, lock, status, call, job, disk, loaded, starts, ran, made,
                 hurt>>

-----------------------------------------------------------------------------
(* _install_archive, step by step.                                         *)
Goto(i, from, to) == job[i].pc = from /\ job' = [job EXCEPT ![i].pc = to]
around == <<world, remote, coord, offer, lock, status, call, loaded, starts, ran>>
others == <<around, left, made, hurt>>

(* The installed tree changes: a backup that is being copied from it comes *)
(* out mixed.                                                              *)
Touch(i, from, to) ==
  /\ job[i].pc = from
  /\ job' = [k \in Installs |->
       IF k = i THEN [job[k] EXCEPT !.pc = to]
       ELSE IF job[k].pc = "saving" THEN [job[k] EXCEPT !.reads = Broken]
       ELSE job[k]]

Whole(tree) == tree \notin {None, Broken}
Validates(i, tree) == Whole(tree) /\ (job[i].offered = None \/ tree = job[i].offered)

(* The archive is extracted and validated, or refused.                     *)
Extract(i) ==
  /\ \/ Validates(i, job[i].content) /\ Goto(i, "extract", "backup")
     \/ Goto(i, "extract", "failed")
  /\ UNCHANGED <<disk, made, hurt, around>>

(* The backup's directory is made, and the copy begins ...                 *)
BackUp(i) ==
  /\ job[i].pc = "backup"
  /\ \/ /\ installed # None
        /\ job' = [job EXCEPT ![i].pc = "saving", ![i].reads = installed]
        /\ backups' = Append(backups, [label |-> loaded, tree |-> Broken, by |-> i])
        /\ made' = made + 1
     \/ /\ job' = [job EXCEPT ![i].pc = "failed"]
        /\ UNCHANGED <<backups, made>>
  /\ UNCHANGED <<installed, candidate, previous, left, hurt, around>>

SkipsCopy(i, tree) == UNCHANGED backups                       (* a mutant *)
AddBackup(i, tree) == backups' =
  [n \in DOMAIN backups |-> IF backups[n].by = i
                              THEN [label |-> backups[n].label, tree |-> tree, by |-> None]
                              ELSE backups[n]]

(* ... and ends, or fails.                                                 *)
Saved(i) ==
  /\ job[i].pc = "saving"
  /\ \/ /\ AddBackup(i, job[i].reads)
        /\ job' = [job EXCEPT ![i].pc = "copy", ![i].base = job[i].reads, ![i].reads = None]
     \/ /\ AddBackup(i, Broken)
        /\ job' = [job EXCEPT ![i].pc = "failed", ![i].reads = None]
  /\ UNCHANGED <<installed, candidate, previous, others>>

CopyCandidate(i) ==
  /\ \/ /\ Goto(i, "copy", "swapOut")
        /\ candidate' = [candidate EXCEPT ![i] = job[i].content]
     \/ /\ Goto(i, "copy", "clean")
        /\ candidate' = [candidate EXCEPT ![i] = Broken]
  /\ UNCHANGED <<installed, previous, backups, others>>

SwapOut(i) ==
  /\ \/ /\ installed # None
        /\ Touch(i, "swapOut", "swapIn")
        /\ previous' = [previous EXCEPT ![i] = installed] /\ installed' = None
     \/ /\ Goto(i, "swapOut", "clean")
        /\ UNCHANGED <<previous, installed>>
  /\ UNCHANGED <<candidate, backups, others>>

AfterSwapFailure == "clean"                                   (* a mutant *)
RollBack         == "remove"

SwapIn(i) ==
  /\ \/ /\ installed = None
        /\ Touch(i, "swapIn", "verify")
        /\ installed' = candidate[i] /\ candidate' = [candidate EXCEPT ![i] = None]
     \/ /\ Goto(i, "swapIn", RollBack)
        /\ UNCHANGED <<installed, candidate>>
  /\ UNCHANGED <<previous, backups, others>>

Verify(i) ==
  /\ \/ Validates(i, installed) /\ Goto(i, "verify", "finish") /\ hurt' = FALSE
     \/ Goto(i, "verify", RollBack) /\ UNCHANGED hurt
  /\ UNCHANGED <<disk, made, around>>

(* The handler: the new tree is deleted and the old one renamed back.  An  *)
(* error in it ends the handler, with what it had done so far.             *)
Remove(i) ==
  /\ \/ Touch(i, "remove", "return") /\ installed' = None /\ UNCHANGED hurt
     \/ /\ installed # None
        /\ Touch(i, "remove", "failed") /\ installed' \in {installed, Broken}
        /\ hurt' = TRUE
  /\ UNCHANGED <<candidate, previous, left, backups, made, around>>

PutBack(i) ==
  /\ \/ /\ installed = None
        /\ Touch(i, "return", "clean")
        /\ installed' = previous[i] /\ previous' = [previous EXCEPT ![i] = None]
        /\ UNCHANGED hurt
     \/ /\ Goto(i, "return", "failed")
        /\ hurt' = TRUE
        /\ UNCHANGED <<installed, previous>>
  /\ UNCHANGED <<candidate, left, backups, made, around>>

Clean(i) ==
  /\ Goto(i, "clean", "failed")
  /\ \/ candidate' = [candidate EXCEPT ![i] = None]
     \/ candidate[i] # None /\ candidate' = [candidate EXCEPT ![i] = Broken]
  /\ UNCHANGED <<installed, previous, backups, others>>

Pruned(kept) == IF Len(kept) <= Limit THEN kept
                ELSE SubSeq(kept, Len(kept) - Limit + 1, Len(kept))

(* The old tree is deleted and the backups are pruned; an error here is    *)
(* reported although the new version is in place.                          *)
Finish(i) ==
  /\ \/ /\ Goto(i, "finish", "replaced")
        /\ previous' = [previous EXCEPT ![i] = None]
        /\ backups' = Pruned(backups)
     \/ /\ Goto(i, "finish", "failed")
        /\ previous' = [previous EXCEPT ![i] = Broken]
        /\ UNCHANGED backups
  /\ UNCHANGED <<installed, candidate, others>>

JobStep(i) == \/ Extract(i) \/ BackUp(i) \/ Saved(i) \/ CopyCandidate(i) \/ SwapOut(i)
              \/ SwapIn(i) \/ Verify(i) \/ Remove(i) \/ PutBack(i) \/ Clean(i) \/ Finish(i)

(* The old tree is set aside, under a name that only its job knows.        *)
Aside == {"swapIn", "verify", "remove", "return"}

(* Home Assistant stops, in the middle of a job or not, and starts again   *)
(* with what is installed.  (An old tree that was being deleted is not     *)
(* counted among those left.)                                              *)
Restart ==
  /\ world.crashes
  /\ loaded' = IF Whole(installed) THEN installed ELSE None
  /\ ran' = IF Whole(installed) THEN installed ELSE ran
  /\ made' = IF Whole(installed) THEN 0 ELSE made
  /\ hurt' = (hurt \/ \E i \in Installs : job[i].pc \in Aside)
  /\ left' = left \cup ({previous[i] : i \in {k \in Installs : job[k].pc # "finish"}} \cap Versions)
  /\ backups' = [n \in DOMAIN backups |-> [backups[n] EXCEPT !.by = None]]
  /\ candidate' = [i \in Installs |-> None] /\ previous' = [i \in Installs |-> None]
  /\ coord' = 1
  /\ offer' = [c \in 1..Coordinators |-> None]
  /\ lock' = [c \in 1..Coordinators |-> FALSE]
  /\ status' = [c \in 1..Coordinators |-> "idle"]
  /\ call' = [i \in Installs |-> NoCall] /\ job' = [i \in Installs |-> NoJob]
  /\ UNCHANGED <<world, remote, installed, starts>>

InstallStep(i) == Downloaded(i) \/ DownloadFails(i) \/ JobStep(i) \/ JobReturns(i)
Next == \/ Publish \/ Refresh \/ Reload \/ Restart
        \/ \E i \in Installs : StartInstall(i) \/ CallerCancelled(i) \/ InstallStep(i)

(* A download ends or times out, and a file operation ends.                *)
Spec == Init /\ [][Next]_vars /\ \A i \in Installs : WF_vars(InstallStep(i))

-----------------------------------------------------------------------------
Trees == Versions \cup {None, Broken}
Calls == [pc : {"idle", "downloading", "installing"}, of : 1..Coordinators,
          shown : Versions \cup {None}, archive : Versions \cup {None}]
Entries == [label : Versions \cup {None}, tree : Trees, by : Installs \cup {None}]
Jobs  == [pc : {"none", "extract", "backup", "saving", "copy", "swapOut", "swapIn", "verify",
                "remove", "return", "clean", "finish", "replaced", "failed"},
          offered : Versions \cup {None}, content : Trees, reads : Trees, base : Trees]
TypeOK ==
  /\ world \in Worlds
  /\ remote \in Versions /\ coord \in 1..Coordinators /\ loaded \in Versions \cup {None}
  /\ offer \in [1..Coordinators -> Versions \cup {None}]
  /\ lock \in [1..Coordinators -> BOOLEAN]
  /\ status \in [1..Coordinators ->
       {"idle", "downloading", "installing", "failed", "restart_requested"}]
  /\ call \in [Installs -> Calls] /\ job \in [Installs -> Jobs]
  /\ installed \in Trees
  /\ candidate \in [Installs -> Trees] /\ previous \in [Installs -> Trees]
  /\ left \subseteq Versions /\ backups \in Seq(Entries)
  /\ starts \in Nat /\ made \in Nat /\ ran \in Versions /\ hurt \in BOOLEAN

Backed(v) == \E n \in DOMAIN backups : backups[n].tree = v

BaseIsKept == \A i \in Installs : Whole(job[i].base) => Backed(job[i].base)
RanIsKept  == installed = ran \/ Backed(ran)

(* Nothing is lost until more backups were made than are kept, wherever    *)
(* Home Assistant stops and also when two jobs overlap: the tree an install*)
(* found is whole in a backup as long as the install is at work, and the   *)
(* version that ran last is in place or in a backup.                       *)
Restorable == made <= Limit => BaseIsKept /\ RanIsKept

(* With one install at a time, a whole tree is in place whenever no install*)
(* is at work.  After a rollback that failed itself, or a stop in the      *)
(* middle, a whole one lies beside it, until an install succeeds.          *)
WholeWhenSettled ==
  ~world.overlap /\ (\A i \in Installs : job[i].pc = "none")
    => installed \in Versions \/ (hurt /\ left # {})

(* One install at a time that fails after it began to swap leaves the tree *)
(* it found: in place, or if an operation of the handler failed, under the *)
(* name it was set aside.                                                  *)
RollsBack ==
  [][~world.overlap =>
       \A i \in Installs :
         /\ job[i].pc = "clean" /\ job'[i].pc = "failed" => installed' = job[i].base
         /\ job[i].pc \in Aside /\ job'[i].pc = "failed" => previous'[i] = job[i].base]_vars

(* Cancelled, failed or replaced by another, every install ends and frees  *)
(* its lock.                                                               *)
InstallsEnd ==
  \A i \in Installs : call[i].pc # "idle" ~> (call[i].pc = "idle" /\ job[i].pc = "none")

(* "A MeshCore NOC update is already in progress": one at a time.          *)
OneInstall == \A i, k \in Installs : job[i].pc # "none" /\ job[k].pc # "none" => i = k

(* What is put in place is the version that was requested.                 *)
InstallsWhatWasShown ==
  \A i \in Installs : job[i].pc = "finish" /\ call[i].pc = "installing"
    => installed = call[i].shown

(* A backup named <timestamp>-<version> holds that version.                *)
BackupsLabelled ==
  \A n \in DOMAIN backups : Whole(backups[n].tree) => backups[n].tree = backups[n].label

(* With no install at work the backups are no more than the limit.         *)
BackupsBounded == (\A i \in Installs : job[i].pc = "none") => Len(backups) <= Limit
=============================================================================
