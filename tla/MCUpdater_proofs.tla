-------------------------- MODULE MCUpdater_proofs --------------------------
(***************************************************************************)
(* What the updater's run checks on a small instance, for every number of  *)
(* installs, versions, coordinators and backups that are kept, and in every*)
(* world: with and without stops, with and without overlapping installs.   *)
(***************************************************************************)
EXTENDS MCUpdater, SequenceTheorems, WellFoundedInduction, TLAPS

LEMMA ConstantsAre ==
  /\ Newest \in Nat /\ Newest > 0 /\ Limit \in Nat /\ Limit > 0
  /\ Coordinators \in Nat /\ Coordinators > 0
  /\ None # Broken /\ None \notin Nat /\ Broken \notin Nat /\ None \notin Installs
  /\ None \notin Versions /\ Broken \notin Versions /\ 1 \in Versions /\ 1 \in 1..Coordinators
  /\ Versions \subseteq Nat
  /\ \A w \in Worlds : /\ w.overlap \in BOOLEAN /\ w.crashes \in BOOLEAN /\ w.branch \in BOOLEAN
                       /\ w.versions \in Versions /\ w.starts \in Nat
<1>1. Newest \in Nat \ {0} /\ Limit \in Nat \ {0} /\ Coordinators \in Nat \ {0}
  BY ConstantsAssumption
<1>2. None \notin Nat /\ Broken \notin Nat /\ None # Broken /\ None \notin Installs
  BY ConstantsAssumption
<1>3. \A w \in Worlds : /\ w.overlap \in BOOLEAN /\ w.crashes \in BOOLEAN /\ w.branch \in BOOLEAN
                        /\ w.versions \in 1..Newest /\ w.starts \in Nat
  BY ConstantsAssumption
<1> QED BY <1>1, <1>2, <1>3 DEF Versions

LEMMA TypesAre ==
  ASSUME TypeOK
  PROVE  /\ \A i \in Installs :
              /\ job[i] \in Jobs /\ call[i] \in Calls
              /\ candidate[i] \in Trees /\ previous[i] \in Trees
         /\ \A v \in Versions : Whole(v) /\ v \in Trees
         /\ \A tree \in Trees : Whole(tree) <=> tree \in Versions
         /\ None \in Trees /\ Broken \in Trees
BY ConstantsAre DEF TypeOK, Trees, Whole

-----------------------------------------------------------------------------
(* Types.                                                                  *)
LEMMA TypeInit == Init => TypeOK
<1> SUFFICES ASSUME Init PROVE TypeOK
  OBVIOUS
<1> USE ConstantsAre
<1>1. None \in Trees /\ 1 \in Trees
  BY DEF Trees
<1>2. NoCall \in Calls /\ NoJob \in Jobs
  BY <1>1 DEF NoCall, NoJob, Calls, Jobs
<1>3. backups \in Seq(Entries)
  BY DEF Init
<1> QED BY <1>1, <1>2, <1>3 DEF Init, TypeOK

LEMMA GotoTyped ==
  ASSUME TypeOK, NEW i \in Installs, NEW from, NEW to, Goto(i, from, to) \/ Touch(i, from, to),
         to \in {"backup", "copy", "swapOut", "swapIn", "verify", "remove", "return", "clean",
                 "finish", "replaced", "failed"}
  PROVE  job' \in [Installs -> Jobs]
<1>1. job \in [Installs -> Jobs] /\ Broken \in Trees
  BY DEF TypeOK, Trees
<1>2. CASE Goto(i, from, to)
  BY <1>1, <1>2 DEF Goto, Jobs
<1>3. CASE Touch(i, from, to)
  <2>1. \A k \in Installs : /\ [job[k] EXCEPT !.pc = to] \in Jobs
                            /\ [job[k] EXCEPT !.reads = Broken] \in Jobs
                            /\ job[k] \in Jobs
    BY <1>1 DEF Jobs
  <2> QED BY <1>3, <2>1 DEF Touch
<1> QED BY <1>2, <1>3

(* A function on the places of a sequence is a sequence of that length.    *)
LEMMA Relisted ==
  ASSUME NEW S, NEW s \in Seq(S), NEW t \in [DOMAIN s -> S]
  PROVE  t \in Seq(S) /\ Len(t) = Len(s) /\ DOMAIN t = DOMAIN s
<1>1. Len(s) \in Nat /\ DOMAIN s = 1..Len(s)
  BY LenProperties
<1>2. t \in Seq(S)
  BY <1>1, SeqDef, Zenon
<1>3. Len(t) \in Nat /\ DOMAIN t = 1..Len(t) /\ DOMAIN t = DOMAIN s
  BY <1>2, LenProperties
<1>4. Len(t) = Len(s)
  BY <1>1, <1>3
<1> QED BY <1>2, <1>3, <1>4

LEMMA BackupsAre ==
  ASSUME TypeOK
  PROVE  /\ Len(backups) \in Nat /\ DOMAIN backups = 1..Len(backups) /\ made \in Nat
         /\ \A n \in DOMAIN backups : backups[n] \in Entries
<1>1. backups \in Seq(Entries) /\ made \in Nat
  BY DEF TypeOK
<1>2. /\ Len(backups) \in Nat /\ DOMAIN backups = 1..Len(backups)
      /\ backups \in [1..Len(backups) -> Entries]
  BY <1>1, LenProperties
<1> QED BY <1>1, <1>2

LEMMA AddedTyped ==
  ASSUME TypeOK, NEW i \in Installs, NEW tree \in Trees, AddBackup(i, tree)
  PROVE  backups' \in Seq(Entries) /\ Len(backups') = Len(backups) /\ DOMAIN backups' = DOMAIN backups
<1>1. \A n \in DOMAIN backups :
        [label |-> backups[n].label, tree |-> tree, by |-> None] \in Entries
  BY BackupsAre DEF Entries
<1>2. backups' \in [DOMAIN backups -> Entries]
  BY <1>1, BackupsAre DEF AddBackup
<1> QED BY <1>2, Relisted DEF TypeOK

LEMMA UnmarkedTyped ==
  ASSUME TypeOK, backups' = [n \in DOMAIN backups |-> [backups[n] EXCEPT !.by = None]]
  PROVE  backups' \in Seq(Entries) /\ Len(backups') = Len(backups) /\ DOMAIN backups' = DOMAIN backups
<1>1. \A n \in DOMAIN backups : [backups[n] EXCEPT !.by = None] \in Entries
  BY BackupsAre DEF Entries
<1>2. backups' \in [DOMAIN backups -> Entries]
  BY <1>1
<1> QED BY <1>2, Relisted DEF TypeOK

(* The calls and the job's coordinator side: nothing on the disk changes.  *)
LEMMA TypeCalls ==
  ASSUME TypeOK, NEW i \in Installs,
         StartInstall(i) \/ CallerCancelled(i) \/ Downloaded(i) \/ DownloadFails(i)
  PROVE  TypeOK'
<1> USE ConstantsAre
<1>1. NoCall \in Calls
  BY DEF NoCall, Calls
<1>2. call[i] \in Calls /\ offer[coord] \in Versions \cup {None} /\ status[call[i].of] \in
        {"idle", "downloading", "installing", "failed", "restart_requested"}
  BY DEF TypeOK, Calls
<1>3. CASE StartInstall(i)
  <2>1. [pc |-> "downloading", of |-> coord, shown |-> offer[coord],
         archive |-> IF world.branch THEN None ELSE offer[coord]] \in Calls
    BY <1>2 DEF TypeOK, Calls
  <2>2. call' \in [Installs -> Calls]
    BY <1>3, <2>1 DEF StartInstall, TypeOK
  <2>3. /\ lock' \in [1..Coordinators -> BOOLEAN]
        /\ status' \in [1..Coordinators ->
             {"idle", "downloading", "installing", "failed", "restart_requested"}]
        /\ starts' \in Nat
    BY <1>3 DEF StartInstall, TypeOK
  <2> QED BY <1>3, <2>2, <2>3 DEF StartInstall, TypeOK, disk
<1>4. CASE CallerCancelled(i)
  <2>1. call' \in [Installs -> Calls]
    BY <1>1, <1>4 DEF CallerCancelled, Release, TypeOK
  <2>2. lock' \in [1..Coordinators -> BOOLEAN]
    BY <1>4 DEF CallerCancelled, Release, TypeOK
  <2>3. status' \in [1..Coordinators ->
             {"idle", "downloading", "installing", "failed", "restart_requested"}]
    BY <1>2, <1>4 DEF CallerCancelled, Release, TypeOK
  <2> QED BY <1>4, <2>1, <2>2, <2>3 DEF CallerCancelled, TypeOK, disk
<1>5. CASE Downloaded(i)
  <2>1. call' \in [Installs -> Calls]
    BY <1>2, <1>5 DEF Downloaded, TypeOK, Calls
  <2>2. /\ offer[call[i].of] \in Versions \cup {None}
        /\ (IF call[i].archive = None THEN remote ELSE call[i].archive) \in Trees
    BY <1>2 DEF TypeOK, Calls, Trees
  <2>3. job' \in [Installs -> Jobs]
    <3>1. [pc |-> "extract", offered |-> offer[call[i].of],
           content |-> IF call[i].archive = None THEN remote ELSE call[i].archive,
           reads |-> None, base |-> None] \in Jobs
      BY <2>2 DEF Jobs, Trees
    <3> QED BY <1>5, <3>1 DEF Downloaded, TypeOK
  <2>4. status' \in [1..Coordinators ->
             {"idle", "downloading", "installing", "failed", "restart_requested"}]
    BY <1>5 DEF Downloaded, TypeOK
  <2> QED BY <1>5, <2>1, <2>3, <2>4 DEF Downloaded, TypeOK, disk
<1>6. CASE DownloadFails(i)
  BY <1>1, <1>6 DEF DownloadFails, Release, TypeOK, disk
<1> QED BY <1>3, <1>4, <1>5, <1>6

LEMMA TypeJobs ==
  ASSUME TypeOK, NEW i \in Installs, JobStep(i)
  PROVE  TypeOK'
<1> USE ConstantsAre, TypesAre
<1>0. /\ installed \in Trees /\ hurt \in BOOLEAN
      /\ candidate \in [Installs -> Trees] /\ previous \in [Installs -> Trees]
  BY DEF TypeOK
<1>1. CASE Extract(i)
  BY <1>1, GotoTyped DEF Extract, TypeOK, disk, around
<1>2. CASE BackUp(i)
  <2>1. job' \in [Installs -> Jobs]
    <3>0. job[i] \in Jobs /\ installed \in Trees
      BY DEF TypeOK
    <3>1. /\ [job[i] EXCEPT !.pc = "saving", !.reads = installed] \in Jobs
          /\ [job[i] EXCEPT !.pc = "failed"] \in Jobs
      BY <3>0 DEF Jobs
    <3>2. \/ job' = [job EXCEPT ![i] = [job[i] EXCEPT !.pc = "saving", !.reads = installed]]
          \/ job' = [job EXCEPT ![i] = [job[i] EXCEPT !.pc = "failed"]]
      BY <1>2 DEF BackUp, TypeOK, Jobs
    <3> QED BY <3>1, <3>2 DEF TypeOK
  <2>2. backups' \in Seq(Entries) /\ made' \in Nat
    <3>1. [label |-> loaded, tree |-> Broken, by |-> i] \in Entries
      BY DEF TypeOK, Entries
    <3>2. backups \in Seq(Entries) /\ made \in Nat
      BY DEF TypeOK
    <3>3. \A e \in Entries : Append(backups, e) \in Seq(Entries)
      BY <3>2, AppendProperties
    <3> DEFINE e == [label |-> loaded, tree |-> Broken, by |-> i]
    <3>4. backups' \in {backups, Append(backups, e)} /\ made' \in {made, made + 1}
      BY <1>2 DEF BackUp
    <3>5. e \in Entries
      BY <3>1
    <3> HIDE DEF e
    <3> QED BY <3>2, <3>3, <3>4, <3>5
  <2> QED BY <1>2, <2>1, <2>2 DEF BackUp, TypeOK, around
<1>11. CASE Saved(i)
  <2>1. job' \in [Installs -> Jobs]
    <3>1. /\ [job[i] EXCEPT !.pc = "copy", !.base = job[i].reads, !.reads = None] \in Jobs
          /\ [job[i] EXCEPT !.pc = "failed", !.reads = None] \in Jobs
      BY DEF Jobs
    <3>2. \/ job' = [job EXCEPT ![i] = [job[i] EXCEPT !.pc = "copy", !.base = job[i].reads,
                                                     !.reads = None]]
          \/ job' = [job EXCEPT ![i] = [job[i] EXCEPT !.pc = "failed", !.reads = None]]
      BY <1>11 DEF Saved, TypeOK, Jobs
    <3> QED BY <3>1, <3>2 DEF TypeOK
  <2>2. job[i].reads \in Trees
    BY DEF Jobs
  <2>3. backups' \in Seq(Entries)
    BY <1>11, <2>2, AddedTyped DEF Saved
  <2> QED BY <1>11, <2>1, <2>3 DEF Saved, TypeOK, others, around
<1>3. CASE CopyCandidate(i)
  <2>1. job' \in [Installs -> Jobs]
    BY <1>3, GotoTyped DEF CopyCandidate
  <2>2. job[i].content \in Trees /\ Broken \in Trees
    BY DEF Jobs
  <2>3. candidate' \in [Installs -> Trees]
    BY <1>3, <2>2 DEF CopyCandidate, TypeOK
  <2> QED BY <1>3, <2>1, <2>3 DEF CopyCandidate, TypeOK, others, around
<1>4. CASE SwapOut(i)
  <2>1. job' \in [Installs -> Jobs]
    BY <1>4, GotoTyped DEF SwapOut
  <2>2. previous' \in [Installs -> Trees] /\ installed' \in Trees
    BY <1>4, <1>0 DEF SwapOut
  <2> QED BY <1>4, <2>1, <2>2 DEF SwapOut, TypeOK, others, around
<1>5. CASE SwapIn(i)
  <2>1. job' \in [Installs -> Jobs]
    BY <1>5, GotoTyped DEF SwapIn, RollBack
  <2>2. candidate' \in [Installs -> Trees] /\ installed' \in Trees
    BY <1>5, <1>0 DEF SwapIn
  <2> QED BY <1>5, <2>1, <2>2 DEF SwapIn, TypeOK, others, around
<1>6. CASE Verify(i)
  BY <1>6, GotoTyped DEF Verify, RollBack, TypeOK, disk, around
<1>7. CASE Remove(i)
  <2>1. job' \in [Installs -> Jobs]
    BY <1>7, GotoTyped DEF Remove
  <2>2. installed' \in Trees /\ hurt' \in BOOLEAN
    BY <1>7 DEF Remove, TypeOK
  <2> QED BY <1>7, <2>1, <2>2 DEF Remove, TypeOK, around
<1>8. CASE PutBack(i)
  <2>1. job' \in [Installs -> Jobs]
    BY <1>8, GotoTyped DEF PutBack
  <2>2. previous' \in [Installs -> Trees] /\ installed' \in Trees /\ hurt' \in BOOLEAN
    BY <1>8, <1>0 DEF PutBack
  <2> QED BY <1>8, <2>1, <2>2 DEF PutBack, TypeOK, around
<1>9. CASE Clean(i)
  <2>1. job' \in [Installs -> Jobs]
    BY <1>9, GotoTyped DEF Clean
  <2>2. candidate' \in [Installs -> Trees]
    BY <1>9 DEF Clean, TypeOK
  <2> QED BY <1>9, <2>1, <2>2 DEF Clean, TypeOK, others, around
<1>10. CASE Finish(i)
  <2>1. job' \in [Installs -> Jobs]
    BY <1>10, GotoTyped DEF Finish
  <2>2. previous' \in [Installs -> Trees]
    BY <1>10 DEF Finish, TypeOK
  <2>3. backups' \in Seq(Entries)
    <3>1. Len(backups) > Limit => Len(backups) - Limit + 1 \in 1..(Len(backups) + 1)
      BY LenProperties DEF TypeOK
    <3>2. Pruned(backups) \in Seq(Entries)
      BY <3>1, SubSeqProperties, LenProperties DEF TypeOK, Pruned
    <3> QED BY <1>10, <3>2 DEF Finish, TypeOK
  <2> QED BY <1>10, <2>1, <2>2, <2>3 DEF Finish, TypeOK, others, around
<1> QED BY <1>1, <1>2, <1>3, <1>4, <1>5, <1>6, <1>7, <1>8, <1>9, <1>10, <1>11 DEF JobStep

LEMMA TypeStep == TypeOK /\ [Next]_vars => TypeOK'
<1> SUFFICES ASSUME TypeOK, [Next]_vars PROVE TypeOK'
  OBVIOUS
<1> USE ConstantsAre, TypesAre
<1>0. NoCall \in Calls /\ NoJob \in Jobs
  BY DEF NoCall, NoJob, Calls, Jobs, Trees
<1>1. CASE Publish
  BY <1>1 DEF Publish, TypeOK, disk, Versions
<1>2. CASE Refresh
  BY <1>2 DEF Refresh, TypeOK, disk
<1>3. CASE Reload
  BY <1>3 DEF Reload, TypeOK, disk
<1>4. CASE Restart
  <2>1. loaded' \in Versions \cup {None} /\ ran' \in Versions /\ made' \in Nat
    BY <1>4 DEF Restart, TypeOK
  <2>2. hurt' \in BOOLEAN /\ left' \subseteq Versions /\ backups' \in Seq(Entries)
    BY <1>4, UnmarkedTyped DEF Restart, TypeOK
  <2>3. /\ candidate' \in [Installs -> Trees] /\ previous' \in [Installs -> Trees]
        /\ call' \in [Installs -> Calls] /\ job' \in [Installs -> Jobs]
    BY <1>0, <1>4 DEF Restart
  <2>4. /\ offer' \in [1..Coordinators -> Versions \cup {None}]
        /\ lock' \in [1..Coordinators -> BOOLEAN]
        /\ status' \in [1..Coordinators ->
             {"idle", "downloading", "installing", "failed", "restart_requested"}]
    BY <1>4 DEF Restart
  <2> QED BY <1>4, <2>1, <2>2, <2>3, <2>4 DEF Restart, TypeOK
<1>5. ASSUME NEW i \in Installs, JobReturns(i) PROVE TypeOK'
  <2>1. /\ candidate' \in [Installs -> Trees] /\ previous' \in [Installs -> Trees]
        /\ job' \in [Installs -> Jobs]
    <3>1. /\ candidate \in [Installs -> Trees] /\ previous \in [Installs -> Trees]
          /\ job \in [Installs -> Jobs]
      BY DEF TypeOK
    <3> QED BY <1>0, <1>5, <3>1 DEF JobReturns
  <2>2. /\ lock' \in [1..Coordinators -> BOOLEAN]
        /\ call' \in [Installs -> Calls]
    <3>1. lock \in [1..Coordinators -> BOOLEAN] /\ call \in [Installs -> Calls]
      BY DEF TypeOK
    <3>2. (lock' = lock /\ call' = call) \/ Release(i, IF job[i].pc = "failed" THEN "failed"
                                                    ELSE "restart_requested")
      BY <1>5 DEF JobReturns, Reported
    <3> QED BY <1>0, <3>1, <3>2 DEF Release
  <2>3. status' \in [1..Coordinators ->
             {"idle", "downloading", "installing", "failed", "restart_requested"}]
    BY <1>5 DEF JobReturns, Reported, Release, TypeOK
  <2>4. left' \subseteq Versions
    BY <1>5 DEF JobReturns, TypeOK
  <2> QED BY <1>5, <2>1, <2>2, <2>3, <2>4 DEF JobReturns, TypeOK
<1>6. CASE UNCHANGED vars
  BY <1>6 DEF vars, disk, TypeOK
<1> QED BY <1>1, <1>2, <1>3, <1>4, <1>5, <1>6, TypeCalls, TypeJobs DEF Next, InstallStep

-----------------------------------------------------------------------------
(* Backups.  The last `made' of them were begun since the version that ran *)
(* last was loaded, and no pruning that keeps Limit of them takes one of   *)
(* these as long as made <= Limit.                                         *)
Listed(e) == \E n \in DOMAIN backups : n > Len(backups) - made /\ backups[n] = e
Recent(v) == \E e \in Entries : Listed(e) /\ e.tree = v
Under(i)  == \E e \in Entries : Listed(e) /\ e.by = i

(* The places of a job before it changes the installation.                 *)
Before == {"none", "extract", "backup", "saving", "failed"}

(* Restorable is not inductive: which tree a job finds, and what else is   *)
(* in the backups, matters for the next step.  The backup of a job's base, *)
(* and the one that it is still copying, are among the recent ones; and    *)
(* unless the version that ran is in one of them too it is in place, no job*)
(* has got far enough to touch it, and every copy is of it.                *)
Kept == made <= Limit =>
  /\ \A i \in Installs : Whole(job[i].base) => Recent(job[i].base)
  /\ \A i \in Installs : job[i].pc = "saving" => Under(i)
  /\ \/ Recent(ran)
     \/ /\ installed = ran
        /\ \A i \in Installs : /\ job[i].pc \in Before
                               /\ job[i].pc = "saving" => job[i].reads = ran

(* A backup that is still being copied is not whole.                       *)
Marked == \A n \in DOMAIN backups : backups[n].by # None => backups[n].tree = Broken

LEMMA ListedAppended ==
  ASSUME TypeOK, NEW new \in Entries, backups' = Append(backups, new), made' = made + 1
  PROVE  /\ \A e : Listed(e) => Listed(e)'
         /\ Listed(new)'
         /\ \A n \in DOMAIN backups' : backups'[n] = new \/ \E m \in DOMAIN backups : backups'[n] = backups[m]
<1>1. backups \in Seq(Entries)
  BY DEF TypeOK
<1>2. /\ Len(backups') = Len(backups) + 1 /\ DOMAIN backups' = 1..Len(backups')
      /\ \A n \in 1..Len(backups) : backups'[n] = backups[n]
      /\ backups'[Len(backups) + 1] = new
  BY <1>1, AppendProperties, LenProperties
<1> QED BY <1>1, <1>2, BackupsAre DEF Listed

LEMMA ListedPruned ==
  ASSUME TypeOK, backups' = Pruned(backups), made' = made
  PROVE  /\ made <= Limit => \A e : Listed(e) => Listed(e)'
         /\ \A n \in DOMAIN backups' : \E m \in DOMAIN backups : backups'[n] = backups[m]
<1>0. Limit \in Nat /\ Len(backups) \in Nat /\ DOMAIN backups = 1..Len(backups) /\ made \in Nat
  BY ConstantsAre, BackupsAre
<1>1. CASE Len(backups) <= Limit
  BY <1>1 DEF Pruned, Listed
<1>2. CASE Len(backups) > Limit
  <2> DEFINE cut == Len(backups) - Limit
  <2>1. cut \in Nat /\ cut + Limit = Len(backups) /\ backups' = SubSeq(backups, cut + 1, Len(backups))
    BY <1>0, <1>2 DEF Pruned
  <2> HIDE DEF cut
  <2>2. \A n \in (cut + 1)..Len(backups) : backups[n] \in Range(backups)
    BY <1>0, <2>1 DEF Range
  <2>3. /\ Len(backups') = Limit
        /\ \A n \in 1..Limit : backups'[n] = backups[n + cut]
        /\ backups' \in Seq(Range(backups))
    <3>1. cut + 1 \in Int /\ Len(backups) \in Int
      BY <1>0, <2>1
    <3>2. /\ Len(backups') = IF cut + 1 <= Len(backups) THEN Len(backups) - (cut + 1) + 1 ELSE 0
          /\ \A n \in 1..(Len(backups) - (cut + 1) + 1) : backups'[n] = backups[cut + 1 + n - 1]
          /\ backups' \in Seq(Range(backups))
      BY <2>1, <2>2, <3>1, SubSeqProperties
    <3>3. Len(backups) - (cut + 1) + 1 = Limit
      <4>1. \A a, b, c \in Int : a + b = c => c - (a + 1) + 1 = b
        OBVIOUS
      <4>2. cut \in Int /\ Limit \in Int
        BY <1>0, <2>1
      <4>3. Len(backups) \in Int
        BY <1>0
      <4>4. cut + Limit = Len(backups)
        BY <2>1
      <4> QED BY <4>1, <4>2, <4>3, <4>4
    <3>4. Limit > 0 /\ cut + 1 <= Len(backups)
      BY <1>0, <2>1, ConstantsAre
    <3>5. Len(backups') = Limit
      BY <3>2, <3>3, <3>4
    <3>6. ASSUME NEW n \in 1..Limit PROVE backups'[n] = backups[n + cut]
      <4>1. n \in Int /\ cut \in Int
        BY <1>0, <2>1
      <4>2. cut + 1 + n - 1 = n + cut
        BY <4>1
      <4> QED BY <3>2, <3>3, <4>2
    <3> QED BY <3>2, <3>5, <3>6
  <2>4. DOMAIN backups' = 1..Limit
    BY <2>3, LenProperties
  <2>5. ASSUME made <= Limit, NEW n \in DOMAIN backups, n > Len(backups) - made
        PROVE  \E m \in DOMAIN backups' : m > Len(backups') - made' /\ backups'[m] = backups[n]
    <3>1. n \in Int /\ cut \in Int /\ n <= Len(backups)
      BY <1>0, <2>1
    <3>2. n - cut > Limit - made /\ n - cut <= Limit /\ n - cut >= 1
      BY <1>0, <2>1, <2>5, <3>1
    <3>3. n - cut \in 1..Limit /\ (n - cut) + cut = n
      BY <1>0, <3>1, <3>2
    <3>4. backups'[n - cut] = backups[n]
      BY <2>3, <3>3
    <3>5. n - cut > Len(backups') - made'
      BY <2>3, <3>2
    <3> QED BY <2>4, <3>3, <3>4, <3>5
  <2>6. \A n \in 1..Limit : n + cut \in DOMAIN backups
    BY <1>0, <2>1
  <2>7. made <= Limit => \A e : Listed(e) => Listed(e)'
    <3> SUFFICES ASSUME made <= Limit, NEW e, Listed(e) PROVE Listed(e)'
      OBVIOUS
    <3>1. PICK n \in DOMAIN backups : n > Len(backups) - made /\ backups[n] = e
      BY DEF Listed
    <3>2. PICK m \in DOMAIN backups' : m > Len(backups') - made' /\ backups'[m] = backups[n]
      BY <2>5, <3>1
    <3> QED BY <3>1, <3>2 DEF Listed
  <2> QED BY <2>3, <2>4, <2>6, <2>7
<1> QED BY <1>0, <1>1, <1>2

LEMMA AddedListed ==
  ASSUME TypeOK, Marked, NEW i \in Installs, NEW tree \in Trees, AddBackup(i, tree), made' = made
  PROVE  /\ \A v \in Versions : Recent(v) => Recent(v)'
         /\ \A k \in Installs \ {i} : Under(k) => Under(k)'
         /\ Under(i) => Recent(tree)'
         /\ Marked'
<1> USE ConstantsAre
<1>1. /\ DOMAIN backups' = DOMAIN backups /\ Len(backups') = Len(backups)
      /\ \A n \in DOMAIN backups' : backups'[n] \in Entries
  <2>1. backups' \in Seq(Entries)
    BY AddedTyped
  <2> QED BY <2>1, AddedTyped, LenProperties
<1>2. \A n \in DOMAIN backups :
        IF backups[n].by = i THEN backups'[n].tree = tree /\ backups'[n].by = None
                             ELSE backups'[n] = backups[n]
  BY DEF AddBackup
<1>4. ASSUME NEW v \in Versions, Recent(v) PROVE Recent(v)'
  <2>1. PICK n \in DOMAIN backups : n > Len(backups) - made /\ backups[n].tree = v
    BY <1>4 DEF Recent, Listed
  <2>2. backups[n].by # i
    BY <2>1 DEF Marked
  <2>3. backups'[n].tree = v /\ backups'[n] \in Entries
    BY <1>1, <1>2, <2>1, <2>2
  <2> QED BY <1>1, <2>1, <2>3 DEF Recent, Listed
<1>5. ASSUME NEW k \in Installs \ {i}, Under(k) PROVE Under(k)'
  <2>1. PICK n \in DOMAIN backups : n > Len(backups) - made /\ backups[n].by = k
    BY <1>5 DEF Under, Listed
  <2>2. backups'[n].by = k /\ backups'[n] \in Entries
    BY <1>1, <1>2, <2>1
  <2> QED BY <1>1, <2>1, <2>2 DEF Under, Listed
<1>6. ASSUME Under(i) PROVE Recent(tree)'
  <2>1. PICK n \in DOMAIN backups : n > Len(backups) - made /\ backups[n].by = i
    BY <1>6 DEF Under, Listed
  <2>2. backups'[n].tree = tree /\ backups'[n] \in Entries
    BY <1>1, <1>2, <2>1
  <2> QED BY <1>1, <2>1, <2>2 DEF Recent, Listed
<1>7. Marked'
  BY <1>1, <1>2 DEF Marked
<1> QED BY <1>4, <1>5, <1>6, <1>7

LEMMA UnmarkedListed ==
  ASSUME TypeOK, made' = made,
         backups' = [n \in DOMAIN backups |-> [backups[n] EXCEPT !.by = None]]
  PROVE  \A v : Recent(v) => Recent(v)'
<1>1. /\ DOMAIN backups' = DOMAIN backups /\ Len(backups') = Len(backups)
      /\ \A n \in DOMAIN backups' : backups'[n] \in Entries
  <2>1. backups' \in Seq(Entries)
    BY UnmarkedTyped
  <2> QED BY <2>1, UnmarkedTyped, LenProperties
<1>2. \A n \in DOMAIN backups : backups'[n].tree = backups[n].tree
  BY BackupsAre DEF Entries
<1> SUFFICES ASSUME NEW v, Recent(v) PROVE Recent(v)'
  OBVIOUS
<1>3. PICK n \in DOMAIN backups : n > Len(backups) - made /\ backups[n].tree = v
  BY DEF Recent, Listed
<1> QED BY <1>1, <1>2, <1>3 DEF Recent, Listed

LEMMA KeptInit == Init => Kept /\ Marked
<1> SUFFICES ASSUME Init PROVE Kept /\ Marked
  OBVIOUS
<1>1. installed = ran /\ backups = <<>> /\ \A i \in Installs : job[i] = NoJob
  BY DEF Init
<1>2. ~Whole(NoJob.base) /\ NoJob.pc = "none" /\ NoJob.pc \in Before
  BY DEF NoJob, Whole, Before
<1> QED BY <1>1, <1>2 DEF Kept, Marked

(* Steps that leave the backups and every base alone keep what is kept, if *)
(* they leave the installation and the copies alone too or the version that*)
(* ran is backed up.                                                       *)
LEMMA KeptAside ==
  ASSUME TypeOK, Kept, UNCHANGED <<backups, made, ran>>,
         \A i \in Installs : job'[i].base \in {job[i].base, None},
         \A i \in Installs : job'[i].pc = "saving" => job[i].pc = "saving",
         made <= Limit =>
           \/ Recent(ran)
           \/ /\ installed' = installed
              /\ \A i \in Installs : /\ job[i].pc \in Before => job'[i].pc \in Before
                                     /\ job'[i].pc = "saving" => job'[i].reads = job[i].reads
  PROVE  Kept'
<1> SUFFICES ASSUME made <= Limit
             PROVE  /\ \A i \in Installs : Whole(job'[i].base) => Recent(job[i].base)'
                    /\ \A i \in Installs : job'[i].pc = "saving" => Under(i)'
                    /\ \/ Recent(ran)'
                       \/ /\ installed' = ran'
                          /\ \A i \in Installs : /\ job'[i].pc \in Before
                                                 /\ job'[i].pc = "saving" => job'[i].reads = ran'
  BY DEF Kept, Whole
<1>1. ASSUME NEW i \in Installs, Whole(job'[i].base) PROVE Recent(job[i].base)'
  <2>1. job'[i].base = job[i].base
    BY <1>1 DEF Whole
  <2>2. Recent(job[i].base)
    BY <1>1, <2>1 DEF Kept
  <2> QED BY <2>1, <2>2 DEF Recent, Listed
<1>2. ASSUME NEW i \in Installs, job'[i].pc = "saving" PROVE Under(i)'
  <2>1. Under(i)
    BY <1>2 DEF Kept
  <2> QED BY <2>1 DEF Under, Listed
<1>3. \/ Recent(ran)'
      \/ /\ installed' = ran'
         /\ \A i \in Installs : /\ job'[i].pc \in Before
                                /\ job'[i].pc = "saving" => job'[i].reads = ran'
  <2>1. CASE Recent(ran)
    BY <2>1 DEF Recent, Listed
  <2>2. CASE ~Recent(ran)
    BY <2>2 DEF Kept
  <2> QED BY <2>1, <2>2
<1> QED BY <1>1, <1>2, <1>3

(* The backup begins: it is listed, and is of what is installed.           *)
LEMMA BackUpKeeps ==
  ASSUME TypeOK, Kept, Marked, NEW i \in Installs, BackUp(i)
  PROVE  Kept' /\ Marked'
<1> USE TypesAre, ConstantsAre
<1>0. job \in [Installs -> Jobs] /\ installed' = installed /\ ran' = ran /\ job[i].pc = "backup"
  BY DEF TypeOK, BackUp, around
<1>1. CASE job' = [job EXCEPT ![i].pc = "failed"] /\ UNCHANGED <<backups, made>>
  <2>1. \A k \in Installs : /\ job'[k].base = job[k].base /\ job'[k].reads = job[k].reads
                            /\ job'[k].pc \in {job[k].pc, "failed"}
    BY <1>0, <1>1 DEF Jobs
  <2>2. Marked'
    BY <1>1 DEF Marked
  <2> QED BY <1>0, <1>1, <2>1, <2>2, KeptAside DEF Before
<1>2. CASE /\ job' = [job EXCEPT ![i].pc = "saving", ![i].reads = installed]
           /\ backups' = Append(backups, [label |-> loaded, tree |-> Broken, by |-> i])
           /\ made' = made + 1
  <2>a. [label |-> loaded, tree |-> Broken, by |-> i] \in Entries /\ made \in Nat
    BY DEF TypeOK, Entries
  <2>b. PICK e \in Entries : e = [label |-> loaded, tree |-> Broken, by |-> i]
    BY <2>a
  <2>0. e.tree = Broken /\ e.by = i /\ made \in Nat
    BY <2>a, <2>b
  <2>1. backups' = Append(backups, e)
    BY <1>2, <2>b
  <2>2. /\ \A x : Listed(x) => Listed(x)'
        /\ Listed(e)'
        /\ \A n \in DOMAIN backups' : backups'[n] = e \/ \E m \in DOMAIN backups : backups'[n] = backups[m]
    BY <1>2, <2>0, <2>1, ListedAppended
  <2>3. Marked'
    BY <2>0, <2>2 DEF Marked
  <2>4. \A k \in Installs : /\ job'[k].base = job[k].base
                            /\ IF k = i THEN job'[k].pc = "saving" /\ job'[k].reads = installed
                                        ELSE job'[k] = job[k]
    BY <1>0, <1>2 DEF Jobs
  <2> SUFFICES ASSUME made' <= Limit
               PROVE  /\ \A k \in Installs : Whole(job'[k].base) => Recent(job[k].base)'
                      /\ \A k \in Installs : job'[k].pc = "saving" => Under(k)'
                      /\ \/ Recent(ran)'
                         \/ /\ installed' = ran'
                            /\ \A k \in Installs : /\ job'[k].pc \in Before
                                                   /\ job'[k].pc = "saving" => job'[k].reads = ran'
    BY <2>3 DEF Kept, Whole
  <2>5. made <= Limit
    BY <1>2, <2>0
  <2>6. ASSUME NEW k \in Installs, Whole(job'[k].base) PROVE Recent(job[k].base)'
    <3>1. PICK x \in Entries : Listed(x) /\ x.tree = job[k].base
      BY <2>4, <2>5, <2>6 DEF Kept, Recent
    <3> QED BY <2>2, <2>4, <3>1 DEF Recent
  <2>7. ASSUME NEW k \in Installs, job'[k].pc = "saving" PROVE Under(k)'
    <3>1. CASE k = i
      BY <2>0, <2>2, <3>1 DEF Under
    <3>2. CASE k # i
      <4>1. PICK x \in Entries : Listed(x) /\ x.by = k
        BY <2>4, <2>5, <2>7, <3>2 DEF Kept, Under
      <4> QED BY <2>2, <4>1 DEF Under
    <3> QED BY <3>1, <3>2
  <2>8. CASE Recent(ran)
    <3>1. PICK x \in Entries : Listed(x) /\ x.tree = ran
      BY <2>8 DEF Recent
    <3>2. Recent(ran)'
      BY <1>0, <2>2, <3>1 DEF Recent
    <3> QED BY <2>6, <2>7, <3>2
  <2>9. CASE ~Recent(ran)
    <3>1. /\ installed = ran
          /\ \A k \in Installs : /\ job[k].pc \in Before
                                 /\ job[k].pc = "saving" => job[k].reads = ran
      BY <2>5, <2>9 DEF Kept
    <3> QED BY <1>0, <2>4, <2>6, <2>7, <3>1 DEF Before
  <2> QED BY <2>8, <2>9
<1> QED BY <1>1, <1>2 DEF BackUp

LEMMA SavedKeeps ==
  ASSUME TypeOK, Kept, Marked, NEW i \in Installs, Saved(i)
  PROVE  Kept' /\ Marked'
<1> USE TypesAre, ConstantsAre
<1>0. /\ job \in [Installs -> Jobs] /\ UNCHANGED <<installed, ran, made>>
      /\ job[i].pc = "saving" /\ ran \in Versions
  BY DEF TypeOK, Saved, others, around
<1>1. PICK tree \in Trees : AddBackup(i, tree) /\ \/ tree = job[i].reads /\ job'[i].base = tree
                                                  \/ job'[i].base = job[i].base /\ job'[i].pc = "failed"
  BY <1>0 DEF Saved, Jobs
<1>2. /\ job'[i].pc \in {"copy", "failed"}
      /\ \A k \in Installs : k # i => job'[k] = job[k]
  BY <1>0 DEF Saved, Jobs
<1>3. /\ \A v \in Versions : Recent(v) => Recent(v)'
      /\ \A k \in Installs \ {i} : Under(k) => Under(k)'
      /\ Under(i) => Recent(tree)'
      /\ Marked'
  BY <1>0, <1>1, AddedListed
<1> SUFFICES ASSUME made <= Limit
             PROVE  /\ \A k \in Installs : Whole(job'[k].base) => Recent(job[k].base)'
                    /\ \A k \in Installs : job'[k].pc = "saving" => Under(k)'
                    /\ \/ Recent(ran)'
                       \/ /\ installed' = ran'
                          /\ \A k \in Installs : /\ job'[k].pc \in Before
                                                 /\ job'[k].pc = "saving" => job'[k].reads = ran'
  BY <1>0, <1>3 DEF Kept, Whole
<1>4. Recent(tree)'
  BY <1>0, <1>3 DEF Kept
<1>5. ASSUME NEW k \in Installs, Whole(job'[k].base) PROVE Recent(job[k].base)'
  <2>1. CASE job'[k].base = job[k].base
    <3>1. PICK v \in Versions : v = job[k].base
      BY <1>5, <2>1 DEF Jobs
    <3>2. Recent(v)
      BY <1>5, <2>1, <3>1 DEF Kept
    <3> QED BY <1>3, <2>1, <3>1, <3>2 DEF Recent
  <2>2. CASE job'[k].base # job[k].base
    <3>1. k = i /\ job'[k].base = tree
      BY <1>1, <1>2, <2>2
    <3> QED BY <1>4, <3>1 DEF Recent
  <2> QED BY <2>1, <2>2
<1>6. ASSUME NEW k \in Installs, job'[k].pc = "saving" PROVE Under(k)'
  <2>1. k # i /\ job[k].pc = "saving"
    BY <1>2, <1>6
  <2> QED BY <1>3, <2>1 DEF Kept
<1>7. CASE Recent(ran)
  <2>1. PICK v \in Versions : v = ran
    BY <1>0
  <2>2. Recent(v)'
    BY <1>3, <1>7, <2>1
  <2> QED BY <1>0, <1>5, <1>6, <2>1, <2>2 DEF Recent
<1>8. CASE ~Recent(ran)
  <2>1. /\ installed = ran
        /\ \A k \in Installs : /\ job[k].pc \in Before
                               /\ job[k].pc = "saving" => job[k].reads = ran
    BY <1>8 DEF Kept
  <2>2. CASE tree = job[i].reads
    <3>1. tree = ran
      BY <1>0, <2>1, <2>2
    <3>2. Recent(ran)'
      BY <1>0, <1>4, <3>1 DEF Recent
    <3> QED BY <1>5, <1>6, <3>2
  <2>3. CASE job'[i].pc = "failed"
    BY <1>0, <1>2, <1>5, <1>6, <2>1, <2>3 DEF Before
  <2> QED BY <1>1, <2>2, <2>3
<1> QED BY <1>7, <1>8

LEMMA KeptJobs ==
  ASSUME TypeOK, Kept, Marked, NEW i \in Installs, JobStep(i)
  PROVE  Kept' /\ Marked'
<1> USE TypesAre, ConstantsAre
<1>0. job \in [Installs -> Jobs]
  BY DEF TypeOK
<1>1. CASE Extract(i)
  <2>1. UNCHANGED <<installed, backups, made, ran>>
    BY <1>1 DEF Extract, disk, around
  <2>2. \A k \in Installs : /\ job'[k].base = job[k].base /\ job'[k].reads = job[k].reads
                            /\ job'[k].pc \in {job[k].pc, "backup", "failed"}
    BY <1>0, <1>1 DEF Extract, Goto, Jobs
  <2> QED BY <2>1, <2>2, KeptAside DEF Before, Marked
<1>2. CASE \/ CopyCandidate(i) \/ SwapOut(i) \/ SwapIn(i) \/ Verify(i) \/ Remove(i)
           \/ PutBack(i) \/ Clean(i) \/ Finish(i)
  <2>1. /\ job[i].pc \notin Before /\ UNCHANGED <<made, ran>>
        /\ \A k \in Installs : /\ job'[k].base = job[k].base
                               /\ job'[k].pc = "saving" => job[k].pc = "saving"
    <3>1. CASE CopyCandidate(i)
      BY <1>0, <3>1 DEF CopyCandidate, Goto, others, around, Before, Jobs
    <3>2. CASE SwapOut(i)
      BY <1>0, <3>2 DEF SwapOut, Touch, Goto, others, around, Before, Jobs
    <3>3. CASE SwapIn(i)
      BY <1>0, <3>3 DEF SwapIn, Touch, Goto, RollBack, others, around, Before, Jobs
    <3>4. CASE Verify(i)
      BY <1>0, <3>4 DEF Verify, Goto, RollBack, around, Before, Jobs
    <3>5. CASE Remove(i)
      BY <1>0, <3>5 DEF Remove, Touch, around, Before, Jobs
    <3>6. CASE PutBack(i)
      BY <1>0, <3>6 DEF PutBack, Touch, Goto, around, Before, Jobs
    <3>7. CASE Clean(i)
      BY <1>0, <3>7 DEF Clean, Goto, others, around, Before, Jobs
    <3>8. CASE Finish(i)
      BY <1>0, <3>8 DEF Finish, Goto, others, around, Before, Jobs
    <3> QED BY <1>2, <3>1, <3>2, <3>3, <3>4, <3>5, <3>6, <3>7, <3>8
  <2>2. made <= Limit => Recent(ran)
    BY <2>1 DEF Kept
  <2>3. CASE backups' = backups
    BY <2>1, <2>2, <2>3, KeptAside DEF Marked
  <2>4. CASE backups' = Pruned(backups)
    <3>1. /\ made <= Limit => \A e : Listed(e) => Listed(e)'
          /\ \A n \in DOMAIN backups' : \E m \in DOMAIN backups : backups'[n] = backups[m]
      BY <2>1, <2>4, ListedPruned
    <3>2. Marked'
      BY <3>1 DEF Marked
    <3> SUFFICES ASSUME made <= Limit
                 PROVE  /\ \A k \in Installs : Whole(job'[k].base) => Recent(job[k].base)'
                        /\ \A k \in Installs : job'[k].pc = "saving" => Under(k)'
                        /\ Recent(ran)'
      BY <2>1, <3>2 DEF Kept, Whole
    <3>3. ASSUME NEW k \in Installs, Whole(job'[k].base) PROVE Recent(job[k].base)'
      <4>1. PICK e \in Entries : Listed(e) /\ e.tree = job[k].base
        BY <2>1, <3>3 DEF Kept, Recent
      <4> QED BY <2>1, <3>1, <4>1 DEF Recent
    <3>4. ASSUME NEW k \in Installs, job'[k].pc = "saving" PROVE Under(k)'
      <4>1. PICK e \in Entries : Listed(e) /\ e.by = k
        BY <2>1, <3>4 DEF Kept, Under
      <4> QED BY <3>1, <4>1 DEF Under
    <3>5. Recent(ran)'
      <4>1. PICK e \in Entries : Listed(e) /\ e.tree = ran
        BY <2>2 DEF Recent
      <4> QED BY <2>1, <3>1, <4>1 DEF Recent
    <3> QED BY <3>3, <3>4, <3>5
  <2> QED BY <1>2, <2>3, <2>4 DEF CopyCandidate, SwapOut, SwapIn, Verify, Remove, PutBack, Clean,
         Finish, disk, others
<1> QED BY <1>1, <1>2, BackUpKeeps, SavedKeeps DEF JobStep

LEMMA KeptStep == TypeOK /\ Kept /\ Marked /\ [Next]_vars => Kept' /\ Marked'
<1> SUFFICES ASSUME TypeOK, Kept, Marked, [Next]_vars PROVE Kept' /\ Marked'
  OBVIOUS
<1>0. job \in [Installs -> Jobs]
  BY DEF TypeOK
<1>1. CASE Publish \/ Refresh \/ Reload \/ UNCHANGED vars
  <2>1. UNCHANGED <<installed, backups, made, ran, job>>
    BY <1>1 DEF Publish, Refresh, Reload, vars, disk
  <2> QED BY <2>1, KeptAside DEF Marked
<1>2. CASE Restart
  <2>1. /\ installed' = installed /\ \A i \in Installs : job'[i] = NoJob
        /\ backups' = [n \in DOMAIN backups |-> [backups[n] EXCEPT !.by = None]]
    BY <1>2 DEF Restart
  <2>2. \A i \in Installs : job'[i].base = None /\ job'[i].pc = "none" /\ job'[i].pc \in Before
    BY <2>1 DEF NoJob, Before
  <2>3. Marked'
    <3>1. DOMAIN backups' = DOMAIN backups /\ \A n \in DOMAIN backups : backups'[n].by = None
      BY <2>1, BackupsAre DEF Entries
    <3> QED BY <3>1 DEF Marked
  <2>4. CASE Whole(installed)
    <3>1. ran' = installed
      BY <1>2, <2>4 DEF Restart
    <3> QED BY <2>1, <2>2, <2>3, <3>1 DEF Kept, Whole
  <2>5. CASE ~Whole(installed)
    <3>1. UNCHANGED <<made, ran>>
      BY <1>2, <2>5 DEF Restart
    <3>2. installed # ran
      BY <2>5, TypesAre DEF TypeOK
    <3>3. made <= Limit => Recent(ran)
      BY <3>2 DEF Kept
    <3>4. made <= Limit => Recent(ran)'
      <4>1. \A v : Recent(v) => Recent(v)'
        BY <2>1, <3>1, UnmarkedListed
      <4>2. PICK v : v = ran
        OBVIOUS
      <4> QED BY <3>1, <3>3, <4>1, <4>2 DEF Recent
    <3> QED BY <2>2, <2>3, <3>1, <3>4 DEF Kept, Whole
  <2> QED BY <2>4, <2>5
<1>3. ASSUME NEW i \in Installs, StartInstall(i) \/ CallerCancelled(i) \/ DownloadFails(i)
      PROVE  Kept' /\ Marked'
  <2>1. UNCHANGED <<installed, backups, made, ran, job>>
    BY <1>3 DEF StartInstall, CallerCancelled, DownloadFails, disk
  <2> QED BY <2>1, KeptAside DEF Marked
<1>4. ASSUME NEW i \in Installs, Downloaded(i) \/ JobReturns(i)
      PROVE  Kept' /\ Marked'
  <2>1. UNCHANGED <<installed, backups, made, ran>>
    BY <1>4 DEF Downloaded, JobReturns, disk
  <2>2. \A k \in Installs : /\ job'[k].base \in {job[k].base, None}
                            /\ job[k].pc \in Before => job'[k].pc \in Before
                            /\ job'[k].pc = "saving" => job'[k] = job[k]
    BY <1>0, <1>4 DEF Downloaded, JobReturns, NoJob, Before
  <2> QED BY <2>1, <2>2, KeptAside DEF Marked
<1> QED BY <1>1, <1>2, <1>3, <1>4, KeptJobs DEF Next, InstallStep

LEMMA TypeInvariant == Spec => []TypeOK
BY TypeInit, TypeStep, PTL DEF Spec

(* Wherever Home Assistant stops, whatever fails and however installs      *)
(* overlap (_install_archive), the tree that an install found and the      *)
(* version that ran last can be restored from what is on the disk.         *)
THEOREM NothingIsLost == Spec => []Restorable
<1>1. Spec => [](Kept /\ Marked)
  BY TypeInvariant, KeptInit, KeptStep, PTL DEF Spec
<1>2. Kept => Restorable
  BY DEF Kept, Recent, Listed, Restorable, BaseIsKept, RanIsKept, Backed
<1> QED BY <1>1, <1>2, PTL

-----------------------------------------------------------------------------
(* One install at a time.  While no caller is cancelled and the entry stays*)
(* loaded the lock of the coordinator serializes the calls, and a job is at*)
(* work exactly while its call waits for it.                               *)
Alone == ~world.overlap =>
  /\ coord = 1 /\ \A i \in Installs : call[i].of = 1
  /\ \A i \in Installs : call[i].pc # "idle" => lock[1]
  /\ \A i, k \in Installs : call[i].pc # "idle" /\ call[k].pc # "idle" => i = k
  /\ \A i \in Installs : job[i].pc # "none" <=> call[i].pc = "installing"

(* What the one job has done to the tree it found, and in which order.     *)
Fresh    == {"none", "extract", "backup", "saving"}
Standing == {"copy", "swapOut", "clean"}
Swap == ~world.overlap => \A i \in Installs :
  /\ job[i].pc \in Standing => installed = job[i].base
  /\ job[i].pc = "saving" => job[i].reads = installed
  /\ job[i].pc \in {"swapIn", "return"} => installed = None
  /\ job[i].pc \in Aside => previous[i] = job[i].base
  /\ job[i].pc \in Fresh => previous[i] = None

(* A job swaps whole trees only, unless a rollback failed or Home Assistant*)
(* was stopped in the middle.                                              *)
WholeTrees == ~world.overlap /\ ~hurt =>
  /\ \A i \in Installs : job[i].pc \in Standing \cup Aside => Whole(job[i].base)
  /\ (\A i \in Installs : job[i].pc \notin Aside) => Whole(installed)

(* Then too there is a whole tree: in place, left behind by an install that*)
(* ended, or set aside by the one at work.                                 *)
Somewhere == ~world.overlap =>
  /\ \A i \in Installs : job[i].pc \in Standing \cup Aside => Whole(job[i].base) \/ left # {}
  /\ \A i \in Installs : job[i].pc = "finish" => Whole(installed)
  /\ Whole(installed) \/ left # {} \/ \E i \in Installs : Whole(previous[i])

OneAtATime == TypeOK /\ Alone /\ Swap /\ WholeTrees /\ Somewhere

LEMMA OneInit == Init => OneAtATime
<1> SUFFICES ASSUME Init PROVE OneAtATime
  OBVIOUS
<1>1. \A i \in Installs : job[i] = NoJob /\ call[i] = NoCall
  BY DEF Init
<1>2. NoJob.pc = "none" /\ NoCall.pc = "idle" /\ NoCall.of = 1
  BY DEF NoJob, NoCall
<1>3. Whole(installed) /\ \A i \in Installs : previous[i] = None
  BY ConstantsAre DEF Init, Whole
<1>4. Alone
  BY <1>1, <1>2 DEF Init, Alone
<1>5. Swap /\ WholeTrees /\ Somewhere
  BY <1>1, <1>2, <1>3 DEF Swap, WholeTrees, Somewhere, Aside, Standing
<1> QED BY <1>4, <1>5, TypeInit DEF OneAtATime

(* A step of a job moves it to its next place, leaves the calls alone and  *)
(* changes no other job but one whose copy it mixes.                       *)
LEMMA JobMoves ==
  ASSUME TypeOK, NEW i \in Installs, JobStep(i)
  PROVE  /\ UNCHANGED <<world, coord, lock, call>>
         /\ job[i].pc # "none" /\ job'[i].pc # "none"
         /\ \A k \in Installs : k # i => /\ job'[k].pc = job[k].pc
                                         /\ job[k].pc # "saving" => job'[k] = job[k]
<1>0. job \in [Installs -> Jobs]
  BY DEF TypeOK
<1>1. UNCHANGED <<world, coord, lock, call>>
  BY DEF JobStep, Extract, BackUp, Saved, CopyCandidate, SwapOut, SwapIn, Verify, Remove, PutBack,
     Clean, Finish, others, around
<1>2. ASSUME NEW from, NEW to, Goto(i, from, to) \/ Touch(i, from, to), from # "none", to # "none"
      PROVE  /\ job[i].pc # "none" /\ job'[i].pc # "none"
             /\ \A k \in Installs : k # i => /\ job'[k].pc = job[k].pc
                                             /\ job[k].pc # "saving" => job'[k] = job[k]
  BY <1>0, <1>2 DEF Goto, Touch, Jobs
<1>3. CASE BackUp(i) \/ Saved(i)
  BY <1>0, <1>1, <1>3 DEF BackUp, Saved, Jobs
<1>4. CASE Extract(i)
  BY <1>1, <1>2, <1>4 DEF Extract
<1>5. CASE CopyCandidate(i)
  BY <1>1, <1>2, <1>5 DEF CopyCandidate
<1>6. CASE SwapOut(i)
  BY <1>1, <1>2, <1>6 DEF SwapOut
<1>7. CASE SwapIn(i)
  BY <1>1, <1>2, <1>7 DEF SwapIn, RollBack
<1>8. CASE Verify(i)
  BY <1>1, <1>2, <1>8 DEF Verify, RollBack
<1>9. CASE Remove(i)
  BY <1>1, <1>2, <1>9 DEF Remove
<1>10. CASE PutBack(i)
  BY <1>1, <1>2, <1>10 DEF PutBack
<1>11. CASE Clean(i)
  BY <1>1, <1>2, <1>11 DEF Clean
<1>12. CASE Finish(i)
  BY <1>1, <1>2, <1>12 DEF Finish
<1> QED BY <1>3, <1>4, <1>5, <1>6, <1>7, <1>8, <1>9, <1>10, <1>11, <1>12 DEF JobStep

(* The part of a step that the calls and the lock take.                    *)
LEMMA AloneStep == OneAtATime /\ [Next]_vars => Alone'
<1> SUFFICES ASSUME OneAtATime, [Next]_vars, ~world'.overlap PROVE Alone'
  BY DEF Alone
<1> USE ConstantsAre
<1>0. /\ TypeOK /\ call \in [Installs -> Calls] /\ job \in [Installs -> Jobs]
      /\ lock \in [1..Coordinators -> BOOLEAN]
  BY DEF OneAtATime, TypeOK
<1>1. world' = world
  BY DEF Next, Publish, Refresh, Reload, Restart, StartInstall, CallerCancelled, InstallStep,
     Downloaded, DownloadFails, JobStep, JobReturns, Extract, BackUp, Saved, CopyCandidate,
     SwapOut, SwapIn, Verify, Remove, PutBack, Clean, Finish, others, around, vars
<1>2. /\ coord = 1 /\ \A i \in Installs : call[i].of = 1
      /\ \A i \in Installs : call[i].pc # "idle" => lock[1]
      /\ \A i, k \in Installs : call[i].pc # "idle" /\ call[k].pc # "idle" => i = k
      /\ \A i \in Installs : job[i].pc # "none" <=> call[i].pc = "installing"
  BY <1>1 DEF OneAtATime, Alone
<1>3. CASE Publish \/ Refresh \/ UNCHANGED vars
  <2>1. UNCHANGED <<coord, call, lock, job>>
    BY <1>3 DEF Publish, Refresh, vars
  <2> QED BY <1>2, <2>1 DEF Alone
<1>4. CASE Reload
  BY <1>1, <1>4 DEF Reload
<1>5. CASE Restart
  <2>1. coord' = 1 /\ \A i \in Installs : job'[i] = NoJob /\ call'[i] = NoCall
    BY <1>5 DEF Restart
  <2> QED BY <2>1 DEF Alone, NoJob, NoCall
<1>6. ASSUME NEW i \in Installs, StartInstall(i) PROVE Alone'
  <2>1. /\ coord' = coord /\ job' = job /\ ~lock[1] /\ lock'[1]
        /\ job[i].pc = "none"
        /\ call' = [call EXCEPT ![i] = [pc |-> "downloading", of |-> coord, shown |-> offer[coord],
                      archive |-> IF world.branch THEN None ELSE offer[coord]]]
    BY <1>0, <1>2, <1>6 DEF StartInstall, LockIsFree
  <2>2. \A k \in Installs : /\ call'[k].of = 1 /\ call[k].pc = "idle"
                            /\ call'[k].pc = IF k = i THEN "downloading" ELSE "idle"
    BY <1>0, <1>2, <2>1
  <2> QED BY <1>2, <2>1, <2>2 DEF Alone
<1>7. ASSUME NEW i \in Installs, Downloaded(i) PROVE Alone'
  <2>1. /\ coord' = coord /\ lock' = lock /\ call[i].pc = "downloading"
        /\ \A k \in Installs : /\ call'[k].of = call[k].of
                               /\ call'[k].pc = IF k = i THEN "installing" ELSE call[k].pc
                               /\ job'[k].pc = IF k = i THEN "extract" ELSE job[k].pc
    BY <1>0, <1>7 DEF Downloaded, Calls, Jobs
  <2> QED BY <1>2, <2>1 DEF Alone
<1>8. ASSUME NEW i \in Installs, DownloadFails(i) PROVE Alone'
  <2>1. /\ coord' = coord /\ job' = job /\ call[i].pc = "downloading"
        /\ \A k \in Installs : /\ call'[k].of = 1
                               /\ call'[k].pc = IF k = i THEN "idle" ELSE call[k].pc
    BY <1>0, <1>2, <1>8 DEF DownloadFails, Release, NoCall
  <2>2. \A k \in Installs : k # i => call[k].pc = "idle"
    BY <1>2, <2>1
  <2>3. \A k \in Installs : call'[k].pc = "idle" /\ job[k].pc = "none"
    BY <1>2, <2>1, <2>2
  <2> QED BY <1>2, <2>1, <2>3 DEF Alone
<1>9. ASSUME NEW i \in Installs, CallerCancelled(i) PROVE Alone'
  BY <1>1, <1>9 DEF CallerCancelled
<1>10. ASSUME NEW i \in Installs, JobReturns(i) PROVE Alone'
  <2>1. job[i].pc # "none" /\ call[i].pc = "installing"
    BY <1>2, <1>10 DEF JobReturns
  <2>2. /\ coord' = coord
        /\ \A k \in Installs : /\ call'[k].of = 1
                               /\ call'[k].pc = IF k = i THEN "idle" ELSE call[k].pc
                               /\ job'[k].pc = IF k = i THEN "none" ELSE job[k].pc
    BY <1>0, <1>2, <1>10, <2>1 DEF JobReturns, Reported, Release, NoCall, NoJob
  <2>3. \A k \in Installs : call'[k].pc = "idle" /\ job'[k].pc = "none"
    BY <1>2, <2>1, <2>2
  <2> QED BY <1>2, <2>2, <2>3 DEF Alone
<1>11. ASSUME NEW i \in Installs, JobStep(i) PROVE Alone'
  <2>1. /\ UNCHANGED <<coord, lock, call>> /\ job[i].pc # "none"
        /\ \A k \in Installs : job'[k].pc # "none" <=> job[k].pc # "none"
    BY <1>0, <1>11, JobMoves
  <2> QED BY <1>2, <2>1 DEF Alone
<1> QED BY <1>3, <1>4, <1>5, <1>6, <1>7, <1>8, <1>9, <1>10, <1>11 DEF Next, InstallStep

LEMMA WorldStays == [Next]_vars => world' = world
BY DEF Next, Publish, Refresh, Reload, Restart, StartInstall, CallerCancelled, InstallStep,
   Downloaded, DownloadFails, JobStep, JobReturns, Extract, BackUp, Saved, CopyCandidate,
   SwapOut, SwapIn, Verify, Remove, PutBack, Clean, Finish, others, around, vars

(* While one job is at work no other is, and its own steps are the only    *)
(* ones that matter.                                                       *)
LEMMA OtherJobs ==
  ASSUME OneAtATime, ~world.overlap, NEW i \in Installs, NEW k \in Installs, k # i,
         job[i].pc # "none"
  PROVE  job[k].pc = "none"
BY DEF OneAtATime, Alone

(* The one job at work keeps the order of its steps.                       *)
LEMMA JobKeepsSwap ==
  ASSUME OneAtATime, ~world.overlap, NEW i \in Installs, JobStep(i), world' = world
  PROVE  Swap' /\ WholeTrees' /\ Somewhere'
<1> USE ConstantsAre
<1>0. /\ TypeOK /\ job \in [Installs -> Jobs] /\ previous \in [Installs -> Trees]
      /\ candidate \in [Installs -> Trees] /\ installed \in Trees
      /\ ~Whole(None) /\ ~Whole(Broken)
  BY DEF OneAtATime, TypeOK, Whole
<1>1. /\ job[i].pc \in Standing => installed = job[i].base
      /\ job[i].pc = "saving" => job[i].reads = installed
      /\ job[i].pc \in {"swapIn", "return"} => installed = None
      /\ job[i].pc \in Aside => previous[i] = job[i].base
      /\ job[i].pc \in Fresh => previous[i] = None
  BY DEF OneAtATime, Swap
<1>2. job[i].pc # "none"
  BY <1>0, JobMoves
<1>3. \A k \in Installs : k # i => job[k].pc = "none" /\ job'[k] = job[k]
  BY <1>0, <1>2, OtherJobs, JobMoves
<1>4. \A k \in Installs : k # i => previous[k] = None /\ previous'[k] = previous[k]
  <2>1. \A k \in Installs : k # i => previous[k] = None
    BY <1>3 DEF OneAtATime, Swap, Fresh
  <2>2. \A k \in Installs : k # i => previous'[k] = previous[k]
    BY <1>0 DEF JobStep, Extract, BackUp, Saved, CopyCandidate, SwapOut, SwapIn, Verify, Remove,
       PutBack, Clean, Finish, disk
  <2> QED BY <2>1, <2>2
<1>5. left' = left
  BY DEF JobStep, Extract, BackUp, Saved, CopyCandidate, SwapOut, SwapIn, Verify, Remove,
     PutBack, Clean, Finish, disk, others
<1>6. ~hurt => /\ job[i].pc \in Standing \cup Aside => Whole(job[i].base)
               /\ job[i].pc \notin Aside => Whole(installed)
  BY <1>3 DEF OneAtATime, WholeTrees, Aside
<1>7. /\ job[i].pc \in Standing \cup Aside => Whole(job[i].base) \/ left # {}
      /\ job[i].pc = "finish" => Whole(installed)
      /\ Whole(installed) \/ left # {} \/ Whole(previous[i])
  BY <1>0, <1>4 DEF OneAtATime, Somewhere
<1> HIDE DEF Whole
<1>8. SUFFICES
        /\ job'[i].pc \in Standing => installed' = job'[i].base
        /\ job'[i].pc = "saving" => job'[i].reads = installed'
        /\ job'[i].pc \in {"swapIn", "return"} => installed' = None
        /\ job'[i].pc \in Aside => previous'[i] = job'[i].base
        /\ job'[i].pc \in Fresh => previous'[i] = None
        /\ ~hurt' => /\ job'[i].pc \in Standing \cup Aside => Whole(job'[i].base)
                     /\ job'[i].pc \notin Aside => Whole(installed')
        /\ job'[i].pc \in Standing \cup Aside => Whole(job'[i].base) \/ left # {}
        /\ job'[i].pc = "finish" => Whole(installed')
        /\ Whole(installed') \/ left # {} \/ Whole(previous'[i])
  <2>1. \A k \in Installs : k # i => job'[k].pc = "none" /\ previous'[k] = None
    BY <1>3, <1>4
  <2>2. Swap'
    BY <1>8, <2>1 DEF Swap, Standing, Aside
  <2>3. WholeTrees'
    BY <1>8, <2>1 DEF WholeTrees, Standing, Aside, Whole
  <2>4. Somewhere'
    BY <1>5, <1>8, <2>1 DEF Somewhere, Standing, Aside, Whole
  <2> QED BY <2>2, <2>3, <2>4
<1> USE DEF Standing, Aside, Fresh
<1>9. CASE Extract(i)
  <2>1. /\ UNCHANGED <<installed, previous, hurt>>
        /\ job[i].pc = "extract" /\ job'[i].pc \in {"backup", "failed"}
    BY <1>0, <1>9 DEF Extract, Goto, disk, Jobs
  <2> QED BY <1>1, <1>6, <1>7, <2>1
<1>10. CASE BackUp(i)
  <2>1. /\ UNCHANGED <<installed, previous, hurt>>
        /\ job[i].pc = "backup" /\ job'[i].pc \in {"saving", "failed"}
        /\ job'[i].pc = "saving" => job'[i].reads = installed
    BY <1>0, <1>10 DEF BackUp, Jobs
  <2> QED BY <1>1, <1>6, <1>7, <2>1
<1>11. CASE Saved(i)
  <2>1. /\ UNCHANGED <<installed, previous, hurt>>
        /\ job[i].pc = "saving" /\ job'[i].pc \in {"copy", "failed"}
        /\ job'[i].pc = "copy" => job'[i].base = job[i].reads
    BY <1>0, <1>11 DEF Saved, others, Jobs
  <2> QED BY <1>0, <1>1, <1>6, <1>7, <2>1
<1>12. CASE CopyCandidate(i)
  <2>1. /\ UNCHANGED <<installed, previous, hurt>>
        /\ job[i].pc = "copy" /\ job'[i].pc \in {"swapOut", "clean"}
        /\ job'[i].base = job[i].base
    BY <1>0, <1>12 DEF CopyCandidate, Goto, others, Jobs
  <2> QED BY <1>1, <1>6, <1>7, <2>1
<1>13. CASE SwapOut(i)
  <2>1. /\ job[i].pc = "swapOut" /\ job'[i].base = job[i].base /\ hurt' = hurt
        /\ \/ job'[i].pc = "swapIn" /\ installed' = None /\ previous'[i] = installed
           \/ job'[i].pc = "clean" /\ installed' = installed /\ previous' = previous
    BY <1>0, <1>13 DEF SwapOut, Goto, Touch, others, Jobs
  <2> QED BY <1>1, <1>6, <1>7, <2>1
<1>14. CASE SwapIn(i)
  <2>1. /\ job[i].pc = "swapIn" /\ job'[i].base = job[i].base /\ job'[i].pc \in {"verify", "remove"}
        /\ previous' = previous /\ hurt' = hurt
    BY <1>0, <1>14 DEF SwapIn, Goto, Touch, others, Jobs, RollBack
  <2> QED BY <1>1, <1>6, <1>7, <2>1
<1>15. CASE Verify(i)
  <2>1. /\ job[i].pc = "verify" /\ job'[i].base = job[i].base
        /\ UNCHANGED <<installed, previous>>
        /\ \/ job'[i].pc = "remove" /\ hurt' = hurt
           \/ job'[i].pc = "finish" /\ Whole(installed)
    BY <1>0, <1>15 DEF Verify, Validates, Goto, Jobs, RollBack, disk
  <2> QED BY <1>1, <1>6, <1>7, <2>1
<1>16. CASE Remove(i)
  <2>1. /\ job[i].pc = "remove" /\ job'[i].base = job[i].base /\ previous' = previous
        /\ \/ job'[i].pc = "return" /\ installed' = None /\ hurt' = hurt
           \/ job'[i].pc = "failed" /\ hurt'
    BY <1>0, <1>16 DEF Remove, Touch, Jobs
  <2> QED BY <1>1, <1>6, <1>7, <2>1
<1>17. CASE PutBack(i)
  <2>1. /\ job[i].pc = "return" /\ job'[i].base = job[i].base
        /\ \/ job'[i].pc = "clean" /\ installed' = previous[i] /\ hurt' = hurt
           \/ job'[i].pc = "failed" /\ hurt' /\ previous' = previous
    BY <1>0, <1>17 DEF PutBack, Goto, Touch, Jobs
  <2> QED BY <1>1, <1>6, <1>7, <2>1
<1>18. CASE Clean(i)
  <2>1. /\ job[i].pc = "clean" /\ job'[i].pc = "failed"
        /\ UNCHANGED <<installed, previous, hurt>>
    BY <1>0, <1>18 DEF Clean, Goto, others, Jobs
  <2> QED BY <1>1, <1>6, <1>7, <2>1
<1>19. CASE Finish(i)
  <2>1. /\ job[i].pc = "finish" /\ job'[i].pc \in {"replaced", "failed"}
        /\ UNCHANGED <<installed, hurt>>
    BY <1>0, <1>19 DEF Finish, Goto, others, Jobs
  <2> QED BY <1>6, <1>7, <2>1
<1> QED BY <1>9, <1>10, <1>11, <1>12, <1>13, <1>14, <1>15, <1>16, <1>17, <1>18, <1>19 DEF JobStep

LEMMA SwapStep == OneAtATime /\ [Next]_vars => Swap' /\ WholeTrees' /\ Somewhere'
<1> SUFFICES ASSUME OneAtATime, [Next]_vars, ~world.overlap PROVE Swap' /\ WholeTrees' /\ Somewhere'
  BY WorldStays DEF Swap, WholeTrees, Somewhere
<1>0. TypeOK /\ job \in [Installs -> Jobs] /\ world' = world
  BY WorldStays DEF OneAtATime, TypeOK
<1>1. CASE Publish \/ Refresh \/ UNCHANGED vars \/
           \E i \in Installs : StartInstall(i) \/ DownloadFails(i)
  <2>1. UNCHANGED <<job, installed, previous, left, hurt>>
    BY <1>1 DEF Publish, Refresh, vars, disk, StartInstall, DownloadFails
  <2> QED BY <1>0, <2>1 DEF OneAtATime, Swap, WholeTrees, Somewhere, Whole
<1>2. CASE Reload \/ \E i \in Installs : CallerCancelled(i)
  BY <1>2 DEF Reload, CallerCancelled
<1>3. CASE Restart
  <2>1. /\ installed' = installed
        /\ \A i \in Installs : job'[i].pc = "none" /\ previous'[i] = None
    BY <1>3 DEF Restart, NoJob
  <2>2. ~hurt' => ~hurt /\ \A i \in Installs : job[i].pc \notin Aside
    BY <1>3 DEF Restart
  <2>3. ~hurt' => Whole(installed)
    BY <2>2 DEF OneAtATime, WholeTrees
  <2>4. Whole(installed) \/ left' # {}
    <3>1. CASE Whole(installed) \/ left # {}
      BY <1>3, <3>1 DEF Restart
    <3>2. CASE ~Whole(installed) /\ left = {}
      <4>1. PICK i \in Installs : Whole(previous[i])
        BY <3>2 DEF OneAtATime, Somewhere
      <4>2. job[i].pc # "finish" /\ previous[i] \in Versions
        BY <1>0, <3>2, <4>1, TypesAre DEF OneAtATime, Somewhere
      <4>3. previous[i] \in left'
        BY <1>3, <4>2 DEF Restart
      <4> QED BY <4>3
    <3> QED BY <3>1, <3>2
  <2> QED BY <2>1, <2>3, <2>4 DEF Swap, WholeTrees, Somewhere, Whole, Standing, Aside
<1>4. ASSUME NEW i \in Installs, Downloaded(i) PROVE Swap' /\ WholeTrees' /\ Somewhere'
  <2>1. /\ UNCHANGED <<installed, previous, left, hurt>> /\ job[i].pc = "none"
        /\ \A k \in Installs : IF k = i THEN job'[k].pc = "extract" ELSE job'[k] = job[k]
    BY <1>0, <1>4 DEF Downloaded, disk, OneAtATime, Alone
  <2>2. Swap'
    BY <1>0, <2>1 DEF OneAtATime, Swap, Standing, Aside, Fresh
  <2>3. WholeTrees' /\ Somewhere'
    BY <1>0, <2>1 DEF OneAtATime, WholeTrees, Somewhere, Standing, Aside, Whole
  <2> QED BY <2>2, <2>3
<1>5. ASSUME NEW i \in Installs, JobReturns(i) PROVE Swap' /\ WholeTrees' /\ Somewhere'
  <2>1. /\ UNCHANGED <<installed, hurt>> /\ job[i].pc \in {"replaced", "failed"}
        /\ \A k \in Installs : IF k = i THEN job'[k].pc = "none" ELSE job'[k] = job[k]
        /\ \A k \in Installs : previous'[k] = IF k = i THEN None ELSE previous[k]
        /\ left' = left \cup ({previous[i]} \cap Versions)
    BY <1>0, <1>5 DEF JobReturns, NoJob, TypeOK
  <2>2. \A k \in Installs : k # i => job[k].pc = "none" /\ previous[k] = None
    BY <2>1, OtherJobs DEF OneAtATime, Swap, Fresh
  <2>3. \A k \in Installs : job'[k].pc = "none" /\ previous'[k] = None /\ job[k].pc \notin Aside
    BY <2>1, <2>2 DEF Aside
  <2>4. ~hurt => Whole(installed)
    BY <2>3 DEF OneAtATime, WholeTrees
  <2>5. Whole(installed) \/ left' # {}
    <3>1. CASE Whole(installed) \/ left # {}
      BY <2>1, <3>1
    <3>2. CASE ~Whole(installed) /\ left = {}
      <4>1. PICK k \in Installs : Whole(previous[k])
        BY <3>2 DEF OneAtATime, Somewhere
      <4>2. k = i
        BY <2>2, <4>1 DEF Whole
      <4>3. previous[i] \in Versions
        BY <1>0, <4>1, <4>2, TypesAre
      <4> QED BY <2>1, <4>3
    <3> QED BY <3>1, <3>2
  <2> QED BY <2>1, <2>3, <2>4, <2>5 DEF Swap, WholeTrees, Somewhere, Whole, Standing, Aside
<1>6. ASSUME NEW i \in Installs, JobStep(i) PROVE Swap' /\ WholeTrees' /\ Somewhere'
  BY <1>0, <1>6, JobKeepsSwap
<1> QED BY <1>1, <1>2, <1>3, <1>4, <1>5, <1>6 DEF Next, InstallStep

LEMMA OneInvariant == Spec => []OneAtATime
<1>1. OneAtATime /\ [Next]_vars => OneAtATime'
  BY TypeStep, AloneStep, SwapStep DEF OneAtATime
<1> QED BY <1>1, OneInit, PTL DEF Spec

(* As long as installs do not overlap, an install that ended, however it   *)
(* ended, left a whole tree in place; and if a rollback failed or Home     *)
(* Assistant was stopped in the middle, a whole tree in place or beside it *)
(* (_install_archive).                                                     *)
THEOREM SettledIsWhole == Spec => []WholeWhenSettled
<1>1. OneAtATime => WholeWhenSettled
  <2> SUFFICES ASSUME OneAtATime, ~world.overlap, \A i \in Installs : job[i].pc = "none",
                      installed \notin Versions
               PROVE  hurt /\ left # {}
    BY DEF WholeWhenSettled
  <2>1. ~Whole(installed)
    BY TypesAre DEF OneAtATime, TypeOK
  <2>2. hurt
    BY <2>1 DEF OneAtATime, WholeTrees, Aside
  <2>3. \A i \in Installs : ~Whole(previous[i])
    BY DEF OneAtATime, Swap, Fresh, Whole
  <2>4. left # {}
    BY <2>1, <2>3 DEF OneAtATime, Somewhere
  <2> QED BY <2>2, <2>4
<1> QED BY <1>1, OneInvariant, PTL

(* An install that fails once it has begun to swap leaves the very tree it *)
(* found: back in place, or when the handler itself fails, where it was set*)
(* aside.                                                                  *)
THEOREM FailureRollsBack == Spec => RollsBack
<1>1. OneAtATime /\ [Next]_vars =>
        [~world.overlap =>
           \A i \in Installs :
             /\ job[i].pc = "clean" /\ job'[i].pc = "failed" => installed' = job[i].base
             /\ job[i].pc \in Aside /\ job'[i].pc = "failed" => previous'[i] = job[i].base]_vars
  <2> SUFFICES ASSUME OneAtATime, Next, ~world.overlap, NEW i \in Installs,
                      job[i].pc \in {"clean"} \cup Aside, job'[i].pc = "failed"
               PROVE  /\ job[i].pc = "clean" => installed' = job[i].base
                      /\ job[i].pc \in Aside => previous'[i] = job[i].base
    OBVIOUS
  <2>0. TypeOK /\ job \in [Installs -> Jobs]
    BY DEF OneAtATime, TypeOK
  <2>1. job[i].pc # job'[i].pc
    BY DEF Aside
  <2>2. PICK k \in Installs : JobStep(k)
    BY <2>0, <2>1 DEF Next, Publish, Refresh, Reload, Restart, StartInstall, CallerCancelled,
       InstallStep, Downloaded, DownloadFails, JobReturns, NoJob, Jobs
  <2>3. k = i
    BY <2>0, <2>1, <2>2, JobMoves
  <2>4. Clean(i) \/ Remove(i) \/ PutBack(i)
    BY <2>0, <2>2, <2>3 DEF JobStep, Extract, BackUp, Saved, CopyCandidate, SwapOut, SwapIn,
       Verify, Finish, Goto, Touch, RollBack, Aside, Jobs
  <2>5. CASE Clean(i)
    BY <2>0, <2>5 DEF Clean, Goto, OneAtATime, Swap, Standing, Aside
  <2>6. CASE Remove(i)
    BY <2>0, <2>6 DEF Remove, Touch, OneAtATime, Swap, Aside
  <2>7. CASE PutBack(i)
    BY <2>0, <2>7 DEF PutBack, Touch, Goto, OneAtATime, Swap, Aside, Jobs
  <2> QED BY <2>4, <2>5, <2>6, <2>7
<1> QED BY <1>1, OneInvariant, PTL DEF Spec, RollsBack

-----------------------------------------------------------------------------
(* The offers.  First the order of the versions: version_is_newer agrees   *)
(* with the order in which the project makes them.                         *)
LEMMA OrderIs ==
  /\ Order \in Seq([base : Nat, alpha : Seq(Nat)]) /\ Len(Order) \in Nat /\ Len(Order) > 0
  /\ DOMAIN Order = 1..Len(Order)
  /\ \A m, n \in DOMAIN Order : m < n => Offer!MadeBefore(Order[m], Order[n])
  /\ None \notin Offer!VersionSet
  /\ \A v \in Offer!VersionSet : /\ v.base \in Nat /\ v.alpha \in Seq(Nat)
                                 /\ Offer!Place(v) \in DOMAIN Order
                                 /\ Order[Offer!Place(v)] = v
<1>1. /\ Order \in Seq([base : Nat, alpha : Seq(Nat)]) /\ Order # <<>>
      /\ \A m, n \in DOMAIN Order : m < n => Offer!MadeBefore(Order[m], Order[n])
      /\ None \notin Offer!VersionSet
  BY OfferAssumption DEF Offer!ConstantsAssumption
<1>2. Len(Order) \in Nat /\ DOMAIN Order = 1..Len(Order) /\ Len(Order) > 0
  BY <1>1, LenProperties, EmptySeq
<1>3. ASSUME NEW v \in Offer!VersionSet
      PROVE  v.base \in Nat /\ v.alpha \in Seq(Nat) /\ Offer!Place(v) \in DOMAIN Order
             /\ Order[Offer!Place(v)] = v
  <2>1. PICK n \in DOMAIN Order : Order[n] = v
    BY DEF Offer!VersionSet
  <2>2. Order[n] \in [base : Nat, alpha : Seq(Nat)]
    BY <1>1, <1>2, LenProperties
  <2> QED BY <2>1, <2>2 DEF Offer!Place
<1> QED BY <1>1, <1>2, <1>3

LEMMA LaterIsNewer ==
  ASSUME NEW v \in Offer!VersionSet, NEW w \in Offer!VersionSet, Offer!MadeBefore(w, v)
  PROVE  Offer!version_is_newer(v, w)
<1>1. /\ v.base \in Nat /\ w.base \in Nat /\ v.alpha \in Seq(Nat) /\ w.alpha \in Seq(Nat)
      /\ Len(v.alpha) \in Nat /\ Len(w.alpha) \in Nat
  BY OrderIs
<1>2. ASSUME ~Offer!IsFinal(v), ~Offer!IsFinal(w), v.base = w.base
      PROVE  Offer!TupleBelow(w.alpha, v.alpha)
  <2>1. PICK k \in 0..Len(w.alpha) :
          /\ k < Len(v.alpha) /\ \A j \in 1..k : w.alpha[j] = v.alpha[j]
          /\ k = Len(w.alpha) \/ w.alpha[k + 1] < v.alpha[k + 1]
    BY <1>1, <1>2 DEF Offer!MadeBefore
  <2>2. k + 1 \in 1..Len(v.alpha) /\ (k + 1) - 1 = k /\ (k = Len(w.alpha) \/ k + 1 <= Len(w.alpha))
    BY <1>1, <2>1
  <2> QED BY <1>1, <2>1, <2>2 DEF Offer!TupleBelow
<1> QED BY <1>1, <1>2 DEF Offer!version_is_newer, Offer!AwesomeAbove, Offer!MadeBefore

LEMMA EarlierIsNotNewer ==
  ASSUME NEW v \in Offer!VersionSet, NEW w \in Offer!VersionSet, v = w \/ Offer!MadeBefore(v, w)
  PROVE  ~Offer!version_is_newer(v, w)
<1>1. /\ v.base \in Nat /\ w.base \in Nat /\ v.alpha \in Seq(Nat) /\ w.alpha \in Seq(Nat)
      /\ Len(v.alpha) \in Nat /\ Len(w.alpha) \in Nat
  BY OrderIs
<1>2. \A k : /\ k \in 1..Len(v.alpha) => v.alpha[k] \in Nat
             /\ k \in 1..Len(w.alpha) => w.alpha[k] \in Nat
  BY <1>1
<1>3. ASSUME ~Offer!IsFinal(v), ~Offer!IsFinal(w), v.base = w.base,
             Offer!TupleBelow(w.alpha, v.alpha)
      PROVE  FALSE
  <2>1. PICK k \in 1..Len(v.alpha) :
          /\ k = Len(w.alpha) + 1 \/ (k <= Len(w.alpha) /\ w.alpha[k] < v.alpha[k])
          /\ \A j \in 1..(k - 1) : w.alpha[j] = v.alpha[j]
    BY <1>3 DEF Offer!TupleBelow
  <2>2. CASE v = w
    BY <1>1, <1>2, <2>1, <2>2
  <2>3. CASE Offer!MadeBefore(v, w)
    <3>1. PICK m \in 0..Len(v.alpha) :
            /\ m < Len(w.alpha) /\ \A j \in 1..m : v.alpha[j] = w.alpha[j]
            /\ m = Len(v.alpha) \/ v.alpha[m + 1] < w.alpha[m + 1]
      BY <1>1, <1>3, <2>3 DEF Offer!MadeBefore
    <3>2. CASE k <= m
      <4>1. k \in 1..m /\ k <= Len(w.alpha)
        BY <1>1, <3>1, <3>2
      <4>2. v.alpha[k] = w.alpha[k] /\ v.alpha[k] \in Nat
        BY <1>2, <3>1, <4>1
      <4> QED BY <1>1, <2>1, <4>1, <4>2
    <3>3. CASE k > m
      <4>0. m \in Nat /\ k \in Nat /\ k <= Len(v.alpha) /\ m < Len(w.alpha)
        BY <1>1, <3>1
      <4>1. m # Len(v.alpha) /\ m + 1 \in 1..Len(v.alpha) /\ m + 1 \in 1..Len(w.alpha)
        <5>1. m + 1 <= Len(v.alpha) /\ m < Len(v.alpha) /\ m + 1 <= Len(w.alpha)
          BY <1>1, <3>3, <4>0
        <5>2. m + 1 \in 1..Len(v.alpha)
          BY <1>1, <4>0, <5>1
        <5>3. m + 1 \in 1..Len(w.alpha)
          BY <1>1, <4>0, <5>1
        <5> QED BY <1>1, <4>0, <5>1, <5>2, <5>3
      <4>2. v.alpha[m + 1] < w.alpha[m + 1]
        BY <3>1, <4>1
      <4>3. v.alpha[m + 1] \in Nat /\ w.alpha[m + 1] \in Nat
        BY <1>2, <4>1
      <4>4. CASE m + 1 = k
        <5>1. k <= Len(w.alpha)
          BY <1>1, <4>1, <4>4
        <5>2. w.alpha[k] < v.alpha[k]
          BY <1>1, <2>1, <5>1
        <5> QED BY <4>2, <4>3, <4>4, <5>2
      <4>5. CASE m + 1 # k
        <5>1. m + 1 \in 1..(k - 1)
          BY <1>1, <3>3, <4>1, <4>5
        <5>2. w.alpha[m + 1] = v.alpha[m + 1]
          BY <2>1, <5>1
        <5> QED BY <4>2, <4>3, <5>2
      <4> QED BY <4>4, <4>5
    <3> QED BY <3>2, <3>3
  <2> QED BY <2>2, <2>3
<1> QED BY <1>1, <1>3 DEF Offer!version_is_newer, Offer!AwesomeAbove, Offer!MadeBefore

LEMMA NewerIsLater ==
  ASSUME NEW v \in Offer!VersionSet, NEW w \in Offer!VersionSet
  PROVE  Offer!version_is_newer(v, w) <=> Offer!Place(v) > Offer!Place(w)
<1>1. /\ Offer!Place(v) \in DOMAIN Order /\ Order[Offer!Place(v)] = v
      /\ Offer!Place(w) \in DOMAIN Order /\ Order[Offer!Place(w)] = w
      /\ Offer!Place(v) \in Int /\ Offer!Place(w) \in Int
  BY OrderIs
<1>2. CASE Offer!Place(v) > Offer!Place(w)
  BY <1>1, <1>2, OrderIs, LaterIsNewer
<1>3. CASE Offer!Place(v) = Offer!Place(w)
  BY <1>1, <1>3, EarlierIsNotNewer
<1>4. CASE Offer!Place(v) < Offer!Place(w)
  BY <1>1, <1>4, OrderIs, EarlierIsNotNewer
<1> QED BY <1>1, <1>2, <1>3, <1>4

(* The types of the offers; an offer of the stable channel is one of its   *)
(* releases, whatever was published after the check.                       *)
Released(v) ==
  \E n \in DOMAIN releases : releases[n] = [version |-> v, kind |-> "release"]
OffersReleased == channel = "stable" /\ latest # None => Released(latest)
OfferInv == Offer!TypeOK /\ OffersReleased

Entry(v, kind) == [version |-> v, kind |-> kind]
EntrySet == [version : Offer!VersionSet, kind : Offer!Kinds]

LEMMA ReleasesAre ==
  ASSUME Offer!TypeOK
  PROVE  /\ releases \in Seq(EntrySet) /\ Len(releases) \in Nat
         /\ DOMAIN releases = 1..Len(releases)
         /\ \A n \in DOMAIN releases : releases[n] \in EntrySet
<1>1. releases \in Seq(EntrySet)
  BY DEF Offer!TypeOK, EntrySet
<1> QED BY <1>1, LenProperties

(* The first release that will do is one that will do.                     *)
LEMMA StableOfferReleased ==
  ASSUME Offer!TypeOK, Offer!StableOffer # None
  PROVE  Offer!StableOffer \in Offer!VersionSet /\ Released(Offer!StableOffer)
<1> DEFINE Good == {n \in DOMAIN releases : Offer!Eligible(releases[n])}
<1>1. Good # {}
  BY DEF Offer!StableOffer
<1>2. \E n \in Good : \A k \in 1..(n - 1) : ~Offer!Eligible(releases[k])
  <2>1. Good \subseteq Nat
    BY ReleasesAre
  <2> HIDE DEF Good
  <2>2. PICK n \in Good : \A k \in Good : ~(<<k, n>> \in OpToRel(<, Nat))
    BY <1>1, <2>1, WFMin, NatLessThanWellFounded, Zenon
  <2>3. \A k \in Good : ~(k < n)
    BY <2>1, <2>2, Zenon DEF OpToRel
  <2>4. \A k \in 1..(n - 1) : k \in DOMAIN releases /\ k < n
    BY <2>1, ReleasesAre DEF Good
  <2> QED BY <2>3, <2>4 DEF Good
<1>3. PICK n \in DOMAIN releases :
        Offer!Eligible(releases[n]) /\ Offer!StableOffer = releases[n].version
  BY <1>1, <1>2 DEF Offer!StableOffer
<1>4. releases[n] \in EntrySet /\ releases[n].kind = "release"
  BY <1>3, ReleasesAre DEF Offer!Eligible
<1> QED BY <1>3, <1>4 DEF EntrySet, Released

LEMMA OfferInit == Offer!Init => OfferInv
<1> SUFFICES ASSUME Offer!Init PROVE OfferInv
  OBVIOUS
<1>0. 1 \in DOMAIN Order
  BY OrderIs
<1>1. Order[1] \in Offer!VersionSet
  BY <1>0 DEF Offer!VersionSet
<1>2. <<>> \in Seq([version : Offer!VersionSet, kind : Offer!Kinds])
  OBVIOUS
<1> QED BY <1>1, <1>2 DEF Offer!Init, OfferInv, Offer!TypeOK, OffersReleased

LEMMA OfferStep == OfferInv /\ [Offer!Next]_offer_vars => OfferInv'
<1> SUFFICES ASSUME OfferInv, [Offer!Next]_offer_vars PROVE OfferInv'
  OBVIOUS
<1>0. Offer!TypeOK
  BY DEF OfferInv
<1>1. CASE Offer!Publish
  <2>1. PICK v \in Offer!VersionSet, kind \in Offer!Kinds :
          releases' = <<[version |-> v, kind |-> kind]>> \o releases
    BY <1>1 DEF Offer!Publish
  <2> DEFINE new == <<[version |-> v, kind |-> kind]>>
  <2>2. new \in Seq(EntrySet) /\ Len(new) = 1
    BY DEF EntrySet
  <2> HIDE DEF new
  <2>3. /\ releases' \in Seq(EntrySet) /\ Len(releases') = 1 + Len(releases)
        /\ \A n \in 1..(1 + Len(releases)) :
             releases'[n] = IF n <= 1 THEN new[n] ELSE releases[n - 1]
    BY <1>0, <2>1, <2>2, ReleasesAre, ConcatProperties DEF new
  <2>4. UNCHANGED <<channel, head, latest, error, running>>
    BY <1>1 DEF Offer!Publish
  <2>5. Offer!TypeOK'
    BY <1>0, <2>3, <2>4 DEF Offer!TypeOK, EntrySet
  <2>6. DOMAIN releases' = 1..(1 + Len(releases))
    BY <2>3, LenProperties
  <2>7. ASSUME Released(latest) PROVE Released(latest)'
    <3>1. PICK n \in DOMAIN releases : releases[n] = [version |-> latest, kind |-> "release"]
      BY <2>7 DEF Released
    <3>2. n \in Nat /\ n >= 1 /\ n <= Len(releases) /\ Len(releases) \in Nat
      BY <1>0, ReleasesAre
    <3>3. n + 1 \in 1..(1 + Len(releases)) /\ ~(n + 1 <= 1) /\ (n + 1) - 1 = n
      BY <3>2
    <3>4. releases'[n + 1] = [version |-> latest', kind |-> "release"]
      BY <2>3, <2>4, <3>1, <3>3
    <3> QED BY <2>6, <3>3, <3>4 DEF Released
  <2> QED BY <2>4, <2>5, <2>7 DEF OfferInv, OffersReleased
<1>2. CASE Offer!Develop
  <2>1. Offer!Place(head) \in 1..Len(Order)
    BY <1>0, OrderIs DEF Offer!TypeOK
  <2>2. Offer!Place(head) + 1 \in DOMAIN Order
    BY <1>2, <2>1, OrderIs DEF Offer!Develop
  <2>3. head' \in Offer!VersionSet
    BY <1>2, <2>2 DEF Offer!Develop, Offer!VersionSet
  <2> QED BY <1>2, <2>3 DEF Offer!Develop, OfferInv, Offer!TypeOK, OffersReleased, Released
<1>3. CASE Offer!Checked
  <2>1. Offer!StableOffer \in Offer!VersionSet \cup {None}
    BY <1>0, StableOfferReleased
  <2>2. /\ latest' \in Offer!VersionSet \cup {None} /\ error' \in {None, "none"}
        /\ UNCHANGED <<channel, releases, head, running>>
    BY <1>0, <1>3, <2>1 DEF Offer!Checked, Offer!TypeOK
  <2>3. Offer!TypeOK'
    BY <1>0, <2>2 DEF Offer!TypeOK
  <2>4. OffersReleased'
    <3> SUFFICES ASSUME channel' = "stable", latest' # None PROVE Released(latest)'
      BY DEF OffersReleased
    <3>1. latest' = Offer!StableOffer
      BY <1>3, <2>2 DEF Offer!Checked
    <3>2. PICK v : v = Offer!StableOffer /\ v = latest'
      BY <3>1
    <3>3. Released(v)
      BY <1>0, <3>2, StableOfferReleased
    <3> QED BY <2>2, <3>2, <3>3 DEF Released
  <2> QED BY <2>3, <2>4 DEF OfferInv
<1>4. CASE Offer!BadMetadata
  BY <1>4 DEF Offer!BadMetadata, OfferInv, Offer!TypeOK, OffersReleased
<1>5. CASE Offer!NetworkError
  BY <1>5 DEF Offer!NetworkError, OfferInv, Offer!TypeOK, OffersReleased, Released
<1>6. CASE Offer!SwitchChannel
  BY <1>6 DEF Offer!SwitchChannel, Offer!NoOffer, OfferInv, Offer!TypeOK, OffersReleased
<1>7. CASE Offer!Install
  BY <1>7 DEF Offer!Install, Offer!CanInstall, OfferInv, Offer!TypeOK, OffersReleased
<1>8. CASE UNCHANGED offer_vars
  BY <1>8 DEF offer_vars, OfferInv, Offer!TypeOK, OffersReleased, Released
<1> QED BY <1>1, <1>2, <1>3, <1>4, <1>5, <1>6, <1>7, <1>8 DEF Offer!Next

LEMMA OfOffer == [MCNext]_mcvars => [Offer!Next]_offer_vars /\ [Next]_vars
BY DEF MCNext, mcvars

LEMMA RunInvariant == MCSpec => [](OfferInv /\ TypeOK)
<1>1. MCInit => OfferInv /\ TypeOK
  BY OfferInit, TypeInit DEF MCInit
<1>2. OfferInv /\ TypeOK /\ [MCNext]_mcvars => (OfferInv /\ TypeOK)'
  BY OfOffer, OfferStep, TypeStep
<1> QED BY <1>1, <1>2, PTL DEF MCSpec

(* Whatever versions the project makes, in their order, one that was made  *)
(* later is never taken for an older one by _version_is_newer.             *)
THEOREM LaterIsOffered == MCSpec => []LaterCanBeInstalled
<1>1. OfferInv /\ TypeOK => LaterCanBeInstalled
  <2> SUFFICES ASSUME OfferInv, latest # None, Offer!Place(latest) > Offer!Place(running)
               PROVE  Offer!CanInstall
    BY DEF LaterCanBeInstalled, Offer!LaterCanBeInstalled, OfferInv
  <2>1. latest \in Offer!VersionSet /\ running \in Offer!VersionSet
    BY DEF OfferInv, Offer!TypeOK
  <2> QED BY <2>1, NewerIsLater DEF Offer!CanInstall
<1> QED BY <1>1, RunInvariant, PTL

(* No sequence of checks, publications, switches of the channel and        *)
(* installs takes the installation back, or the stable channel to anything *)
(* but a published production release.                                     *)
THEOREM UpdatesGoForward == MCSpec => OffersGoForward
<1>1. OfferInv /\ [MCNext]_mcvars =>
        [running' # running => Offer!Place(running') > Offer!Place(running)]_running
  <2> SUFFICES ASSUME OfferInv, [Offer!Next]_offer_vars, running' # running
               PROVE  Offer!Place(running') > Offer!Place(running)
    BY OfOffer
  <2>1. Offer!Install
    BY DEF Offer!Next, Offer!Publish, Offer!Develop, Offer!Checked, Offer!BadMetadata,
       Offer!NetworkError, Offer!SwitchChannel, offer_vars
  <2>2. /\ running' = latest /\ Offer!version_is_newer(latest, running)
        /\ latest \in Offer!VersionSet /\ running \in Offer!VersionSet
    BY <2>1 DEF Offer!Install, Offer!CanInstall, OfferInv, Offer!TypeOK
  <2> QED BY <2>2, NewerIsLater
<1>2. OfferInv /\ [MCNext]_mcvars =>
        [channel = "stable" /\ running' # running =>
           \E n \in DOMAIN releases : releases[n] = [version |-> running', kind |-> "release"]
        ]_(Offer!vars)
  <2> SUFFICES ASSUME OfferInv, [Offer!Next]_offer_vars, channel = "stable", running' # running
               PROVE  \E n \in DOMAIN releases :
                        releases[n] = [version |-> running', kind |-> "release"]
    BY OfOffer
  <2>1. Offer!Install
    BY DEF Offer!Next, Offer!Publish, Offer!Develop, Offer!Checked, Offer!BadMetadata,
       Offer!NetworkError, Offer!SwitchChannel, offer_vars
  <2>2. running' = latest /\ latest # None
    BY <2>1 DEF Offer!Install, Offer!CanInstall
  <2> QED BY <2>2 DEF OfferInv, OffersReleased, Released
<1> QED BY <1>1, <1>2, RunInvariant, PTL
        DEF MCSpec, OffersGoForward, Offer!NeverDowngrades, Offer!StableStaysReleased
=============================================================================
