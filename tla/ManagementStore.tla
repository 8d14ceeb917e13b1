-------------------------- MODULE ManagementStore --------------------------
(***************************************************************************)
(* The settings and passwords of the managed repeaters: the records in     *)
(* memory, the private file, and the administrator requests that change a  *)
(* record at once and answer when its save returns.  Requests overlap, and *)
(* nothing waits for them when the entry is reloaded: the reload makes a   *)
(* new store, with its own memory and its own write lock, on the same file.*)
(*                                                                         *)
(* Home Assistant's Store is external.  A save hands it the live records   *)
(* and waits for the lock; who gets it writes the records as they then are,*)
(* unless a write already took them.  The file is replaced in one piece or *)
(* not at all.  An error of the write itself is logged and not raised.     *)
(*                                                                         *)
(* The versions of a record's settings and of its password stand for their *)
(* values; version 0 is the default settings and no password.              *)
(***************************************************************************)
EXTENDS Integers, FiniteSets

CONSTANTS
  Repeaters,  (* stable IDs the file may know                              *)
  Requests,   (* websocket requests                                        *)
  Stores,     (* store objects; one that nothing uses any more is made anew*)
  Changes,    (* bound: versions                                           *)
  None

ASSUME ConstantsAssumption ==
  /\ Changes \in Nat /\ None \notin Repeaters \cup Stores /\ Stores # {}

VARIABLES
  managed, (* the stable IDs of the loaded entry, {} while it is not loaded*)
  current, (* the store of the latest load                                 *)
  records, (* _records of a store: [settings, password, present]           *)
  pending, (* the stores whose _store was handed data no write has taken   *)
  file,    (* what async_load would return                                 *)
  request, (* [pc, store, kind, of, version]                               *)
  copy,    (* the records as a writing request serialised them             *)
  latest,  (* history: versions given out                                  *)
  told,    (* history: versions reported as saved, of each field           *)
  behind   (* history: the last write failed, or was an earlier store's    *)

vars == <<managed, current, records, pending, file, request, copy, latest, told,
          behind>>

Fields    == {"settings", "password"}
Empty     == [settings |-> 0, password |-> 0, present |-> FALSE]
NoRecords == [r \in Repeaters |-> Empty]
NoRequest == [pc |-> "idle", store |-> None, kind |-> None, of |-> None,
              version |-> 0]

Init ==
  /\ managed = {} /\ current \in Stores
  /\ records = [s \in Stores |-> NoRecords] /\ pending = {}
  /\ file = NoRecords
  /\ request = [q \in Requests |-> NoRequest] /\ copy = [q \in Requests |-> NoRecords]
  /\ latest = 0 /\ behind = FALSE
  /\ told = [r \in Repeaters |-> [f \in Fields |-> 0]]

AtWork(s)   == {q \in Requests : request[q].pc # "idle" /\ request[q].store = s}
Busy(s)     == \E q \in AtWork(s) : request[q].pc = "writing"
Versions(f) == [r \in Repeaters |-> [settings |-> f[r].settings, password |-> f[r].password]]

(* The entry is set up: a new store reads the file before the runtime is   *)
(* published.  What is managed is a choice made elsewhere.  Where memory   *)
(* and file parted, or a save is still under way, the history starts anew  *)
(* with what the file has: SavedSurvives below says what may be lost.      *)
Load ==
  /\ managed = {}
  /\ managed' \in SUBSET Repeaters \ {{}}
  /\ \E s \in Stores :
       /\ AtWork(s) = {}
       /\ current' = s
       /\ records' = [records EXCEPT ![s] = file] /\ pending' = pending \ {s}
  /\ told' = IF behind \/ \E q \in Requests : request[q].pc # "idle"
               THEN Versions(file) ELSE told
  /\ behind' = FALSE
  /\ UNCHANGED <<file, request, copy, latest>>

(* An unload waits for no request.                                         *)
Unload ==
  /\ managed # {}
  /\ managed' = {}
  /\ UNCHANGED <<current, records, pending, file, request, copy, latest, told, behind>>

(* Home Assistant is gone, and memory with it.                             *)
Crash ==
  /\ managed' = {} /\ pending' = {}
  /\ records' = [s \in Stores |-> file]
  /\ request' = [q \in Requests |-> NoRequest] /\ copy' = [q \in Requests |-> NoRecords]
  /\ told' = IF behind THEN Versions(file) ELSE told
  /\ behind' = FALSE
  /\ UNCHANGED <<current, file, latest>>

(* _runtime_for_stable_id: a request for a repeater that is not managed is *)
(* answered with an error and changes nothing.                             *)
Accepts(q, r) == request[q].pc = "idle" /\ r \in managed /\ latest < Changes

(* The record of r becomes `record` and the store is asked to save: with   *)
(* nobody before it, the request writes at once.                           *)
Commit(q, kind, r, record) ==
  LET mine == [records[current] EXCEPT ![r] = record]
      Save(pc) == [pc |-> pc, store |-> current, kind |-> kind, of |-> r,
                   version |-> latest + 1]
  IN
  /\ records' = [records EXCEPT ![current] = mine]
  /\ latest' = latest + 1
  /\ IF AtWork(current) = {}
       THEN /\ request' = [request EXCEPT ![q] = Save("writing")]
            /\ copy' = [copy EXCEPT ![q] = mine]
            /\ UNCHANGED pending
       ELSE /\ request' = [request EXCEPT ![q] = Save("waiting")]
            /\ pending' = pending \cup {current}
            /\ UNCHANGED copy
  /\ UNCHANGED <<managed, current, file, told, behind>>

Mine(r) == records[current][r]
DropsPassword(r) == [settings |-> latest + 1, password |-> 0, present |-> TRUE] (* a mutant *)
WithSettings(r)  == [settings |-> latest + 1, password |-> Mine(r).password, present |-> TRUE]
WithPassword(r)  == [settings |-> Mine(r).settings, password |-> latest + 1, present |-> TRUE]

(* Settings are saved, or reset, which is a save of the defaults.          *)
SaveSettings(q, r) == Accepts(q, r) /\ Commit(q, "settings", r, WithSettings(r))

(* A password is set, over default settings if there is no record yet.     *)
SetPassword(q, r) == Accepts(q, r) /\ Commit(q, "password", r, WithPassword(r))

RemovesInMemory(q, r) ==                                      (* a mutant *)
  /\ Accepts(q, r) /\ Mine(r).present
  /\ records' = [records EXCEPT ![current][r] = WithPassword(r)]
  /\ latest' = latest + 1
  /\ UNCHANGED <<managed, current, pending, file, request, copy, told, behind>>

(* A password is removed; without a record there is nothing to do.         *)
RemovePassword(q, r) ==
  Accepts(q, r) /\ Mine(r).present /\ Commit(q, "password", r, WithPassword(r))

Leaves(q) == /\ request' = [request EXCEPT ![q] = NoRequest]
             /\ copy' = [copy EXCEPT ![q] = NoRecords]

(* The save of q returned: the request is answered with a result.  (Only   *)
(* what the loaded store reports counts as saved.)                         *)
Reported(q) ==
  /\ Leaves(q)
  /\ told' = IF request[q].store = current
               THEN [told EXCEPT ![request[q].of][request[q].kind] =
                       IF @ >= request[q].version THEN @ ELSE request[q].version]
               ELSE told

(* The write lock is free for a waiting save: it writes what is pending,   *)
(* or returns if an earlier write took it.                                 *)
TakesLock(q) ==
  LET s == request[q].store IN
  /\ request[q].pc = "waiting" /\ ~Busy(s)
  /\ IF s \in pending
       THEN /\ request' = [request EXCEPT ![q].pc = "writing"]
            /\ copy' = [copy EXCEPT ![q] = records[s]]
            /\ UNCHANGED told
       ELSE Reported(q)
  /\ pending' = pending \ {s}
  /\ UNCHANGED <<managed, current, records, file, latest, behind>>

Written(q) ==
  /\ request[q].pc = "writing"
  /\ file' = copy[q]
  /\ behind' = (request[q].store # current)
  /\ Reported(q)
  /\ UNCHANGED <<managed, current, records, pending, latest>>

(* The write fails.  A WriteError or SerializationError is logged and the  *)
(* save returns like any other ...                                         *)
WriteIsLogged(q) ==
  /\ request[q].pc = "writing"
  /\ behind' = TRUE
  /\ Reported(q)
  /\ UNCHANGED <<managed, current, records, pending, file, latest>>

(* ... anything else is raised and answered with an error.  Either way the *)
(* record stays as it was set.                                             *)
WriteFails(q) ==
  /\ request[q].pc = "writing"
  /\ behind' = TRUE
  /\ Leaves(q)
  /\ UNCHANGED <<managed, current, records, pending, file, latest, told>>

RequestStep(q) == TakesLock(q) \/ Written(q) \/ WriteIsLogged(q) \/ WriteFails(q)
Next == \/ Load \/ Unload \/ Crash
        \/ \E q \in Requests : RequestStep(q) \/ \E r \in Repeaters :
             SaveSettings(q, r) \/ SetPassword(q, r) \/ RemovePassword(q, r)

Spec == Init /\ [][Next]_vars

-----------------------------------------------------------------------------
Record == [settings : 0..Changes, password : 0..Changes, present : BOOLEAN]
Tables == [Repeaters -> Record]
Request == [pc : {"idle", "waiting", "writing"}, store : Stores \cup {None},
            kind : Fields \cup {None}, of : Repeaters \cup {None},
            version : 0..Changes]
TypeOK ==
  /\ managed \subseteq Repeaters /\ current \in Stores
  /\ records \in [Stores -> Tables] /\ pending \subseteq Stores /\ file \in Tables
  /\ request \in [Requests -> Request] /\ copy \in [Requests -> Tables]
  /\ latest \in 0..Changes /\ behind \in BOOLEAN
  /\ told \in [Repeaters -> [Fields -> 0..Changes]]

(* What was reported as saved is in the memory of the loaded entry, and in *)
(* the file unless the last write failed or came from before a reload: no  *)
(* later request, of whatever kind, repeater or outcome, and no reload or  *)
(* crash takes it away.                                                    *)
SavedIsInFile == \A r \in Repeaters : \A f \in Fields :
  /\ managed # {} => records[current][r][f] >= told[r][f]
  /\ ~behind => file[r][f] >= told[r][f]

(* With no request of its own at work, the memory of the loaded entry is   *)
(* what the file has, unless the last write failed or was that of an       *)
(* earlier store: no change is left in memory only, and nothing that is in *)
(* the file is ignored.                                                    *)
FileCatchesUp ==
  managed # {} /\ AtWork(current) = {} /\ ~behind => records[current] = file

(* What was reported as saved is read back by every load: false, when the  *)
(* write had failed and that was only logged, or when a save of the store  *)
(* before the reload replaced the file after the new one had read it.      *)
SavedSurvives == [][Load => \A r \in Repeaters : \A f \in Fields :
                     file[r][f] >= told[r][f]]_vars
=============================================================================
