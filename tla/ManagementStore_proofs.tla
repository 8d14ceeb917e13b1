----------------------- MODULE ManagementStore_proofs -----------------------
(***************************************************************************)
(* What holds of the management store for any number of repeaters, of      *)
(* overlapping requests, of failing saves and of reloads in the middle of  *)
(* them: what the loaded entry reported as saved is in its memory, and in  *)
(* the file until a write fails or comes from before a reload; and nothing *)
(* stays in memory only.                                                   *)
(***************************************************************************)
EXTENDS ManagementStore, TLAPS

AtMost(a, b) == \A r \in Repeaters : \A f \in Fields : a[r][f] <= b[r][f]

(* Every version anywhere was given out.                                   *)
LatestInv ==
  /\ \A s \in Stores : \A r \in Repeaters : \A f \in Fields : records[s][r][f] <= latest
  /\ \A q \in Requests : \A r \in Repeaters : \A f \in Fields : copy[q][r][f] <= latest
  /\ \A r \in Repeaters : \A f \in Fields : file[r][f] <= latest

(* A request of the loaded store is for a version its memory has, or one   *)
(* that was replaced; one request at a time holds the write lock, and what *)
(* it writes has all that was reported, its own change, and whatever was   *)
(* not changed since.                                                      *)
RequestInv == \A q \in AtWork(current) :
  /\ request[q].of \in Repeaters /\ request[q].kind \in Fields
  /\ request[q].version <= records[current][request[q].of][request[q].kind]
WriteInv == \A q \in AtWork(current) : request[q].pc = "writing" =>
  /\ \A p \in AtWork(current) : request[p].pc = "writing" => p = q
  /\ AtMost(told, copy[q])
  /\ request[q].version <= copy[q][request[q].of][request[q].kind]
  /\ current \notin pending => copy[q] = records[current]

(* Data handed to the store waits for a request.                           *)
PendingInv == current \in pending => \E q \in AtWork(current) : request[q].pc = "waiting"

(* What was reported is in memory, and in the file as long as it follows.  *)
ToldInv == AtMost(told, records[current]) /\ (~behind => AtMost(told, file))
FileInv == current \notin pending /\ ~Busy(current) /\ ~behind => file = records[current]

IInv == TypeOK /\ LatestInv /\ RequestInv /\ WriteInv /\ PendingInv /\ ToldInv /\ FileInv

LEMMA InitInv == Init => IInv
<1> SUFFICES ASSUME Init PROVE IInv
  OBVIOUS
<1>1. TypeOK
  <2>1. NoRecords \in Tables /\ NoRequest \in Request
    BY ConstantsAssumption DEF Tables, Record, Request, NoRequest, NoRecords, Empty
  <2>2. told \in [Repeaters -> [Fields -> 0..Changes]]
    BY ConstantsAssumption DEF Init
  <2>3. request \in [Requests -> Request] /\ copy \in [Requests -> Tables]
    BY <2>1 DEF Init
  <2>4. records \in [Stores -> Tables] /\ file \in Tables /\ latest \in 0..Changes
    BY <2>1, ConstantsAssumption DEF Init
  <2> QED
    BY <2>2, <2>3, <2>4 DEF Init, TypeOK
<1>2. AtWork(current) = {} /\ ~Busy(current)
  BY DEF Init, AtWork, Busy, NoRequest
<1>3. LatestInv /\ ToldInv
  BY DEF Init, LatestInv, ToldInv, AtMost, NoRequest, NoRecords, Empty, Fields
<1> QED
  BY <1>1, <1>2, <1>3 DEF Init, IInv, RequestInv, WriteInv, PendingInv, FileInv

(* The values of a table are versions.                                     *)
LEMMA Values ==
  ASSUME TypeOK, NEW r \in Repeaters, NEW f \in Fields
  PROVE  /\ \A s \in Stores : records[s][r][f] \in Nat
         /\ \A q \in Requests : copy[q][r][f] \in Nat /\ request[q].version \in Nat
         /\ file[r][f] \in Nat /\ told[r][f] \in Nat /\ latest \in Nat
BY ConstantsAssumption DEF TypeOK, Tables, Record, Request, Fields

(* A request changes one field of one record of the loaded store, to the   *)
(* newest version, and writes at once or hands it to the store.            *)
Changed(q, r, kind) ==
  /\ request[q].pc = "idle" /\ r \in managed /\ latest + 1 \in 0..Changes
  /\ latest' = latest + 1
  /\ UNCHANGED <<managed, current, file, told, behind>>
  /\ records' \in [Stores -> Tables]
  /\ records'[current][r][kind] = latest + 1
  /\ \A s \in Repeaters : \A f \in Fields :
       (s # r \/ f # kind) => records'[current][s][f] = records[current][s][f]
  /\ \A s \in Stores : s # current => records'[s] = records[s]
  /\ \A p \in Requests : p # q => request'[p] = request[p] /\ copy'[p] = copy[p]
  /\ request'[q].store = current /\ request'[q].of = r /\ request'[q].kind = kind
  /\ request'[q].version = latest + 1
  /\ request' \in [Requests -> Request] /\ copy' \in [Requests -> Tables]
  /\ \/ /\ AtWork(current) = {} /\ pending' = pending
        /\ request'[q].pc = "writing" /\ copy'[q] = records'[current]
     \/ /\ AtWork(current) # {} /\ pending' = pending \cup {current}
        /\ request'[q].pc = "waiting" /\ copy' = copy

LEMMA CommitChanges ==
  ASSUME TypeOK, NEW q \in Requests, NEW r \in Repeaters,
         SaveSettings(q, r) \/ SetPassword(q, r) \/ RemovePassword(q, r)
  PROVE  \E kind \in Fields : Changed(q, r, kind)
<1> USE ConstantsAssumption
<1>1. /\ request[q].pc = "idle" /\ r \in managed /\ latest + 1 \in 0..Changes
      /\ \/ Commit(q, "settings", r, WithSettings(r))
         \/ Commit(q, "password", r, WithPassword(r))
  BY DEF SaveSettings, SetPassword, RemovePassword, Accepts, TypeOK
<1>2. ASSUME NEW kind \in Fields, NEW record \in Record, Commit(q, kind, r, record),
             record[kind] = latest + 1,
             \A f \in Fields : f # kind => record[f] = records[current][r][f]
      PROVE  Changed(q, r, kind)
  <2> DEFINE mine == [records[current] EXCEPT ![r] = record]
             Save(pc) == [pc |-> pc, store |-> current, kind |-> kind, of |-> r,
                          version |-> latest + 1]
  <2>1. mine \in Tables /\ current \in Stores
    BY DEF TypeOK, Tables
  <2>2. mine[r] = record /\ \A s \in Repeaters : s # r => mine[s] = records[current][s]
    BY DEF TypeOK, Tables
  <2>3. Save("writing") \in Request /\ Save("waiting") \in Request
    BY <1>1, <2>1 DEF Request
  <2>4. /\ records' = [records EXCEPT ![current] = mine]
        /\ latest' = latest + 1 /\ UNCHANGED <<managed, current, file, told, behind>>
    BY <1>2 DEF Commit
  <2>5. /\ records' \in [Stores -> Tables] /\ records'[current] = mine
        /\ \A s \in Stores : s # current => records'[s] = records[s]
    BY <2>1, <2>4 DEF TypeOK
  <2>6. \/ /\ AtWork(current) = {} /\ pending' = pending
           /\ request' = [request EXCEPT ![q] = Save("writing")]
           /\ copy' = [copy EXCEPT ![q] = mine]
        \/ /\ AtWork(current) # {} /\ pending' = pending \cup {current}
           /\ request' = [request EXCEPT ![q] = Save("waiting")]
           /\ copy' = copy
    BY <1>2 DEF Commit
  <2>7. /\ request' \in [Requests -> Request] /\ copy' \in [Requests -> Tables]
        /\ \A p \in Requests : p # q => request'[p] = request[p] /\ copy'[p] = copy[p]
        /\ request'[q].store = current /\ request'[q].of = r /\ request'[q].kind = kind
        /\ request'[q].version = latest + 1
        /\ \/ /\ AtWork(current) = {} /\ pending' = pending
              /\ request'[q].pc = "writing" /\ copy'[q] = mine
           \/ /\ AtWork(current) # {} /\ pending' = pending \cup {current}
              /\ request'[q].pc = "waiting" /\ copy' = copy
    <3> HIDE DEF mine
    <3> QED
      BY <2>1, <2>3, <2>6 DEF TypeOK
  <2>8. /\ records'[current][r][kind] = latest + 1
        /\ \A s \in Repeaters : \A f \in Fields :
             (s # r \/ f # kind) => records'[current][s][f] = records[current][s][f]
    BY <1>2, <2>2, <2>5
  <2> QED
    BY <1>1, <2>4, <2>5, <2>7, <2>8 DEF Changed
<1>3. WithSettings(r) \in Record /\ WithPassword(r) \in Record
  BY <1>1 DEF WithSettings, WithPassword, Mine, Record, TypeOK, Tables
<1>4. /\ WithSettings(r)["settings"] = latest + 1 /\ WithPassword(r)["password"] = latest + 1
      /\ WithSettings(r)["password"] = records[current][r]["password"]
      /\ WithPassword(r)["settings"] = records[current][r]["settings"]
  BY DEF WithSettings, WithPassword, Mine
<1> QED
  BY <1>1, <1>2, <1>3, <1>4 DEF Fields

(* The request is answered.                                                *)
LEMMA LeavesFree ==
  ASSUME TypeOK, NEW q \in Requests, Leaves(q)
  PROVE  /\ request' \in [Requests -> Request] /\ request'[q] = NoRequest
         /\ copy' \in [Requests -> Tables] /\ copy'[q] = NoRecords
         /\ \A p \in Requests : p # q => request'[p] = request[p] /\ copy'[p] = copy[p]
<1>1. NoRequest \in Request /\ NoRecords \in Tables
  BY ConstantsAssumption DEF NoRequest, Request, Tables, Record, NoRecords, Empty
<1> QED
  BY <1>1 DEF Leaves, TypeOK

(* A save that returned counts with its version.                           *)
LEMMA ReportCounts ==
  ASSUME TypeOK, NEW q \in Requests, Reported(q)
  PROVE  /\ Leaves(q)
         /\ told' \in [Repeaters -> [Fields -> 0..Changes]]
         /\ request[q].store # current => told' = told
         /\ \A r \in Repeaters : \A f \in Fields :
              \/ told'[r][f] = told[r][f]
              \/ /\ r = request[q].of /\ f = request[q].kind
                 /\ told'[r][f] = request[q].version
<1>1. Leaves(q)
  BY DEF Reported
<1>3. request[q].version \in 0..Changes
  BY DEF TypeOK, Request
<1>4. told \in [Repeaters -> [Fields -> 0..Changes]]
  BY DEF TypeOK
<1> DEFINE of == request[q].of
           kind == request[q].kind
           version == request[q].version
<1>5. CASE request[q].store = current
  <2>1. told' = [told EXCEPT ![of][kind] = IF @ >= version THEN @ ELSE version]
    BY <1>5 DEF Reported
  <2> HIDE DEF of, kind, version
  <2>2. version \in 0..Changes
    BY <1>3 DEF version
  <2>3. /\ told' \in [Repeaters -> [Fields -> 0..Changes]]
        /\ \A r \in Repeaters : \A f \in Fields :
             told'[r][f] = told[r][f] \/ (r = of /\ f = kind /\ told'[r][f] = version)
    BY <1>4, <2>1, <2>2
  <2> QED
    BY <1>1, <1>5, <2>3 DEF of, kind, version
<1>6. CASE request[q].store # current
  BY <1>1, <1>4, <1>6 DEF Reported
<1> QED
  BY <1>5, <1>6

(* Types are kept by every step.                                           *)
LEMMA TypeStep == TypeOK /\ [Next]_vars => TypeOK'
<1> SUFFICES ASSUME TypeOK, [Next]_vars PROVE TypeOK'
  OBVIOUS
<1> USE ConstantsAssumption
<1>0. Versions(file) \in [Repeaters -> [Fields -> 0..Changes]]
  BY DEF TypeOK, Versions, Tables, Record, Fields
<1>1. CASE Load
  BY <1>0, <1>1 DEF Load, TypeOK
<1>2. CASE Unload
  BY <1>2 DEF Unload, TypeOK
<1>3. CASE Crash
  <2>1. request' \in [Requests -> Request] /\ copy' \in [Requests -> Tables]
    BY <1>3 DEF Crash, NoRequest, Request, Tables, Record, NoRecords, Empty
  <2> QED
    BY <1>0, <1>3, <2>1 DEF Crash, TypeOK
<1>4. ASSUME NEW q \in Requests, RequestStep(q) PROVE TypeOK'
  <2>1. CASE Leaves(q)
    <3>1. request' \in [Requests -> Request] /\ copy' \in [Requests -> Tables]
      BY <2>1, LeavesFree
    <3>2. told' \in [Repeaters -> [Fields -> 0..Changes]]
      <4>1. CASE Reported(q)
        BY <4>1, ReportCounts
      <4> QED
        BY <1>4, <4>1 DEF RequestStep, TakesLock, Written, WriteIsLogged, WriteFails, TypeOK
    <3>3. file' \in Tables /\ behind' \in BOOLEAN
      BY <1>4 DEF RequestStep, TakesLock, Written, WriteIsLogged, WriteFails, TypeOK
    <3>4. UNCHANGED <<managed, current, records, latest>> /\ pending' \subseteq pending
      BY <1>4 DEF RequestStep, TakesLock, Written, WriteIsLogged, WriteFails
    <3> QED
      BY <3>1, <3>2, <3>3, <3>4 DEF TypeOK
  <2>2. CASE /\ TakesLock(q) /\ UNCHANGED told /\ request[q].store \in pending
             /\ request' = [request EXCEPT ![q].pc = "writing"]
             /\ copy' = [copy EXCEPT ![q] = records[request[q].store]]
    <3>1. request[q].store \in Stores
      BY <2>2 DEF TypeOK
    <3>2. request' \in [Requests -> Request]
      BY <2>2 DEF TypeOK, Request
    <3> QED
      BY <2>2, <3>1, <3>2 DEF TakesLock, TypeOK
  <2> QED
    BY <1>4, <2>1, <2>2 DEF RequestStep, TakesLock, Reported, Written, WriteIsLogged, WriteFails
<1>5. ASSUME NEW q \in Requests, NEW r \in Repeaters,
             SaveSettings(q, r) \/ SetPassword(q, r) \/ RemovePassword(q, r)
      PROVE  TypeOK'
  <2>1. PICK kind \in Fields : Changed(q, r, kind)
    BY <1>5, CommitChanges
  <2> QED
    BY <2>1 DEF Changed, TypeOK
<1>6. CASE UNCHANGED vars
  BY <1>6 DEF vars, TypeOK
<1> QED
  BY <1>1, <1>2, <1>3, <1>4, <1>5, <1>6 DEF Next

(* No version is made up.                                                  *)
LEMMA LatestStep == TypeOK /\ LatestInv /\ [Next]_vars => LatestInv'
<1> SUFFICES ASSUME TypeOK, LatestInv, [Next]_vars PROVE LatestInv'
  OBVIOUS
<1> USE DEF LatestInv
<1>0. \A r \in Repeaters : \A f \in Fields : NoRecords[r][f] <= latest
  BY ConstantsAssumption DEF TypeOK, NoRecords, Empty, Fields
<1>1. CASE Load
  BY <1>1 DEF Load, TypeOK
<1>2. CASE Unload \/ UNCHANGED vars
  BY <1>2 DEF Unload, vars
<1>3. CASE Crash
  BY <1>0, <1>3 DEF Crash
<1>4. ASSUME NEW q \in Requests, RequestStep(q) PROVE LatestInv'
  <2>1. CASE Leaves(q)
    <3>1. \A p \in Requests : copy'[p] = copy[p] \/ copy'[p] = NoRecords
      BY <2>1, LeavesFree
    <3>2. UNCHANGED <<latest, records>> /\ (file' = file \/ file' = copy[q])
      BY <1>4 DEF RequestStep, TakesLock, Written, WriteIsLogged, WriteFails
    <3> QED
      BY <1>0, <3>1, <3>2
  <2>2. CASE /\ TakesLock(q) /\ request[q].store \in pending
             /\ copy' = [copy EXCEPT ![q] = records[request[q].store]]
    BY <2>2 DEF TakesLock, TypeOK
  <2> QED
    BY <1>4, <2>1, <2>2 DEF RequestStep, TakesLock, Reported, Written, WriteIsLogged, WriteFails
<1>5. ASSUME NEW q \in Requests, NEW r \in Repeaters,
             SaveSettings(q, r) \/ SetPassword(q, r) \/ RemovePassword(q, r)
      PROVE  LatestInv'
  <2>1. PICK kind \in Fields : Changed(q, r, kind)
    BY <1>5, CommitChanges
  <2>2. ASSUME NEW t \in Stores, NEW s \in Repeaters, NEW f \in Fields
        PROVE  records'[t][s][f] <= latest'
    <3>1. records[t][s][f] \in Nat /\ latest \in Nat
      BY Values
    <3> QED
      BY <2>1, <3>1 DEF Changed
  <2>3. ASSUME NEW p \in Requests, NEW s \in Repeaters, NEW f \in Fields
        PROVE  copy'[p][s][f] <= latest'
    <3>1. copy[p][s][f] \in Nat /\ latest \in Nat /\ current \in Stores
      BY Values DEF TypeOK
    <3>2. copy'[p] = copy[p] \/ copy'[p] = records'[current]
      BY <2>1 DEF Changed
    <3> QED
      BY <2>1, <2>2, <3>1, <3>2 DEF Changed
  <2>4. ASSUME NEW s \in Repeaters, NEW f \in Fields
        PROVE  file'[s][f] <= latest'
    <3>1. file[s][f] \in Nat /\ latest \in Nat
      BY Values
    <3> QED
      BY <2>1, <3>1 DEF Changed
  <2> QED
    BY <2>2, <2>3, <2>4
<1> QED
  BY <1>1, <1>2, <1>3, <1>4, <1>5 DEF Next

StoreInv == RequestInv /\ WriteInv /\ PendingInv /\ ToldInv /\ FileInv

(* A load, an unload and a stop: no request of the loaded store is at work,*)
(* or nothing changes.                                                     *)
LEMMA EntryStep ==
  ASSUME TypeOK, LatestInv, StoreInv, Load \/ Unload \/ Crash \/ UNCHANGED vars
  PROVE  StoreInv'
<1> USE DEF StoreInv
<1>0. ASSUME told' = Versions(file) PROVE AtMost(told', file)
  <2>1. \A r \in Repeaters : \A f \in Fields : Versions(file)[r][f] = file[r][f]
    BY DEF Versions, Fields
  <2>2. \A r \in Repeaters : \A f \in Fields : file[r][f] \in Nat
    BY Values
  <2> QED
    BY <1>0, <2>1, <2>2 DEF AtMost
<1>1. ASSUME AtWork(current)' = {}, file' = file, records'[current'] = file,
             current' \notin pending', AtMost(told', file)
      PROVE  StoreInv'
  BY <1>1 DEF RequestInv, WriteInv, PendingInv, ToldInv, FileInv, AtMost
<1>2. CASE Load
  <2>1. AtWork(current)' = {} /\ records'[current'] = file /\ current' \notin pending'
    BY <1>2 DEF Load, AtWork, TypeOK
  <2>2. AtMost(told', file)
    BY <1>0, <1>2 DEF Load, ToldInv, AtMost
  <2> QED
    BY <1>1, <1>2, <2>1, <2>2 DEF Load
<1>3. CASE Crash
  <2>1. AtWork(current)' = {} /\ records'[current'] = file /\ current' \notin pending'
    BY <1>3 DEF Crash, AtWork, TypeOK, NoRequest
  <2>2. AtMost(told', file)
    BY <1>0, <1>3 DEF Crash, ToldInv, AtMost
  <2> QED
    BY <1>1, <1>3, <2>1, <2>2 DEF Crash
<1>4. CASE Unload \/ UNCHANGED vars
  <2>1. UNCHANGED <<current, records, pending, file, request, copy, told, behind>>
    BY <1>4 DEF Unload, vars
  <2>2. AtWork(current)' = AtWork(current) /\ Busy(current)' = Busy(current)
    BY <2>1 DEF AtWork, Busy
  <2> QED
    BY <2>1, <2>2 DEF RequestInv, WriteInv, PendingInv, ToldInv, FileInv, AtMost
<1> QED
  BY <1>2, <1>3, <1>4

(* A new change is newer than anything reported; it is written at once only*)
(* if no other request of the store is at work.                            *)
LEMMA ChangeStep ==
  ASSUME TypeOK, LatestInv, StoreInv, NEW q \in Requests, NEW r \in Repeaters,
         SaveSettings(q, r) \/ SetPassword(q, r) \/ RemovePassword(q, r)
  PROVE  StoreInv'
<1> USE DEF StoreInv
<1>1. PICK kind \in Fields : Changed(q, r, kind)
  BY CommitChanges
<1>2. current' = current /\ current \in Stores /\ told' = told /\ file' = file /\ behind' = behind
  BY <1>1 DEF Changed, TypeOK
<1>3. \A s \in Repeaters : \A f \in Fields : records[current][s][f] <= records'[current][s][f]
  <2> SUFFICES ASSUME NEW s \in Repeaters, NEW f \in Fields
               PROVE  records[current][s][f] <= records'[current][s][f]
    OBVIOUS
  <2>1. records[current][s][f] \in Nat /\ latest \in Nat /\ records[current][s][f] <= latest
    BY <1>2, Values DEF LatestInv
  <2> QED
    BY <1>1, <2>1 DEF Changed
<1>4. \A s \in Repeaters : \A f \in Fields :
        records[current][s][f] \in Int /\ records'[current][s][f] \in Int /\ told[s][f] \in Int
  BY <1>1, <1>2, Values DEF Changed, Tables, Record, Fields
<1>5. AtMost(told', records'[current'])
  BY <1>2, <1>3, <1>4 DEF ToldInv, AtMost
<1>6. AtWork(current)' = AtWork(current) \cup {q} /\ q \notin AtWork(current)
  BY <1>1, <1>2 DEF AtWork, Changed
<1>7. \A p \in AtWork(current) : p \in Requests /\ p # q /\ request'[p] = request[p] /\ copy'[p] = copy[p]
  BY <1>1, <1>6 DEF AtWork, Changed
<1>8. RequestInv'
  <2> SUFFICES ASSUME NEW p \in AtWork(current) \cup {q}
               PROVE  /\ request'[p].of \in Repeaters /\ request'[p].kind \in Fields
                      /\ request'[p].version <= records'[current][request'[p].of][request'[p].kind]
    BY <1>2, <1>6 DEF RequestInv
  <2>1. CASE p = q
    BY <1>1, <1>2, <2>1, Values DEF Changed
  <2>2. CASE p \in AtWork(current)
    <3>1. /\ request[p].of \in Repeaters /\ request[p].kind \in Fields
          /\ request[p].version <= records[current][request[p].of][request[p].kind]
      BY <2>2 DEF RequestInv
    <3>2. request[p].version \in Nat
      BY <1>7, <2>2, <3>1, Values
    <3> QED
      BY <1>3, <1>4, <1>7, <2>2, <3>1, <3>2
  <2> QED
    BY <2>1, <2>2
<1>9. CASE /\ AtWork(current) = {} /\ pending' = pending
           /\ request'[q].pc = "writing" /\ copy'[q] = records'[current]
  <2>1. AtWork(current)' = {q} /\ Busy(current)'
    BY <1>6, <1>9 DEF Busy
  <2>2. current \notin pending
    BY <1>9 DEF PendingInv
  <2>3. WriteInv'
    BY <1>2, <1>5, <1>8, <1>9, <2>1 DEF WriteInv, RequestInv
  <2> QED
    BY <1>2, <1>5, <1>8, <1>9, <2>1, <2>2, <2>3 DEF PendingInv, ToldInv, FileInv
<1>10. CASE /\ AtWork(current) # {} /\ pending' = pending \cup {current}
            /\ request'[q].pc = "waiting" /\ copy' = copy
  <2>1. current' \in pending' /\ PendingInv'
    BY <1>2, <1>6, <1>10 DEF PendingInv
  <2>2. WriteInv'
    <3> SUFFICES ASSUME NEW p \in AtWork(current) \cup {q}, request'[p].pc = "writing"
                 PROVE  /\ \A t \in AtWork(current) \cup {q} : request'[t].pc = "writing" => t = p
                        /\ AtMost(told, copy[p])
                        /\ request'[p].version <= copy[p][request'[p].of][request'[p].kind]
      BY <1>2, <1>6, <1>10, <2>1 DEF WriteInv, AtMost
    <3>1. p \in AtWork(current) /\ request[p].pc = "writing" /\ request'[p] = request[p]
      BY <1>7, <1>10
    <3> QED
      BY <1>7, <1>10, <3>1 DEF WriteInv
  <2> QED
    BY <1>2, <1>5, <1>8, <2>1, <2>2 DEF ToldInv, FileInv
<1> QED
  BY <1>1, <1>9, <1>10 DEF Changed

(* A step of a request of an earlier store touches the file at most, and   *)
(* says so.                                                                *)
LEMMA EarlierStep ==
  ASSUME TypeOK, StoreInv, NEW q \in Requests, RequestStep(q), request[q].store # current
  PROVE  StoreInv'
<1> USE DEF StoreInv
<1>1. /\ UNCHANGED <<current, records, told>> /\ (current \in pending' <=> current \in pending)
      /\ (file' = file /\ behind' = behind) \/ behind' = TRUE
  BY DEF RequestStep, TakesLock, Written, WriteIsLogged, WriteFails, Reported
<1>2. \A p \in Requests : p # q => request'[p] = request[p] /\ copy'[p] = copy[p]
  <2>1. CASE Leaves(q)
    BY <2>1, LeavesFree
  <2> QED
    BY <2>1 DEF RequestStep, TakesLock, Reported, Written, WriteIsLogged, WriteFails, TypeOK
<1>3. q \notin AtWork(current) /\ (request'[q].pc = "idle" \/ request'[q].store # current)
  <2>1. CASE Leaves(q)
    BY <2>1, LeavesFree DEF NoRequest, AtWork
  <2> QED
    BY <2>1 DEF RequestStep, TakesLock, Reported, Written, WriteIsLogged, WriteFails, TypeOK,
       Request, AtWork
<1>4. AtWork(current)' = AtWork(current)
  BY <1>1, <1>2, <1>3 DEF AtWork
<1>5. \A p \in AtWork(current) : request'[p] = request[p] /\ copy'[p] = copy[p]
  BY <1>2, <1>3 DEF AtWork
<1>6. Busy(current)' = Busy(current)
  BY <1>1, <1>4, <1>5 DEF Busy
<1> QED
  BY <1>1, <1>4, <1>5, <1>6 DEF RequestInv, WriteInv, PendingInv, ToldInv, FileInv, AtMost

(* A step of a request of the loaded store.                                *)
LEMMA OwnStep ==
  ASSUME TypeOK, StoreInv, NEW q \in Requests, RequestStep(q), q \in AtWork(current)
  PROVE  StoreInv'
<1> USE DEF StoreInv
<1>0. UNCHANGED <<current, records>> /\ current \in Stores
  BY DEF RequestStep, TakesLock, Written, WriteIsLogged, WriteFails, TypeOK
<1>1. /\ request[q].store = current
      /\ request[q].of \in Repeaters /\ request[q].kind \in Fields
      /\ request[q].version <= records[current][request[q].of][request[q].kind]
  BY DEF AtWork, RequestInv
(* A request that is answered leaves the others as they are.               *)
<1>2. ASSUME Leaves(q)
      PROVE  /\ AtWork(current)' = AtWork(current) \ {q}
             /\ \A p \in AtWork(current)' : request'[p] = request[p] /\ copy'[p] = copy[p]
             /\ RequestInv'
  <2>1. /\ request'[q].pc = "idle"
        /\ \A p \in Requests : p # q => request'[p] = request[p] /\ copy'[p] = copy[p]
    BY <1>2, LeavesFree DEF NoRequest
  <2>2. AtWork(current)' = AtWork(current) \ {q}
    BY <1>0, <2>1 DEF AtWork
  <2>3. \A p \in AtWork(current)' : request'[p] = request[p] /\ copy'[p] = copy[p]
    BY <2>1, <2>2 DEF AtWork
  <2> QED
    BY <1>0, <2>2, <2>3 DEF RequestInv
(* What it reports is at most a table that has its version.                *)
<1>3. ASSUME Reported(q), NEW t \in Tables, AtMost(told, t),
             request[q].version <= t[request[q].of][request[q].kind]
      PROVE  AtMost(told', t)
  BY <1>3, ReportCounts DEF AtMost
<1>4. CASE TakesLock(q) /\ current \in pending
  <2>1. /\ request' = [request EXCEPT ![q].pc = "writing"]
        /\ copy' = [copy EXCEPT ![q] = records[current]]
        /\ UNCHANGED <<told, file, behind>> /\ current \notin pending'
        /\ ~Busy(current) /\ request[q].pc = "waiting"
    BY <1>1, <1>4 DEF TakesLock
  <2>2. /\ request'[q].pc = "writing" /\ copy'[q] = records[current]
        /\ \A p \in Requests :
             /\ request'[p].store = request[p].store /\ request'[p].of = request[p].of
             /\ request'[p].kind = request[p].kind /\ request'[p].version = request[p].version
             /\ p # q => request'[p] = request[p]
    BY <2>1 DEF TypeOK, Request
  <2>3. AtWork(current)' = AtWork(current) /\ AtWork(current) \subseteq Requests
    BY <1>0, <2>1, <2>2 DEF AtWork
  <2>4. Busy(current)' /\ \A p \in AtWork(current) : request'[p].pc = "writing" => p = q
    BY <1>0, <2>1, <2>2, <2>3 DEF Busy
  <2>5. RequestInv'
    BY <1>0, <2>2, <2>3 DEF RequestInv
  <2>6. WriteInv'
    BY <1>0, <1>1, <2>1, <2>2, <2>3, <2>4 DEF WriteInv, ToldInv, AtMost
  <2> QED
    BY <1>0, <2>1, <2>4, <2>5, <2>6 DEF PendingInv, ToldInv, FileInv, AtMost
<1>5. CASE TakesLock(q) /\ current \notin pending
  <2>1. /\ Reported(q) /\ Leaves(q) /\ pending' = pending /\ UNCHANGED <<file, behind>>
        /\ ~Busy(current) /\ request[q].pc = "waiting"
    BY <1>1, <1>5 DEF TakesLock, Reported
  <2>2. ~Busy(current)' /\ WriteInv'
    BY <1>0, <1>2, <2>1 DEF Busy, WriteInv
  <2>3. AtMost(told', records[current])
    BY <1>0, <1>1, <1>3, <2>1 DEF ToldInv, TypeOK
  <2>4. ~behind => file = records[current]
    BY <1>5, <2>1 DEF FileInv
  <2> QED
    BY <1>0, <1>2, <1>5, <2>1, <2>2, <2>3, <2>4 DEF PendingInv, ToldInv, FileInv, AtMost
<1>6. CASE Written(q) \/ WriteIsLogged(q) \/ WriteFails(q)
  <2>1. /\ request[q].pc = "writing" /\ Leaves(q) /\ pending' = pending
        /\ \/ file' = copy[q] /\ behind' = FALSE
           \/ file' = file /\ behind' = TRUE
        /\ Reported(q) \/ told' = told
    BY <1>1, <1>6 DEF Written, WriteIsLogged, WriteFails, Reported
  <2>2. /\ \A p \in AtWork(current) : request[p].pc = "writing" => p = q
        /\ AtMost(told, copy[q])
        /\ request[q].version <= copy[q][request[q].of][request[q].kind]
        /\ current \notin pending => copy[q] = records[current]
    BY <2>1 DEF WriteInv
  <2>3. ~Busy(current)' /\ WriteInv'
    BY <1>0, <1>2, <2>1, <2>2 DEF Busy, WriteInv
  <2>4. AtMost(told', records[current])
    BY <1>0, <1>1, <1>3, <2>1 DEF ToldInv, TypeOK
  <2>5. AtMost(told', copy[q])
    BY <1>3, <2>1, <2>2 DEF TypeOK
  <2>6. PendingInv'
    BY <1>0, <1>2, <2>1 DEF PendingInv
  <2> QED
    BY <1>0, <1>2, <2>1, <2>2, <2>3, <2>4, <2>5, <2>6 DEF ToldInv, FileInv, AtMost
<1> QED
  BY <1>4, <1>5, <1>6 DEF RequestStep

LEMMA StoreStep == TypeOK /\ LatestInv /\ StoreInv /\ [Next]_vars => StoreInv'
<1> SUFFICES ASSUME TypeOK, LatestInv, StoreInv, [Next]_vars PROVE StoreInv'
  OBVIOUS
<1>1. ASSUME NEW q \in Requests, RequestStep(q) PROVE StoreInv'
  <2>1. request[q].pc # "idle"
    BY <1>1 DEF RequestStep, TakesLock, Written, WriteIsLogged, WriteFails
  <2>2. q \in AtWork(current) \/ request[q].store # current
    BY <2>1 DEF AtWork
  <2> QED
    BY <1>1, <2>2, OwnStep, EarlierStep
<1> QED
  BY <1>1, EntryStep, ChangeStep DEF Next

(* The invariant holds in every reachable state.                           *)
THEOREM Inductive == Spec => []IInv
<1>1. IInv /\ [Next]_vars => IInv'
  BY TypeStep, LatestStep, StoreStep DEF IInv, StoreInv
<1> QED
  BY InitInv, <1>1, PTL DEF Spec

(* Records, requests and what they write keep their types.                 *)
THEOREM TypesHold == Spec => []TypeOK
<1>1. IInv => TypeOK
  BY DEF IInv
<1> QED
  BY Inductive, <1>1, PTL

(* What was reported as saved is in memory, and in the file unless a write *)
(* failed or an earlier store's landed since: for any number of requests,  *)
(* logged and reported failures, reloads and stops.                        *)
THEOREM SavedStays == Spec => []SavedIsInFile
<1>1. IInv => SavedIsInFile
  <2> SUFFICES ASSUME IInv, NEW r \in Repeaters, NEW f \in Fields
               PROVE  /\ records[current][r][f] >= told[r][f]
                      /\ ~behind => file[r][f] >= told[r][f]
    BY DEF SavedIsInFile
  <2>1. /\ told[r][f] <= records[current][r][f]
        /\ ~behind => told[r][f] <= file[r][f]
    BY DEF IInv, ToldInv, AtMost
  <2>2. records[current][r][f] \in Nat /\ file[r][f] \in Nat /\ told[r][f] \in Nat
    BY Values DEF IInv, TypeOK
  <2> QED
    BY <2>1, <2>2
<1> QED
  BY Inductive, <1>1, PTL

(* With no request of its own at work, the memory of the loaded entry is   *)
(* what the file has, up to a failed write or an earlier store's.          *)
THEOREM FileFollows == Spec => []FileCatchesUp
<1>1. IInv => FileCatchesUp
  <2>1. IInv /\ AtWork(current) = {} => current \notin pending /\ ~Busy(current)
    BY DEF IInv, PendingInv, Busy
  <2> QED
    BY <2>1 DEF IInv, FileInv, FileCatchesUp
<1> QED
  BY Inductive, <1>1, PTL
=============================================================================
