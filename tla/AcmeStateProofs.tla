--------------------------- MODULE AcmeStateProofs ---------------------------
(***************************************************************************)
(* The safety properties of AcmeState for any number of worker processes   *)
(* and any number of failures, faults and crashes.                         *)
(***************************************************************************)
EXTENDS AcmeState, TLAPS

\* A file being written is locked by its writer, what is stored was asked for,
\* and the fields are used in the order in which poll_next_infinite looks.
Stages ==
  \A w \in Workers :
    /\ writing[w] => flock = w /\ early_action[w] # "none"
    /\ load_cert[w] => load_account[w]
    /\ load_account[w] => early_action[w] = "none" /\ order[w] = "none"
    /\ early_action[w] = "store_cert" => cert[w] /\ account_key[w] # None
    /\ early_action[w] = "store_account" => wait[w] = "none" /\ account_key[w] # None
    /\ order[w] # "none" => account_key[w] # None

\* A process that found no certificate keeps the lock until it has one.
Searching ==
  \A w \in Workers :
    ~load_cert[w] /\ ~cert[w] /\ ~unreadable[w] => flock = w /\ cert_file = None

\* A process that found no account key keeps the lock until it has stored one.
Founding ==
  ~load_failed =>
    \A w \in Workers :
      ~load_account[w] =>
        /\ account_key[w] = None => flock = w /\ account_file = None
        /\ early_action[w] = "store_account" => flock = w /\ account_file <= Torn

IInv == TypeOK /\ Stages /\ Searching /\ Founding /\ SleepsUnlocked

USE AcmeAssumption

ProcType ==
  /\ early_action \in [Workers -> {"none", "store_cert", "store_account"}]
  /\ writing \in [Workers -> BOOLEAN]
  /\ wait \in [Workers -> {"none", "renewal", "backoff"}]
  /\ load_cert \in [Workers -> BOOLEAN]
  /\ load_account \in [Workers -> BOOLEAN]
  /\ account_key \in [Workers -> Nat]
  /\ cert \in [Workers -> BOOLEAN]

FileType ==
  /\ flock \in Workers \cup {Nobody}
  /\ cert_file \in {None, Torn, 2}
  /\ account_file \in Nat

HistoryType ==
  /\ unreadable \in [Workers -> BOOLEAN]
  /\ store_failed \in [Workers -> BOOLEAN]
  /\ load_failed \in BOOLEAN

\* Every step keeps the variables in their types.
LEMMA TypeStep ==
  TypeOK /\ [Next]_vars => TypeOK'
<1> SUFFICES ASSUME TypeOK, [Next]_vars PROVE TypeOK'
    BY Zenon
<1> USE DEF TypeOK, None, Torn, OrderStatus
<1>1. ASSUME NEW w \in Workers, LoadCert(w) PROVE TypeOK'
    <2>1. ProcType'
      BY <1>1, Zenon DEF ProcType, LoadCert, Awake, NoEarlyAction, MayLock, Fault, procVars,
         fileVars, countVars, history
    <2>2. FileType'
      BY <1>1, Zenon DEF FileType, LoadCert, Awake, NoEarlyAction, MayLock, Fault, procVars,
         fileVars, countVars, history
    <2>3. failures' \in 0..MaxFailures /\ faults' \in 0..MaxFaults
      BY <1>1 DEF LoadCert, Awake, NoEarlyAction, MayLock, Fault, procVars, fileVars, countVars,
         history
    <2>4. HistoryType'
      BY <1>1, Zenon DEF HistoryType, LoadCert, Awake, NoEarlyAction, MayLock, Fault, procVars,
         fileVars, countVars, history
    <2> QED
      BY <1>1, <2>1, <2>2, <2>3, <2>4, Zenon DEF ProcType, FileType, HistoryType, LoadCert,
         Awake, NoEarlyAction, MayLock, Fault, procVars, fileVars, countVars, history
<1>2. ASSUME NEW w \in Workers, LoadAccount(w) PROVE TypeOK'
    <2>1. ProcType'
      BY <1>2 DEF ProcType, LoadAccount, Awake, NoEarlyAction, MayLock, Fault, procVars,
         fileVars, countVars, history
    <2>2. FileType'
      BY <1>2, Zenon DEF FileType, LoadAccount, Awake, NoEarlyAction, MayLock, Fault, procVars,
         fileVars, countVars, history
    <2>3. failures' \in 0..MaxFailures /\ faults' \in 0..MaxFaults
      BY <1>2 DEF LoadAccount, Awake, NoEarlyAction, MayLock, Fault, procVars, fileVars,
         countVars, history
    <2>4. HistoryType'
      BY <1>2, Zenon DEF HistoryType, LoadAccount, Awake, NoEarlyAction, MayLock, Fault,
         procVars, fileVars, countVars, history
    <2> QED
      BY <1>2, <2>1, <2>2, <2>3, <2>4, Zenon DEF ProcType, FileType, HistoryType, LoadAccount,
         Awake, NoEarlyAction, MayLock, Fault, procVars, fileVars, countVars, history
<1>3. ASSUME NEW w \in Workers, StoreBegin(w) PROVE TypeOK'
    <2>1. ProcType'
      BY <1>3, Zenon DEF ProcType, StoreBegin, NoEarlyAction, MayLock, Fault, procVars, fileVars,
         countVars, history
    <2>2. FileType'
      BY <1>3 DEF FileType, StoreBegin, NoEarlyAction, MayLock, Fault, procVars, fileVars,
         countVars, history
    <2>3. failures' \in 0..MaxFailures /\ faults' \in 0..MaxFaults
      BY <1>3 DEF StoreBegin, NoEarlyAction, MayLock, Fault, procVars, fileVars, countVars, history
    <2>4. HistoryType'
      BY <1>3, Zenon DEF HistoryType, StoreBegin, NoEarlyAction, MayLock, Fault, procVars,
         fileVars, countVars, history
    <2> QED
      BY <1>3, <2>1, <2>2, <2>3, <2>4, Zenon DEF ProcType, FileType, HistoryType, StoreBegin,
         NoEarlyAction, MayLock, Fault, procVars, fileVars, countVars, history
<1>4. ASSUME NEW w \in Workers, StoreEnd(w) PROVE TypeOK'
    <2>1. ProcType'
      BY <1>4, Zenon DEF ProcType, StoreEnd, CertStored, AccountStored, Fault, procVars,
         fileVars, countVars, history
    <2>2. FileType'
      BY <1>4 DEF FileType, StoreEnd, CertStored, AccountStored, Fault, procVars, fileVars,
         countVars, history
    <2>3. failures' \in 0..MaxFailures /\ faults' \in 0..MaxFaults
      BY <1>4 DEF StoreEnd, CertStored, AccountStored, Fault, procVars, fileVars, countVars, history
    <2>4. HistoryType'
      BY <1>4, Zenon DEF HistoryType, StoreEnd, CertStored, AccountStored, Fault, procVars,
         fileVars, countVars, history
    <2> QED
      BY <1>4, <2>1, <2>2, <2>3, <2>4, Zenon DEF ProcType, FileType, HistoryType, StoreEnd,
         CertStored, AccountStored, Fault, procVars, fileVars, countVars, history
<1>5. ASSUME NEW w \in Workers, ScheduleOrder(w) PROVE TypeOK'
    BY <1>5 DEF ScheduleOrder, Fresh, Awake, NoEarlyAction, procVars, fileVars, countVars, history
<1>6. ASSUME NEW w \in Workers, NEW status \in OrderStatus, OrderStep(w, status) PROVE TypeOK'
    BY <1>6 DEF OrderStep, OrderStatus, Fresh, Awake, NoEarlyAction, procVars, fileVars,
       countVars, history
<1>7. ASSUME NEW w \in Workers, OrderFails(w) PROVE TypeOK'
    BY <1>7 DEF OrderFails, Fresh, Awake, NoEarlyAction, procVars, fileVars, countVars, history
<1>8. ASSUME NEW w \in Workers, OrderDone(w) PROVE TypeOK'
    <2>1. ProcType'
      BY <1>8, Zenon DEF ProcType, OrderDone, Fresh, Awake, NoEarlyAction, procVars, fileVars,
         countVars, history
    <2>2. FileType'
      BY <1>8, Zenon DEF FileType, OrderDone, Fresh, Awake, NoEarlyAction, procVars, fileVars,
         countVars, history
    <2>3. failures' \in 0..MaxFailures /\ faults' \in 0..MaxFaults
      BY <1>8 DEF OrderDone, Fresh, Awake, NoEarlyAction, procVars, fileVars, countVars, history
    <2>4. HistoryType'
      BY <1>8, Zenon DEF HistoryType, OrderDone, Fresh, Awake, NoEarlyAction, procVars, fileVars,
         countVars, history
    <2> QED
      BY <1>8, <2>1, <2>2, <2>3, <2>4, Zenon DEF ProcType, FileType, HistoryType, OrderDone,
         Fresh, Awake, NoEarlyAction, procVars, fileVars, countVars, history
<1>9. ASSUME NEW w \in Workers, Wake(w) PROVE TypeOK'
    BY <1>9, Zenon DEF Wake, NoEarlyAction, procVars, fileVars, countVars, history
<1>10. ASSUME NEW w \in Workers, Crash(w) PROVE TypeOK'
    BY <1>10 DEF Crash, procVars, fileVars, countVars, history
<1>11. CASE UNCHANGED vars
    BY <1>11, Zenon DEF vars, procVars, fileVars, countVars, history
<1> QED
    BY <1>1, <1>2, <1>3, <1>4, <1>5, <1>6, <1>7, <1>8, <1>9, <1>10, <1>11 DEF Next, CacheStep,
       OwnStep

\* Every step keeps the stages of a process in order.
LEMMA StagesStep ==
  TypeOK /\ Stages /\ [Next]_vars => Stages'
<1> SUFFICES ASSUME TypeOK /\ Stages, [Next]_vars PROVE Stages'
    BY Zenon
<1> USE DEF TypeOK, Stages, None, Torn, OrderStatus
<1>1. ASSUME NEW w \in Workers, LoadCert(w) PROVE Stages'
    BY <1>1 DEF LoadCert, Awake, NoEarlyAction, MayLock, Fault, procVars, fileVars, countVars,
       history
<1>2. ASSUME NEW w \in Workers, LoadAccount(w) PROVE Stages'
    BY <1>2 DEF LoadAccount, Awake, NoEarlyAction, MayLock, Fault, procVars, fileVars, countVars,
       history
<1>3. ASSUME NEW w \in Workers, StoreBegin(w) PROVE Stages'
    BY <1>3 DEF StoreBegin, NoEarlyAction, MayLock, Fault, procVars, fileVars, countVars, history
<1>4. ASSUME NEW w \in Workers, StoreEnd(w) PROVE Stages'
    BY <1>4 DEF StoreEnd, CertStored, AccountStored, Fault, procVars, fileVars, countVars, history
<1>5. ASSUME NEW w \in Workers, ScheduleOrder(w) PROVE Stages'
    BY <1>5 DEF ScheduleOrder, Fresh, Awake, NoEarlyAction, procVars, fileVars, countVars, history
<1>6. ASSUME NEW w \in Workers, NEW status \in OrderStatus, OrderStep(w, status) PROVE Stages'
    BY <1>6, Zenon DEF OrderStep, OrderStatus, Fresh, Awake, NoEarlyAction, procVars, fileVars,
       countVars, history
<1>7. ASSUME NEW w \in Workers, OrderFails(w) PROVE Stages'
    BY <1>7, Zenon DEF OrderFails, Fresh, Awake, NoEarlyAction, procVars, fileVars, countVars,
       history
<1>8. ASSUME NEW w \in Workers, OrderDone(w) PROVE Stages'
    BY <1>8 DEF OrderDone, Fresh, Awake, NoEarlyAction, procVars, fileVars, countVars, history
<1>9. ASSUME NEW w \in Workers, Wake(w) PROVE Stages'
    BY <1>9, Zenon DEF Wake, NoEarlyAction, procVars, fileVars, countVars, history
<1>10. ASSUME NEW w \in Workers, Crash(w) PROVE Stages'
    BY <1>10 DEF Crash, procVars, fileVars, countVars, history
<1>11. CASE UNCHANGED vars
    BY <1>11, Zenon DEF vars, procVars, fileVars, countVars, history
<1> QED
    BY <1>1, <1>2, <1>3, <1>4, <1>5, <1>6, <1>7, <1>8, <1>9, <1>10, <1>11 DEF Next, CacheStep,
       OwnStep

\* Nobody else can touch the certificate of a process that searches.
LEMMA SearchingStep ==
  TypeOK /\ Stages /\ Searching /\ [Next]_vars => Searching'
<1> SUFFICES ASSUME TypeOK /\ Stages /\ Searching, [Next]_vars PROVE Searching'
    BY Zenon
<1> USE DEF TypeOK, Stages, Searching, None, Torn
<1>1. ASSUME NEW w \in Workers, LoadCert(w) PROVE Searching'
    BY <1>1 DEF LoadCert, Awake, NoEarlyAction, MayLock, Fault, procVars, fileVars, countVars,
       history
<1>2. ASSUME NEW w \in Workers, LoadAccount(w) PROVE Searching'
    BY <1>2 DEF LoadAccount, Awake, NoEarlyAction, MayLock, Fault, procVars, fileVars, countVars,
       history
<1>3. ASSUME NEW w \in Workers, StoreBegin(w) PROVE Searching'
    BY <1>3 DEF StoreBegin, NoEarlyAction, MayLock, Fault, procVars, fileVars, countVars, history
<1>4. ASSUME NEW w \in Workers, StoreEnd(w) PROVE Searching'
    BY <1>4, Zenon DEF StoreEnd, CertStored, AccountStored, Fault, procVars, fileVars, countVars,
       history
<1>5. ASSUME NEW w \in Workers, ScheduleOrder(w) PROVE Searching'
    BY <1>5, Zenon DEF ScheduleOrder, Fresh, Awake, NoEarlyAction, procVars, fileVars, countVars,
       history
<1>6. ASSUME NEW w \in Workers, NEW status \in OrderStatus, OrderStep(w, status) PROVE Searching'
    BY <1>6, Zenon DEF OrderStep, OrderStatus, Fresh, Awake, NoEarlyAction, procVars, fileVars,
       countVars, history
<1>7. ASSUME NEW w \in Workers, OrderFails(w) PROVE Searching'
    BY <1>7, Zenon DEF OrderFails, Fresh, Awake, NoEarlyAction, procVars, fileVars, countVars,
       history
<1>8. ASSUME NEW w \in Workers, OrderDone(w) PROVE Searching'
    BY <1>8 DEF OrderDone, Fresh, Awake, NoEarlyAction, procVars, fileVars, countVars, history
<1>9. ASSUME NEW w \in Workers, Wake(w) PROVE Searching'
    BY <1>9, Zenon DEF Wake, NoEarlyAction, procVars, fileVars, countVars, history
<1>10. ASSUME NEW w \in Workers, Crash(w) PROVE Searching'
    BY <1>10 DEF Crash, procVars, fileVars, countVars, history
<1>11. CASE UNCHANGED vars
    BY <1>11, Zenon DEF vars, procVars, fileVars, countVars, history
<1> QED
    BY <1>1, <1>2, <1>3, <1>4, <1>5, <1>6, <1>7, <1>8, <1>9, <1>10, <1>11, Zenon DEF Next,
       CacheStep, OwnStep

\* Nobody else can touch the account key of a process that founds one.
LEMMA FoundingStep ==
  TypeOK /\ Stages /\ Founding /\ [Next]_vars => Founding'
<1> SUFFICES ASSUME TypeOK /\ Stages /\ Founding, [Next]_vars PROVE Founding'
    BY Zenon
<1> USE DEF TypeOK, Stages, Founding, None, Torn
<1>1. ASSUME NEW w \in Workers, LoadCert(w) PROVE Founding'
    BY <1>1 DEF LoadCert, Awake, NoEarlyAction, MayLock, Fault, procVars, fileVars, countVars,
       history
<1>2. ASSUME NEW w \in Workers, LoadAccount(w) PROVE Founding'
    BY <1>2 DEF LoadAccount, Awake, NoEarlyAction, MayLock, Fault, procVars, fileVars, countVars,
       history
<1>3. ASSUME NEW w \in Workers, StoreBegin(w) PROVE Founding'
    BY <1>3 DEF StoreBegin, NoEarlyAction, MayLock, Fault, procVars, fileVars, countVars, history
<1>4. ASSUME NEW w \in Workers, StoreEnd(w) PROVE Founding'
    BY <1>4 DEF StoreEnd, CertStored, AccountStored, Fault, procVars, fileVars, countVars, history
<1>5. ASSUME NEW w \in Workers, ScheduleOrder(w) PROVE Founding'
    BY <1>5 DEF ScheduleOrder, Fresh, Awake, NoEarlyAction, procVars, fileVars, countVars, history
<1>6. ASSUME NEW w \in Workers, NEW status \in OrderStatus, OrderStep(w, status) PROVE Founding'
    BY <1>6, Zenon DEF OrderStep, OrderStatus, Fresh, Awake, NoEarlyAction, procVars, fileVars,
       countVars, history
<1>7. ASSUME NEW w \in Workers, OrderFails(w) PROVE Founding'
    BY <1>7, Zenon DEF OrderFails, Fresh, Awake, NoEarlyAction, procVars, fileVars, countVars,
       history
<1>8. ASSUME NEW w \in Workers, OrderDone(w) PROVE Founding'
    BY <1>8 DEF OrderDone, Fresh, Awake, NoEarlyAction, procVars, fileVars, countVars, history
<1>9. ASSUME NEW w \in Workers, Wake(w) PROVE Founding'
    BY <1>9, Zenon DEF Wake, NoEarlyAction, procVars, fileVars, countVars, history
<1>10. ASSUME NEW w \in Workers, Crash(w) PROVE Founding'
    BY <1>10, ZenonT(30) DEF Crash, procVars, fileVars, countVars, history
<1>11. CASE UNCHANGED vars
    BY <1>11, Zenon DEF vars, procVars, fileVars, countVars, history
<1> QED
    BY <1>1, <1>2, <1>3, <1>4, <1>5, <1>6, <1>7, <1>8, <1>9, <1>10, <1>11, Zenon DEF Next,
       CacheStep, OwnStep

\* A process goes to sleep only after it has let go of the lock or failed to store.
LEMMA SleepsStep ==
  TypeOK /\ Stages /\ SleepsUnlocked /\ [Next]_vars => SleepsUnlocked'
<1> SUFFICES ASSUME TypeOK /\ Stages /\ SleepsUnlocked, [Next]_vars PROVE SleepsUnlocked'
    BY Zenon
<1> USE DEF TypeOK, Stages, SleepsUnlocked, NoEarlyAction, None, Torn
<1>1. ASSUME NEW w \in Workers, LoadCert(w) PROVE SleepsUnlocked'
    BY <1>1 DEF LoadCert, Awake, NoEarlyAction, MayLock, Fault, procVars, fileVars, countVars,
       history
<1>2. ASSUME NEW w \in Workers, LoadAccount(w) PROVE SleepsUnlocked'
    BY <1>2, Zenon DEF LoadAccount, Awake, NoEarlyAction, MayLock, Fault, procVars, fileVars,
       countVars, history
<1>3. ASSUME NEW w \in Workers, StoreBegin(w) PROVE SleepsUnlocked'
    BY <1>3 DEF StoreBegin, NoEarlyAction, MayLock, Fault, procVars, fileVars, countVars, history
<1>4. ASSUME NEW w \in Workers, StoreEnd(w) PROVE SleepsUnlocked'
    BY <1>4 DEF StoreEnd, CertStored, AccountStored, Fault, procVars, fileVars, countVars, history
<1>5. ASSUME NEW w \in Workers, ScheduleOrder(w) PROVE SleepsUnlocked'
    BY <1>5, ZenonT(30) DEF ScheduleOrder, Fresh, Awake, NoEarlyAction, procVars, fileVars,
       countVars, history
<1>6. ASSUME NEW w \in Workers, NEW status \in OrderStatus, OrderStep(w, status) PROVE SleepsUnlocked'
    BY <1>6, Zenon DEF OrderStep, OrderStatus, Fresh, Awake, NoEarlyAction, procVars, fileVars,
       countVars, history
<1>7. ASSUME NEW w \in Workers, OrderFails(w) PROVE SleepsUnlocked'
    BY <1>7, Zenon DEF OrderFails, Fresh, Awake, NoEarlyAction, procVars, fileVars, countVars,
       history
<1>8. ASSUME NEW w \in Workers, OrderDone(w) PROVE SleepsUnlocked'
    BY <1>8 DEF OrderDone, Fresh, Awake, NoEarlyAction, procVars, fileVars, countVars, history
<1>9. ASSUME NEW w \in Workers, Wake(w) PROVE SleepsUnlocked'
    BY <1>9, ZenonT(30) DEF Wake, NoEarlyAction, procVars, fileVars, countVars, history
<1>10. ASSUME NEW w \in Workers, Crash(w) PROVE SleepsUnlocked'
    BY <1>10, ZenonT(30) DEF Crash, procVars, fileVars, countVars, history
<1>11. CASE UNCHANGED vars
    BY <1>11, Zenon DEF vars, procVars, fileVars, countVars, history
<1> QED
    BY <1>1, <1>2, <1>3, <1>4, <1>5, <1>6, <1>7, <1>8, <1>9, <1>10, <1>11, Zenon DEF Next,
       CacheStep, OwnStep

\* The initial state satisfies the inductive invariant.
LEMMA InitInv == Init => IInv
<1> SUFFICES ASSUME Init PROVE IInv
    BY Zenon
<1> USE DEF Init, None, Torn
<1>1. TypeOK
  <2>1. ProcType
      BY Zenon DEF ProcType
  <2>2. FileType
      BY Zenon DEF FileType
  <2>3. HistoryType
      BY Zenon DEF HistoryType
  <2>4. order \in [Workers -> OrderStatus \cup {"none", "new"}]
      BY Zenon
  <2> QED
      BY <2>1, <2>2, <2>3, <2>4 DEF TypeOK, ProcType, FileType, HistoryType
<1>2. Stages
    BY Zenon DEF Stages
<1>3. Searching /\ Founding /\ SleepsUnlocked
    BY Zenon DEF Searching, Founding, SleepsUnlocked
<1> QED
    BY <1>1, <1>2, <1>3, Zenon DEF IInv

\* Every behaviour satisfies the inductive invariant.
LEMMA Inductive == Spec => []IInv
<1>1. IInv /\ [Next]_vars => IInv'
    BY TypeStep, StagesStep, SearchingStep, FoundingStep, SleepsStep, Zenon DEF IInv
<1> QED
    BY InitInv, <1>1, PTL DEF Spec

\* In a cluster of any size a process orders its first certificate only while
\* the cache has none, alone, and with the lock it took in load_cert.
THEOREM FirstOrder == Spec => []FirstOrderNeeded
<1>1. IInv => FirstOrderNeeded
    BY Zenon DEF IInv, TypeOK, Stages, Searching, FirstOrderNeeded
<1> QED
    BY Inductive, <1>1, PTL

\* No process of a cluster of any size sleeps until its renewal with the lock,
\* unless its certificate could not be stored.
THEOREM NoLockedSleep == Spec => []SleepsUnlocked
<1>1. IInv => SleepsUnlocked
    BY Zenon DEF IInv
<1> QED
    BY Inductive, <1>1, PTL

\* Whatever crashes and whichever stores fail, the account key in the cache is
\* replaced only after a load of it has failed.
THEOREM AccountSurvives == Spec => AccountKept
<1> DEFINE Kept == account_file > Torn /\ account_file' # account_file => load_failed
<1>1. IInv /\ [Next]_vars => [Kept]_vars
  <2> SUFFICES ASSUME IInv, Next, account_file > Torn, account_file' # account_file
               PROVE  load_failed
      BY Zenon
  <2>1. PICK w \in Workers : early_action[w] = "store_account"
                             /\ (StoreBegin(w) \/ StoreEnd(w))
      BY DEF Next, CacheStep, OwnStep, IInv, TypeOK, LoadCert, LoadAccount, StoreBegin,
             StoreEnd, CertStored, AccountStored, ScheduleOrder, OrderStep, OrderFails,
             OrderDone, Wake, Crash, fileVars, Stages, NoEarlyAction
  <2> QED
      BY <2>1 DEF IInv, TypeOK, Stages, Founding, None, Torn
<1> QED
    BY Inductive, <1>1, PTL DEF Spec, AccountKept
=============================================================================
