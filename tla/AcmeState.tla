------------------------------ MODULE AcmeState ------------------------------
(***************************************************************************)
(* Automatic certificates in a cluster: every worker process runs its own  *)
(* AcmeState (load the cached certificate, else load or make an account    *)
(* key, order a certificate, store it, sleep until its renewal), and the   *)
(* processes share a cache directory through LockedDirCache, whose lock    *)
(* file is taken by every operation and released by only two of them.      *)
(*                                                                         *)
(* poll_next_infinite looks at its fields in a fixed order: early_action,  *)
(* wait, load_cert, load_account, order, and schedules an order when none  *)
(* is left.  Every turn of its loop is one step.                           *)
(***************************************************************************)
EXTENDS Integers

CONSTANTS
  Workers,       \* the worker processes
  Nobody,        \* the lock file is free
  MaxFailures,   \* bound: orders the CA lets fail
  MaxFaults,     \* bound: file operations of the cache that fail
  MaxCrashes     \* bound: processes that die and are started again

ASSUME AcmeAssumption ==
  /\ Nobody \notin Workers
  /\ MaxFailures \in Nat /\ MaxFaults \in Nat /\ MaxCrashes \in Nat

None == 0        \* no file, no key
Torn == 1        \* a file that was truncated and not written

VARIABLES
  early_action,  \* the store that is to run next
  writing,       \* its file is truncated and not yet written
  wait,          \* the timer that is armed
  load_cert,     \* the cached certificate is still to be looked up
  load_account,  \* so is the cached account key
  order,         \* status of the order, as the CA last reported it
  account_key,
  cert,          \* the resolver has a certificate
  flock,         \* the process that holds the lock file
  cert_file,     \* None, Torn or 2, a certificate
  account_file,  \* None, Torn or an account key
  keys,          \* the account key generated last
  failures, faults, crashes,
  unreadable,    \* history: the cached certificate was torn or not readable
  store_failed,  \* history: a store of a certificate by this process failed
  load_failed    \* history: a load of the account key failed

procVars == <<early_action, writing, wait, load_cert, load_account, order, account_key, cert>>
fileVars == <<flock, cert_file, account_file>>
countVars == <<keys, failures, faults, crashes>>
history == <<unreadable, store_failed, load_failed>>
vars == <<procVars, fileVars, countVars, history>>

\* What the CA may say of an order; "new" is the order not yet placed.
OrderStatus == {"Pending", "Processing", "Ready", "Valid", "Invalid"}

TypeOK ==
  /\ early_action \in [Workers -> {"none", "store_cert", "store_account"}]
  /\ writing \in [Workers -> BOOLEAN]
  /\ wait \in [Workers -> {"none", "renewal", "backoff"}]
  /\ load_cert \in [Workers -> BOOLEAN]
  /\ load_account \in [Workers -> BOOLEAN]
  /\ order \in [Workers -> OrderStatus \cup {"none", "new"}]
  /\ account_key \in [Workers -> Nat]
  /\ cert \in [Workers -> BOOLEAN]
  /\ flock \in Workers \cup {Nobody}
  /\ cert_file \in {None, Torn, 2}
  /\ account_file \in Nat
  /\ keys \in Nat \ {None}
  /\ failures \in 0..MaxFailures /\ faults \in 0..MaxFaults /\ crashes \in 0..MaxCrashes
  /\ unreadable \in [Workers -> BOOLEAN]
  /\ store_failed \in [Workers -> BOOLEAN]
  /\ load_failed \in BOOLEAN

Init ==
  /\ early_action = [w \in Workers |-> "none"]
  /\ writing = [w \in Workers |-> FALSE]
  /\ wait = [w \in Workers |-> "none"]
  /\ load_cert = [w \in Workers |-> TRUE]
  /\ load_account = [w \in Workers |-> TRUE]
  /\ order = [w \in Workers |-> "none"]
  /\ account_key = [w \in Workers |-> None]
  /\ cert = [w \in Workers |-> FALSE]
  /\ flock = Nobody /\ cert_file = None /\ account_file = None
  /\ keys = Torn /\ failures = 0 /\ faults = 0 /\ crashes = 0
  /\ unreadable = [w \in Workers |-> FALSE]
  /\ store_failed = [w \in Workers |-> FALSE]
  /\ load_failed = FALSE
-----------------------------------------------------------------------------
(* The locked cache *)

\* lock_exclusive succeeds: the process has the lock or the lock is free.
MayLock(w) == flock \in {w, Nobody}

Fault ==
  /\ faults < MaxFaults
  /\ faults' = faults + 1

NoEarlyAction(w) == early_action[w] = "none"
Awake(w) == NoEarlyAction(w) /\ wait[w] = "none"

\* Mutant: load_cert releases the lock whatever it found.
LoadCertUnlocks(w) ==
  /\ Awake(w) /\ load_cert[w] /\ MayLock(w)
  /\ load_cert' = [load_cert EXCEPT ![w] = FALSE]
  /\ flock' = Nobody
  /\ cert' = [cert EXCEPT ![w] = cert_file > Torn]
  /\ wait' = [wait EXCEPT ![w] = IF cert_file > Torn THEN "renewal" ELSE "none"]
  /\ UNCHANGED <<early_action, writing, load_account, order, account_key>>
  /\ UNCHANGED <<cert_file, account_file, countVars, history>>

\* The cached certificate: deployed when it parses; the lock is released when
\* there is a file, and kept when there is none or it cannot be read.
LoadCert(w) ==
  /\ Awake(w) /\ load_cert[w] /\ MayLock(w)
  /\ load_cert' = [load_cert EXCEPT ![w] = FALSE]
  /\ \/ /\ cert_file > Torn
        /\ flock' = Nobody
        /\ cert' = [cert EXCEPT ![w] = TRUE]
        /\ wait' = [wait EXCEPT ![w] = "renewal"]
        /\ UNCHANGED <<faults, unreadable>>
     \/ /\ cert_file = Torn
        /\ flock' = Nobody
        /\ unreadable' = [unreadable EXCEPT ![w] = TRUE]
        /\ UNCHANGED <<cert, wait, faults>>
     \/ /\ cert_file = None
        /\ flock' = w
        /\ UNCHANGED <<cert, wait, faults, unreadable>>
     \/ /\ Fault
        /\ flock' = w
        /\ unreadable' = [unreadable EXCEPT ![w] = TRUE]
        /\ UNCHANGED <<cert, wait>>
  /\ UNCHANGED <<early_action, writing, load_account, order, account_key>>
  /\ UNCHANGED <<cert_file, account_file, keys, failures, crashes, store_failed, load_failed>>

\* Mutant: the account key in the cache is not taken over.
LoadAccountIgnored(w) ==
  /\ Awake(w) /\ ~load_cert[w] /\ load_account[w] /\ MayLock(w)
  /\ load_account' = [load_account EXCEPT ![w] = FALSE]
  /\ flock' = w
  /\ UNCHANGED <<early_action, writing, wait, load_cert, order, cert, account_key>>
  /\ UNCHANGED <<cert_file, account_file, countVars, history>>

\* The cached account key, whole or torn; the lock stays taken.
LoadAccount(w) ==
  /\ Awake(w) /\ ~load_cert[w] /\ load_account[w] /\ MayLock(w)
  /\ load_account' = [load_account EXCEPT ![w] = FALSE]
  /\ flock' = w
  /\ \/ /\ account_key' = [account_key EXCEPT ![w] = account_file]
        /\ UNCHANGED <<faults, load_failed>>
     \/ Fault /\ load_failed' = TRUE /\ UNCHANGED account_key
  /\ UNCHANGED <<early_action, writing, wait, load_cert, order, cert>>
  /\ UNCHANGED <<cert_file, account_file, keys, failures, crashes, unreadable, store_failed>>

\* A store takes the lock and truncates its file, or fails before it does.
StoreBegin(w) ==
  /\ ~NoEarlyAction(w) /\ ~writing[w] /\ MayLock(w)
  /\ flock' = w
  /\ \/ /\ writing' = [writing EXCEPT ![w] = TRUE]
        /\ IF early_action[w] = "store_cert"
             THEN cert_file' = Torn /\ UNCHANGED account_file
             ELSE account_file' = Torn /\ UNCHANGED cert_file
        /\ UNCHANGED <<early_action, faults, store_failed>>
     \/ /\ Fault
        /\ early_action' = [early_action EXCEPT ![w] = "none"]
        /\ store_failed' = [store_failed EXCEPT ![w] = @ \/ early_action[w] = "store_cert"]
        /\ UNCHANGED <<writing, cert_file, account_file>>
  /\ UNCHANGED <<wait, load_cert, load_account, order, account_key, cert>>
  /\ UNCHANGED <<keys, failures, crashes, unreadable, load_failed>>

\* Mutant: the lock is kept after a store that succeeded.
CertStoredKeepsLock(w) ==
  /\ cert_file' = 2
  /\ UNCHANGED <<account_file, flock>>

CertStored(w) ==
  /\ cert_file' = 2
  /\ flock' = Nobody
  /\ UNCHANGED account_file

AccountStored(w) ==
  /\ account_file' = account_key[w]
  /\ UNCHANGED <<cert_file, flock>>

\* The store ends; only a certificate that was stored releases the lock.
StoreEnd(w) ==
  /\ writing[w]
  /\ writing' = [writing EXCEPT ![w] = FALSE]
  /\ early_action' = [early_action EXCEPT ![w] = "none"]
  /\ \/ /\ IF early_action[w] = "store_cert" THEN CertStored(w) ELSE AccountStored(w)
        /\ store_failed' = [store_failed EXCEPT ![w] = @ /\ early_action[w] # "store_cert"]
        /\ UNCHANGED faults
     \/ /\ Fault
        /\ store_failed' = [store_failed EXCEPT ![w] = @ \/ early_action[w] = "store_cert"]
        /\ UNCHANGED fileVars
  /\ UNCHANGED <<wait, load_cert, load_account, order, account_key, cert>>
  /\ UNCHANGED <<keys, failures, crashes, unreadable, load_failed>>
-----------------------------------------------------------------------------
(* Orders *)

Fresh(w) == Awake(w) /\ ~load_cert[w] /\ ~load_account[w]

\* Nothing is left to do: an order is scheduled, with a new account key that
\* is stored first when there is none.
ScheduleOrder(w) ==
  /\ Fresh(w) /\ order[w] = "none"
  /\ order' = [order EXCEPT ![w] = "new"]
  /\ IF account_key[w] = None
       THEN /\ keys' = keys + 1
            /\ account_key' = [account_key EXCEPT ![w] = keys']
            /\ early_action' = [early_action EXCEPT ![w] = "store_account"]
       ELSE UNCHANGED <<keys, account_key, early_action>>
  /\ UNCHANGED <<writing, wait, load_cert, load_account, cert>>
  /\ UNCHANGED <<fileVars, failures, faults, crashes, history>>

\* One turn of the loop in order(): place, authorize, finalize or poll the
\* order, and learn its status.
OrderStep(w, status) ==
  /\ Fresh(w) /\ order[w] \in {"new", "Pending", "Processing", "Ready"}
  /\ order[w] = "new" => account_key[w] # Torn
  /\ status = "Invalid" => failures < MaxFailures
  /\ order' = [order EXCEPT ![w] = status]
  /\ failures' = IF status = "Invalid" THEN failures + 1 ELSE failures
  /\ UNCHANGED <<early_action, writing, wait, load_cert, load_account, account_key, cert>>
  /\ UNCHANGED <<fileVars, keys, faults, crashes, history>>

\* The order ends in an error: a request failed, the CA gave it up or kept it
\* too long, or the account key cannot be parsed.  It is retried later.
OrderFails(w) ==
  /\ Fresh(w) /\ order[w] # "none"
  /\ IF order[w] = "Invalid" \/ (order[w] = "new" /\ account_key[w] = Torn)
       THEN UNCHANGED failures
       ELSE failures < MaxFailures /\ failures' = failures + 1
  /\ order' = [order EXCEPT ![w] = "none"]
  /\ wait' = [wait EXCEPT ![w] = "backoff"]
  /\ UNCHANGED <<early_action, writing, load_cert, load_account, account_key, cert>>
  /\ UNCHANGED <<fileVars, keys, faults, crashes, history>>

\* Mutant: the certificate is deployed and never stored.
OrderDoneUnstored(w) ==
  /\ Fresh(w) /\ order[w] = "Valid"
  /\ order' = [order EXCEPT ![w] = "none"]
  /\ cert' = [cert EXCEPT ![w] = TRUE]
  /\ wait' = [wait EXCEPT ![w] = "renewal"]
  /\ UNCHANGED <<early_action, writing, load_cert, load_account, account_key>>
  /\ UNCHANGED <<fileVars, countVars, history>>

\* The certificate is deployed, stored next, and renewed later; one that does
\* not parse leaves neither a store nor a timer.
OrderDone(w) ==
  /\ Fresh(w) /\ order[w] = "Valid"
  /\ order' = [order EXCEPT ![w] = "none"]
  /\ \/ /\ cert' = [cert EXCEPT ![w] = TRUE]
        /\ wait' = [wait EXCEPT ![w] = "renewal"]
        /\ early_action' = [early_action EXCEPT ![w] = "store_cert"]
        /\ UNCHANGED failures
     \/ /\ failures < MaxFailures
        /\ failures' = failures + 1
        /\ UNCHANGED <<cert, wait, early_action>>
  /\ UNCHANGED <<writing, load_cert, load_account, account_key>>
  /\ UNCHANGED <<fileVars, keys, faults, crashes, history>>

\* The timer of a renewal or of a retry fires.
Wake(w) ==
  /\ NoEarlyAction(w) /\ wait[w] # "none"
  /\ wait' = [wait EXCEPT ![w] = "none"]
  /\ UNCHANGED <<early_action, writing, load_cert, load_account, order, account_key, cert>>
  /\ UNCHANGED <<fileVars, countVars, history>>

\* The process dies, or shuts down; the system frees its lock and another
\* process starts in its place.
Crash(w) ==
  /\ crashes < MaxCrashes
  /\ crashes' = crashes + 1
  /\ early_action' = [early_action EXCEPT ![w] = "none"]
  /\ writing' = [writing EXCEPT ![w] = FALSE]
  /\ wait' = [wait EXCEPT ![w] = "none"]
  /\ load_cert' = [load_cert EXCEPT ![w] = TRUE]
  /\ load_account' = [load_account EXCEPT ![w] = TRUE]
  /\ order' = [order EXCEPT ![w] = "none"]
  /\ account_key' = [account_key EXCEPT ![w] = None]
  /\ cert' = [cert EXCEPT ![w] = FALSE]
  /\ unreadable' = [unreadable EXCEPT ![w] = FALSE]
  /\ store_failed' = [store_failed EXCEPT ![w] = FALSE]
  /\ flock' = IF flock = w THEN Nobody ELSE flock
  /\ UNCHANGED <<cert_file, account_file, keys, failures, faults, load_failed>>
-----------------------------------------------------------------------------
CacheStep(w) == LoadCert(w) \/ LoadAccount(w) \/ StoreBegin(w)
OwnStep(w) == StoreEnd(w) \/ ScheduleOrder(w) \/ OrderFails(w) \/ OrderDone(w) \/ Wake(w)

Next ==
  \E w \in Workers :
    \/ CacheStep(w) \/ OwnStep(w) \/ Crash(w)
    \/ \E status \in OrderStatus : OrderStep(w, status)

Spec == Init /\ [][Next]_vars

\* A process keeps polling its state, timers fire, the lock file is handed on
\* (its holder sleeps for weeks once it has let go), and the CA issues a
\* certificate to whoever keeps asking with a good account.
Fairness ==
  \A w \in Workers :
    /\ WF_vars(OwnStep(w))
    /\ SF_vars(CacheStep(w))
    /\ WF_vars(\E status \in OrderStatus : OrderStep(w, status))
    /\ SF_vars(OrderStep(w, "Valid"))

FairSpec == Spec /\ Fairness
-----------------------------------------------------------------------------
\* A process orders its first certificate only when the cluster needs one: it
\* found none in the cache, there is still none, and the lock that load_cert
\* kept is still its own, so no other process does the same.  The exception is
\* a cached certificate that it could not read.
FirstOrderNeeded ==
  \A w \in Workers :
    order[w] # "none" /\ ~cert[w] /\ ~unreadable[w] => flock = w /\ cert_file = None

\* A process does not sleep until its renewal with the lock in its hands, which
\* would stop the others for weeks, unless it could not store its certificate.
SleepsUnlocked ==
  \A w \in Workers :
    NoEarlyAction(w) /\ wait[w] = "renewal" /\ flock = w => store_failed[w]

\* A stored account key is never overwritten by another, through crashes,
\* takeovers and failed stores, unless a load of it failed: after that error
\* the process makes a new key and stores it.
AccountKept ==
  [][account_file > Torn /\ account_file' # account_file => load_failed]_vars

\* Every process gets a certificate, whoever dies while holding the lock,
\* unless one of them works with a torn account key, which it never replaces.
EveryoneServed ==
  \A w \in Workers :
    []<>(cert[w] \/ \E v \in Workers : account_key[v] = Torn)
=============================================================================
