----------------------------- MODULE KulfiStart -----------------------------
(***************************************************************************)
(* The data directory of kulfi: processes that start on it, one lock file  *)
(* between them, and processes that make an identity in it, over the key   *)
(* store that malai uses too.                                              *)
(*                                                                         *)
(* Nothing in the repository calls Identity::create yet: it is modelled as *)
(* the operation that fills the directory start reads.  Locks are advisory *)
(* and end with their process; reading a directory is one step.  What an   *)
(* identity's task goes on to do is left out: get_secret_key is a todo!()  *)
(* and the task panics there.                                              *)
(***************************************************************************)
EXTENDS SecretKeyStore

ASSUME NoneAssumption == None \notin Procs

VARIABLES
    at,          \* where a kulfi process is in start or in Identity::create
    lock,        \* the process that holds kulfi.lock
    dataDir,     \* the data directory exists
    folder,      \* so does its folder "identities"
    temps,       \* keys with a folder temp-<id52>-<time> in it
    identities,  \* keys with a folder <id52> in it
    whole,       \* keys whose folder has all that create puts there
    found,       \* the identities a process runs
    listener     \* the process listening on the control port

home == <<at, lock, dataDir, folder, temps, identities, whole, found,
          listener>>
vars == <<storeVars, home>>

Stops == {"none", "lock", "scan", "spawn", "bind", "listening", "deaf",
          "refused", "fill", "rename", "created"}

TypeOK ==
    /\ StoreTypeOK
    /\ at \in [Procs -> Stops]
    /\ lock \in Procs \cup {None}
    /\ {dataDir, folder} \subseteq BOOLEAN
    /\ temps \in SUBSET made
    /\ identities \in SUBSET made
    /\ whole \in SUBSET made
    /\ found \in [Procs -> SUBSET Keys]
    /\ listener \in Procs \cup {None}
    /\ \A p \in Procs : at[p] \in {"fill", "rename"} => key[p] # None

Init ==
    /\ StoreInit
    /\ at = [p \in Procs |-> "none"]
    /\ lock = None /\ listener = None
    /\ dataDir = FALSE /\ folder = FALSE
    /\ temps = {} /\ identities = {} /\ whole = {}
    /\ found = [p \in Procs |-> {}]

GoOn(p, from, to) == at[p] = from /\ at' = [at EXCEPT ![p] = to]

-----------------------------------------------------------------------------
(* kulfi start.                                                            *)

(* init_if_required makes the directory, and nothing in it.                *)
StartKulfi(p) ==
    /\ StartElsewhere(p)
    /\ GoOn(p, "none", "lock")
    /\ dataDir' = TRUE
    /\ UNCHANGED <<lock, folder, temps, identities, whole, found, listener>>

(* Mutant: the lock is shared.                                             *)
TakeLock_Shared(p) ==
    /\ GoOn(p, "lock", "scan")
    /\ lock' = p
    /\ UNCHANGED <<storeVars, dataDir, folder, temps, identities, whole,
                   found, listener>>

TakeLock(p) ==
    /\ \/ lock = None /\ GoOn(p, "lock", "scan") /\ lock' = p
       \/ lock # None /\ GoOn(p, "lock", "refused") /\ UNCHANGED lock
    /\ UNCHANGED <<storeVars, dataDir, folder, temps, identities, whole,
                   found, listener>>

(* Mutant: a temporary folder is run as the identity in its name.          *)
Scan_Temps(p) ==
    /\ folder /\ identities \cup temps # {}
    /\ GoOn(p, "scan", "spawn")
    /\ found' = [found EXCEPT ![p] = identities \cup temps]
    /\ UNCHANGED <<storeVars, lock, dataDir, folder, temps, identities,
                   whole, listener>>

(* Every entry is read as an identity: Path::starts_with compares whole    *)
(* components, so a temporary folder is not skipped, and its name is no    *)
(* key.  start returns the error and its lock guard goes with it.          *)
Scan(p) ==
    LET readable == folder /\ temps = {} /\ identities # {}
    IN  /\ \/ /\ readable
              /\ GoOn(p, "scan", "spawn")
              /\ found' = [found EXCEPT ![p] = identities]
              /\ UNCHANGED lock
           \/ /\ ~readable
              /\ GoOn(p, "scan", "refused")
              /\ lock' = None
              /\ UNCHANGED found
        /\ UNCHANGED <<storeVars, dataDir, folder, temps, identities, whole,
                       listener>>

(* start has spawned its tasks and returns: the guard is dropped.          *)
Spawn(p) ==
    /\ GoOn(p, "spawn", "bind")
    /\ lock' = None
    /\ UNCHANGED <<storeVars, dataDir, folder, temps, identities, whole,
                   found, listener>>

(* The task of the control server: when the port is taken its unwrap       *)
(* panics, and the process goes on without it.                             *)
Bind(p) ==
    /\ \/ listener = None /\ GoOn(p, "bind", "listening") /\ listener' = p
       \/ listener # None /\ GoOn(p, "bind", "deaf") /\ UNCHANGED listener
    /\ UNCHANGED <<storeVars, lock, dataDir, folder, temps, identities,
                   whole, found>>

(* An error before the tasks are spawned: start returns it.                *)
StartFails(p) ==
    /\ at[p] \in {"lock", "scan"}
    /\ at' = [at EXCEPT ![p] = "refused"]
    /\ lock' = IF lock = p THEN None ELSE lock
    /\ UNCHANGED <<storeVars, dataDir, folder, temps, identities, whole,
                   found, listener>>

-----------------------------------------------------------------------------
(* Identity::create, after generate_and_save_key.                          *)

MakeTemp(p) ==
    /\ pc[p] = "handed"
    /\ GoOn(p, "none", "fill")
    /\ dataDir' = TRUE /\ folder' = TRUE
    /\ temps' = temps \cup {key[p]}
    /\ UNCHANGED <<storeVars, lock, identities, whole, found, listener>>

(* The template is downloaded, unpacked, copied and updated, and the last  *)
(* folders are made.                                                       *)
Fill(p) ==
    /\ GoOn(p, "fill", "rename")
    /\ whole' = whole \cup {key[p]}
    /\ UNCHANGED <<storeVars, lock, dataDir, folder, temps, identities,
                   found, listener>>

(* Mutant: the folder has its final name before it is filled.              *)
Rename_Early(p) ==
    /\ GoOn(p, "fill", "created")
    /\ temps' = temps \ {key[p]}
    /\ identities' = identities \cup {key[p]}
    /\ UNCHANGED <<storeVars, lock, dataDir, folder, whole, found, listener>>

Rename(p) ==
    /\ GoOn(p, "rename", "created")
    /\ temps' = temps \ {key[p]}
    /\ identities' = identities \cup {key[p]}
    /\ UNCHANGED <<storeVars, lock, dataDir, folder, whole, found, listener>>

(* A download, fastn update or rename fails; the folder stays as it is.    *)
CreateFails(p) ==
    /\ at[p] \in {"fill", "rename"}
    /\ at' = [at EXCEPT ![p] = "refused"]
    /\ UNCHANGED <<storeVars, lock, dataDir, folder, temps, identities,
                   whole, found, listener>>

-----------------------------------------------------------------------------
(* Mutant: the lock outlives its process.                                  *)
ProcessEnds_KeepsLock(p) ==
    /\ Ends(p)
    /\ at' = [at EXCEPT ![p] = "none"]
    /\ found' = [found EXCEPT ![p] = {}]
    /\ listener' = IF listener = p THEN None ELSE listener
    /\ UNCHANGED <<lock, dataDir, folder, temps, identities, whole>>

(* The process exits or crashes; the system takes its lock and its port.   *)
ProcessEnds(p) ==
    /\ Ends(p)
    /\ at' = [at EXCEPT ![p] = "none"]
    /\ found' = [found EXCEPT ![p] = {}]
    /\ lock' = IF lock = p THEN None ELSE lock
    /\ listener' = IF listener = p THEN None ELSE listener
    /\ UNCHANGED <<dataDir, folder, temps, identities, whole>>

Start(p) ==
    \/ StartKulfi(p)
    \/ TakeLock(p)
    \/ Scan(p)
    \/ Spawn(p)
    \/ Bind(p)
    \/ StartFails(p)

Create(p) ==
    \/ MakeTemp(p)
    \/ Fill(p)
    \/ Rename(p)
    \/ CreateFails(p)

Next ==
    \E p \in Procs :
        \/ (StoreStep(p) \/ StartCreate(p)) /\ UNCHANGED home
        \/ Start(p)
        \/ Create(p)
        \/ ProcessEnds(p)

Spec == Init /\ [][Next]_vars

-----------------------------------------------------------------------------
(* The lock is held exactly while a process looks for its identities, so   *)
(* two never do at once, and no crash leaves it behind (start.rs:24-30).   *)
LockIsHeldByAStarter ==
    \A p \in Procs : at[p] \in {"scan", "spawn"} <=> lock = p

(* What a process runs is an identity that create has finished: it has all *)
(* of its folder and its secret, whatever ended where, and although create *)
(* takes no lock (create.rs:34-69, identities.rs:10-37).                   *)
ServedIdentitiesAreWhole ==
    /\ identities \subseteq whole \cap keyring
    /\ \A p \in Procs : /\ found[p] \subseteq identities
                        /\ at[p] \in {"spawn", "bind", "listening", "deaf"}
                               => found[p] # {}

(* "on startup, we first check if another instance is running if so we     *)
(* exit" (start.rs:3): no two processes go on to run what they found.      *)
OneInstanceRuns ==
    \A p, q \in Procs :
        {at[p], at[q]} \subseteq {"bind", "listening", "deaf"} => p = q
=============================================================================
