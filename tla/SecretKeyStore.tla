--------------------------- MODULE SecretKeyStore ---------------------------
(***************************************************************************)
(* Where a process gets its identity from: the environment, the file       *)
(* .malai.secret-key, or the file .malai.id52 that names a secret in the   *)
(* system's keyring, which is made when there is none.  malai and kulfi    *)
(* processes started in one folder share all of it without any lock, and   *)
(* may end between any two steps.                                          *)
(*                                                                         *)
(* A key pair is one value of Keys, and so are its id52 and the texts it   *)
(* is written as.  The keyring and the file system are modelled from how   *)
(* the code uses them: a file that is created is empty until it is         *)
(* written, and any access may fail.                                       *)
(***************************************************************************)
EXTENDS Naturals

CONSTANTS Procs,      \* operating system processes, reused when they end
          Keys,       \* key pairs: bounds how many are ever generated
          EnvKeys,    \* those a user may put in KULFI_SECRET_KEY
          None

Absent == "absent"
Empty == "empty"
Garbled == "garbled"  \* a text as long as a key's that is not one
Misfit == "misfit"    \* a text of another length

ASSUME EnvKeysAssumption == EnvKeys \subseteq Keys
ASSUME KeysAssumption ==
    Keys \cap {Absent, Empty, Garbled, Misfit, None} = {}

VARIABLES
    pc,          \* where a process is in its use of the store
    program,     \* what it runs
    key,         \* the key it holds or looks for
    secretFile,  \* .malai.secret-key
    id52File,    \* .malai.id52
    keyring,     \* keys whose secret the keyring keeps
    made,        \* keys that exist
    known,       \* ids from .malai.id52 that a process has run under
    saved,       \* keys that keygen reported as saved
    contested    \* files that two processes set out to make at once, or
                 \* that one set out to make anew over another's

files == <<secretFile, id52File, keyring>>
ghosts == <<known, saved, contested>>
storeVars == <<pc, program, key, files, made, ghosts>>

Generating == {"generate", "truncate", "write"}
Keygenning == {"create", "put"}
Places == {"idle", "elsewhere", "secret_file", "id52", "secret", "exists",
           "running", "handed", "done", "failed", "stalled"}
              \cup Generating \cup Keygenning

StoreTypeOK ==
    /\ pc \in [Procs -> Places]
    /\ program \in [Procs -> {"none", "malai", "keygen", "kulfi"}]
    /\ key \in [Procs -> made \cup {None}]
    /\ secretFile \in made \cup {Absent, Empty}
    /\ id52File \in made \cup {Absent, Empty}
    /\ made \in SUBSET Keys /\ EnvKeys \subseteq made
    /\ keyring \in SUBSET made
    /\ known \in SUBSET made
    /\ saved \in SUBSET made
    /\ contested \in SUBSET {"id52", "secret"}
    /\ \A p \in Procs :
          pc[p] \in {"secret", "truncate", "write", "handed", "exists"}
                     \cup Keygenning => key[p] # None

StoreInit ==
    /\ pc = [p \in Procs |-> "idle"]
    /\ program = [p \in Procs |-> "none"]
    /\ key = [p \in Procs |-> None]
    /\ secretFile = Absent /\ id52File = Absent /\ keyring = {}
    /\ made = EnvKeys
    /\ known = {} /\ saved = {} /\ contested = {}

(* Process p goes from one place to another.                               *)
Goto(p, from, to) == pc[p] = from /\ pc' = [pc EXCEPT ![p] = to]
Holds(p, k) == key' = [key EXCEPT ![p] = k]

-----------------------------------------------------------------------------
(* read_or_create_key, as malai http, tcp and http-proxy-remote call it.   *)

Starts(p, prog, place) ==
    /\ Goto(p, "idle", place)
    /\ program' = [program EXCEPT ![p] = prog]

(* handle_secret: where p goes on a text for its secret key.  One of a     *)
(* key's length is decoded or is an error, on which the process exits; the *)
(* decoder's buffer fits no other length, so the rest panics, and the      *)
(* process lives on without the task that was to serve.                    *)
FromStr(text) ==
    CASE text \in Keys -> "running"
      [] text = Garbled -> "failed"
      [] OTHER -> "stalled"

Takes(p, text) ==
    IF text \in Keys THEN Holds(p, text) ELSE UNCHANGED key

(* KULFI_SECRET_KEY is set, to a key or to something else.                 *)
StartWithEnv(p) ==
    /\ \E text \in EnvKeys \cup {Garbled, Misfit} :
          Starts(p, "malai", FromStr(text)) /\ Takes(p, text)
    /\ UNCHANGED <<files, made, ghosts>>

StartWithoutEnv(p) ==
    /\ Starts(p, "malai", "secret_file")
    /\ UNCHANGED <<key, files, made, ghosts>>

ReadSecretFile(p) ==
    /\ \/ /\ secretFile = Absent
          /\ Goto(p, "secret_file", "id52")
          /\ UNCHANGED key
       \/ /\ secretFile # Absent
          /\ Goto(p, "secret_file", FromStr(secretFile))
          /\ Takes(p, secretFile)
    /\ UNCHANGED <<program, files, made, ghosts>>

(* p sets out to make a new id; what is told of the file is told as long   *)
(* as nobody else is making one or has made one.                           *)
Contest(p) ==
    contested' = IF \/ id52File # Absent
                    \/ \E q \in Procs \ {p} : pc[q] \in Generating
                   THEN contested \cup {"id52"} ELSE contested

(* Mutant: an id that is there is not looked at.                           *)
ReadId52_Ignored(p) ==
    /\ Goto(p, "id52", "generate")
    /\ UNCHANGED <<program, key, files, made, ghosts>>

(* The empty text names no secret of the keyring.                          *)
ReadId52(p) ==
    /\ \/ id52File = Absent /\ Goto(p, "id52", "generate") /\ Contest(p)
                            /\ UNCHANGED key
       \/ id52File = Empty /\ Goto(p, "id52", "failed")
                           /\ UNCHANGED <<key, contested>>
       \/ id52File \in Keys /\ Goto(p, "id52", "secret")
                            /\ Holds(p, id52File) /\ UNCHANGED contested
    /\ UNCHANGED <<program, files, made, known, saved>>

GetSecret(p) ==
    /\ \/ key[p] \in keyring /\ Goto(p, "secret", "running")
                             /\ known' = known \cup {key[p]}
       \/ key[p] \notin keyring /\ Goto(p, "secret", "failed")
                                /\ UNCHANGED known
    /\ UNCHANGED <<program, key, files, made, saved, contested>>

-----------------------------------------------------------------------------
(* generate_and_save_key: the keyring first, then tokio::fs::write, which  *)
(* truncates or creates the file before it writes it.                      *)

(* Mutant: the id is written before the secret is kept.                    *)
SetSecret_Later(p) ==
    /\ Goto(p, "generate", "truncate")
    /\ \E k \in Keys \ made : Holds(p, k) /\ made' = made \cup {k}
    /\ UNCHANGED <<program, files, ghosts>>

SetSecret(p) ==
    /\ Goto(p, "generate", "truncate")
    /\ \E k \in Keys \ made : /\ Holds(p, k)
                              /\ made' = made \cup {k}
                              /\ keyring' = keyring \cup {k}
    /\ UNCHANGED <<program, secretFile, id52File, ghosts>>

TruncateId52(p) ==
    /\ Goto(p, "truncate", "write")
    /\ id52File' = Empty
    /\ UNCHANGED <<program, key, secretFile, keyring, made, ghosts>>

(* The key goes back to read_or_create_key, or to Identity::create.        *)
WriteId52(p) ==
    /\ id52File' = key[p]
    /\ \/ program[p] = "malai" /\ Goto(p, "write", "running")
                               /\ known' = known \cup {key[p]}
       \/ program[p] = "kulfi" /\ Goto(p, "write", "handed")
                               /\ UNCHANGED known
    /\ UNCHANGED <<program, key, secretFile, keyring, made, saved, contested>>

(* kulfi's Identity::create generates a key whatever the store holds.      *)
StartCreate(p) ==
    /\ Starts(p, "kulfi", "generate")
    /\ Contest(p)
    /\ UNCHANGED <<key, files, made, known, saved>>

(* A process that makes no use of the store.                               *)
StartElsewhere(p) ==
    /\ Starts(p, "kulfi", "elsewhere")
    /\ UNCHANGED <<key, files, made, ghosts>>

-----------------------------------------------------------------------------
(* malai keygen, into .malai.secret-key.                                   *)

StartKeygen(p) ==
    /\ Starts(p, "keygen", "exists")
    /\ \E k \in Keys \ made : Holds(p, k) /\ made' = made \cup {k}
    /\ UNCHANGED <<files, ghosts>>

(* Mutant: a file that is there is not refused.                            *)
CheckExists_Never(p) ==
    /\ Goto(p, "exists", "create")
    /\ UNCHANGED <<program, key, files, made, ghosts>>

CheckExists(p) ==
    /\ \/ /\ secretFile = Absent
          /\ Goto(p, "exists", "create")
          /\ contested' = IF \E q \in Procs : pc[q] \in Keygenning
                            THEN contested \cup {"secret"} ELSE contested
       \/ /\ secretFile # Absent
          /\ Goto(p, "exists", "failed")
          /\ UNCHANGED contested
    /\ UNCHANGED <<program, key, files, made, known, saved>>

CreateFile(p) ==
    /\ Goto(p, "create", "put")
    /\ secretFile' = Empty
    /\ UNCHANGED <<program, key, id52File, keyring, made, ghosts>>

PutSecret(p) ==
    /\ Goto(p, "put", "done")
    /\ secretFile' = key[p]
    /\ saved' = saved \cup {key[p]}
    /\ UNCHANGED <<program, key, id52File, keyring, made, known, contested>>

-----------------------------------------------------------------------------
(* An access to a file or to the keyring fails, and the process gives up.  *)
AccessFails(p) ==
    /\ pc[p] \in {"secret_file", "id52", "secret"} \cup Generating
                     \cup Keygenning
    /\ pc' = [pc EXCEPT ![p] = "failed"]
    /\ UNCHANGED <<program, key, files, made, ghosts>>

(* The process exits or crashes, wherever it is.                           *)
Ends(p) ==
    /\ pc[p] # "idle"
    /\ pc' = [pc EXCEPT ![p] = "idle"]
    /\ program' = [program EXCEPT ![p] = "none"]
    /\ Holds(p, None)
    /\ UNCHANGED <<files, made, ghosts>>

StoreStep(p) ==
    \/ StartWithEnv(p)
    \/ StartWithoutEnv(p)
    \/ ReadSecretFile(p)
    \/ ReadId52(p)
    \/ GetSecret(p)
    \/ SetSecret(p)
    \/ TruncateId52(p)
    \/ WriteId52(p)
    \/ StartKeygen(p)
    \/ CheckExists(p)
    \/ CreateFile(p)
    \/ PutSecret(p)
    \/ AccessFails(p)

StoreNext ==
    \E p \in Procs : \/ StoreStep(p)
                     \/ StartCreate(p)
                     \/ StartElsewhere(p)
                     \/ Ends(p)

StoreSpec == StoreInit /\ [][StoreNext]_storeVars

-----------------------------------------------------------------------------
(* Whatever ends when, an id that the file names or a process has run      *)
(* under has its secret in the keyring: generate_and_save_key keeps the    *)
(* secret before it writes the name (secret.rs:16-18).                     *)
SecretBeforeName ==
    known \cup ({id52File} \cap Keys) \subseteq keyring

(* A malai process that ran under a stored identity finds it again, and so *)
(* does every later one, unless two processes made one at the same time or *)
(* kulfi made one in the same folder: nothing locks the store between the  *)
(* NotFound of secret.rs:84 and the write of secret.rs:18.                 *)
IdentityIsKept ==
    "id52" \notin contested => \A k \in known : id52File = k

(* A key that keygen reported as saved stays in the file, unless two       *)
(* keygens passed the check for it together (keygen.rs:16-20).             *)
SavedKeyStays ==
    "secret" \notin contested => \A k \in saved : secretFile = k
=============================================================================
