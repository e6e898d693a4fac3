-------------------------- MODULE KulfiStartProofs --------------------------
(* What holds of the key store and of the data directory, for any number   *)
(* of processes and keys.                                                  *)
EXTENDS KulfiStart, TLAPS

USE DEF files, ghosts, storeVars, Generating, Keygenning, Places, Goto, Holds

-----------------------------------------------------------------------------
(* The key store.                                                          *)

LEMMA StoreTypeInit == StoreInit => StoreTypeOK
BY EnvKeysAssumption DEF StoreInit, StoreTypeOK

(* Where a process goes on the text of a secret key.                       *)
LEMMA TextResult ==
    ASSUME NEW text
    PROVE  /\ FromStr(text) \in {"running", "failed", "stalled"}
           /\ FromStr(text) \in Places \ (Generating \cup Keygenning
                                   \cup {"secret", "exists", "handed"})
BY DEF FromStr

LEMMA StoreTypeStep == StoreTypeOK /\ [StoreNext]_storeVars => StoreTypeOK'
<1> SUFFICES ASSUME StoreTypeOK, [StoreNext]_storeVars PROVE StoreTypeOK'
    OBVIOUS
<1> USE EnvKeysAssumption DEF StoreTypeOK
<1>1. CASE UNCHANGED storeVars
    BY <1>1
<1>2. ASSUME NEW p \in Procs, StartWithEnv(p) PROVE StoreTypeOK'
    <2>1. PICK text \in EnvKeys \cup {Garbled, Misfit} :
              Starts(p, "malai", FromStr(text)) /\ Takes(p, text)
        BY <1>2 DEF StartWithEnv
    <2>2. pc' \in [Procs -> Places] /\ pc' = [pc EXCEPT ![p] = FromStr(text)]
        BY <2>1, TextResult DEF Starts
    <2>3. key' \in [Procs -> made \cup {None}] /\ key' = [key EXCEPT ![p] = key'[p]]
        BY <2>1, <1>2, KeysAssumption DEF Takes, StartWithEnv
    <2> QED
        BY <1>2, <2>1, <2>2, <2>3, TextResult DEF StartWithEnv, Starts
<1>3. ASSUME NEW p \in Procs, StartWithoutEnv(p) PROVE StoreTypeOK'
    BY <1>3 DEF StartWithoutEnv, Starts
<1>4. ASSUME NEW p \in Procs, ReadSecretFile(p) PROVE StoreTypeOK'
    <2>1. CASE secretFile = Absent
        BY <1>4, <2>1 DEF ReadSecretFile
    <2>2. CASE secretFile # Absent
        <3>1. /\ pc' = [pc EXCEPT ![p] = FromStr(secretFile)]
              /\ Takes(p, secretFile)
              /\ UNCHANGED <<program, files, made, ghosts>>
            BY <1>4, <2>2 DEF ReadSecretFile
        <3>2. /\ key' \in [Procs -> made \cup {None}]
              /\ key' = [key EXCEPT ![p] = key'[p]]
            BY <3>1, KeysAssumption DEF Takes
        <3> QED
            BY <3>1, <3>2, TextResult
    <2> QED
        BY <2>1, <2>2
<1>5. ASSUME NEW p \in Procs, ReadId52(p) PROVE StoreTypeOK'
    <2>1. contested' \in SUBSET {"id52", "secret"}
        BY <1>5 DEF ReadId52, Contest
    <2>2. CASE id52File \in Keys
        <3>1. id52File \in made /\ id52File # None /\ id52File \notin {Absent, Empty}
            BY <2>2, KeysAssumption
        <3>2. /\ pc' = [pc EXCEPT ![p] = "secret"]
              /\ key' = [key EXCEPT ![p] = id52File]
            BY <1>5, <3>1 DEF ReadId52
        <3> QED
            BY <1>5, <2>1, <3>1, <3>2 DEF ReadId52
    <2>3. CASE id52File \notin Keys
        BY <1>5, <2>1, <2>3 DEF ReadId52
    <2> QED
        BY <2>2, <2>3
<1>6. ASSUME NEW p \in Procs, GetSecret(p) PROVE StoreTypeOK'
    BY <1>6 DEF GetSecret
<1>7. ASSUME NEW p \in Procs, SetSecret(p) PROVE StoreTypeOK'
    BY <1>7, KeysAssumption DEF SetSecret
<1>8. ASSUME NEW p \in Procs, TruncateId52(p) PROVE StoreTypeOK'
    BY <1>8 DEF TruncateId52
<1>9. ASSUME NEW p \in Procs, WriteId52(p) PROVE StoreTypeOK'
    BY <1>9 DEF WriteId52
<1>10. ASSUME NEW p \in Procs, StartKeygen(p) PROVE StoreTypeOK'
    BY <1>10, KeysAssumption DEF StartKeygen, Starts
<1>11. ASSUME NEW p \in Procs, CheckExists(p) PROVE StoreTypeOK'
    BY <1>11 DEF CheckExists
<1>12. ASSUME NEW p \in Procs, CreateFile(p) PROVE StoreTypeOK'
    BY <1>12 DEF CreateFile
<1>13. ASSUME NEW p \in Procs, PutSecret(p) PROVE StoreTypeOK'
    BY <1>13 DEF PutSecret
<1>14. ASSUME NEW p \in Procs, AccessFails(p) PROVE StoreTypeOK'
    BY <1>14 DEF AccessFails
<1>15. ASSUME NEW p \in Procs, StartCreate(p) PROVE StoreTypeOK'
    BY <1>15 DEF StartCreate, Starts, Contest
<1>16. ASSUME NEW p \in Procs, StartElsewhere(p) PROVE StoreTypeOK'
    BY <1>16 DEF StartElsewhere, Starts
<1>17. ASSUME NEW p \in Procs, Ends(p) PROVE StoreTypeOK'
    BY <1>17 DEF Ends
<1> QED
    BY <1>1, <1>2, <1>3, <1>4, <1>5, <1>6, <1>7, <1>8, <1>9, <1>10, <1>11,
       <1>12, <1>13, <1>14, <1>15, <1>16, <1>17 DEF StoreNext, StoreStep
(* A process that takes a key from a text changes nothing else.            *)
LEMMA TextStep ==
    ASSUME StoreTypeOK, NEW p \in Procs, StartWithEnv(p) \/ ReadSecretFile(p)
    PROVE  /\ pc'[p] \in {"running", "failed", "stalled", "id52"}
           /\ \A q \in Procs \ {p} : pc'[q] = pc[q] /\ key'[q] = key[q]
           /\ UNCHANGED <<files, made, ghosts>>
<1> USE DEF StoreTypeOK
<1>1. CASE StartWithEnv(p)
    <2>1. PICK text : Starts(p, "malai", FromStr(text)) /\ Takes(p, text)
        BY <1>1 DEF StartWithEnv
    <2> QED
        BY <1>1, <2>1, TextResult DEF StartWithEnv, Starts, Takes
<1>2. CASE ReadSecretFile(p)
    BY <1>2, TextResult DEF ReadSecretFile, Takes
<1> QED
    BY <1>1, <1>2

(* The names that are in use have their secrets, and so has a key that is  *)
(* about to be named.                                                      *)
KeyringInv ==
    /\ SecretBeforeName
    /\ \A p \in Procs :
          pc[p] \in {"truncate", "write", "handed"} => key[p] \in keyring

LEMMA KeyringStep ==
    StoreTypeOK /\ KeyringInv /\ [StoreNext]_storeVars => KeyringInv'
<1> SUFFICES ASSUME StoreTypeOK, KeyringInv, [StoreNext]_storeVars
             PROVE  KeyringInv'
    OBVIOUS
<1> USE DEF StoreTypeOK, KeyringInv, SecretBeforeName
<1>1. CASE UNCHANGED storeVars
    BY <1>1
<1>2. ASSUME NEW p \in Procs, StartWithEnv(p) PROVE KeyringInv'
    BY <1>2, TextStep
<1>3. ASSUME NEW p \in Procs, StartWithoutEnv(p) PROVE KeyringInv'
    BY <1>3 DEF StartWithoutEnv, Starts
<1>4. ASSUME NEW p \in Procs, ReadSecretFile(p) PROVE KeyringInv'
    BY <1>4, TextStep
<1>5. ASSUME NEW p \in Procs, ReadId52(p) PROVE KeyringInv'
    BY <1>5 DEF ReadId52, Contest
<1>6. ASSUME NEW p \in Procs, GetSecret(p) PROVE KeyringInv'
    BY <1>6 DEF GetSecret
<1>7. ASSUME NEW p \in Procs, SetSecret(p) PROVE KeyringInv'
    BY <1>7 DEF SetSecret
<1>8. ASSUME NEW p \in Procs, TruncateId52(p) PROVE KeyringInv'
    BY <1>8, KeysAssumption DEF TruncateId52
<1>9. ASSUME NEW p \in Procs, WriteId52(p) PROVE KeyringInv'
    BY <1>9 DEF WriteId52
<1>10. ASSUME NEW p \in Procs, StartKeygen(p) PROVE KeyringInv'
    BY <1>10 DEF StartKeygen, Starts
<1>11. ASSUME NEW p \in Procs, CheckExists(p) PROVE KeyringInv'
    BY <1>11 DEF CheckExists
<1>12. ASSUME NEW p \in Procs, CreateFile(p) PROVE KeyringInv'
    BY <1>12 DEF CreateFile
<1>13. ASSUME NEW p \in Procs, PutSecret(p) PROVE KeyringInv'
    BY <1>13 DEF PutSecret
<1>14. ASSUME NEW p \in Procs, AccessFails(p) PROVE KeyringInv'
    BY <1>14 DEF AccessFails
<1>15. ASSUME NEW p \in Procs, StartCreate(p) PROVE KeyringInv'
    BY <1>15 DEF StartCreate, Starts, Contest
<1>16. ASSUME NEW p \in Procs, StartElsewhere(p) PROVE KeyringInv'
    BY <1>16 DEF StartElsewhere, Starts
<1>17. ASSUME NEW p \in Procs, Ends(p) PROVE KeyringInv'
    BY <1>17 DEF Ends
<1> QED
    BY <1>1, <1>2, <1>3, <1>4, <1>5, <1>6, <1>7, <1>8, <1>9, <1>10,
       <1>11, <1>12, <1>13, <1>14, <1>15, <1>16, <1>17 DEF StoreNext,
       StoreStep

(* While no one contests it, one process at most makes an id, for the      *)
(* first time, and one that has read the file's id finds it there.         *)
KeptInv ==
    "id52" \notin contested =>
        /\ \A k \in known : id52File = k
        /\ \A p \in Procs :
              /\ pc[p] \in Generating =>
                    /\ known = {}
                    /\ \A q \in Procs : pc[q] \in Generating => q = p
              /\ pc[p] \in {"generate", "truncate"} => id52File = Absent
              /\ pc[p] = "write" => id52File = Empty
              /\ pc[p] = "secret" => id52File = key[p]

LEMMA KeptStep ==
    StoreTypeOK /\ KeptInv /\ [StoreNext]_storeVars => KeptInv'
<1> SUFFICES ASSUME StoreTypeOK, KeptInv, [StoreNext]_storeVars
             PROVE  KeptInv'
    OBVIOUS
<1> USE DEF StoreTypeOK, KeptInv
<1>1. CASE UNCHANGED storeVars
    BY <1>1
<1>2. ASSUME NEW p \in Procs, StartWithEnv(p) PROVE KeptInv'
    BY <1>2, TextStep
<1>3. ASSUME NEW p \in Procs, StartWithoutEnv(p) PROVE KeptInv'
    BY <1>3 DEF StartWithoutEnv, Starts
<1>4. ASSUME NEW p \in Procs, ReadSecretFile(p) PROVE KeptInv'
    BY <1>4, TextStep
<1>5. ASSUME NEW p \in Procs, ReadId52(p) PROVE KeptInv'
    BY <1>5, KeysAssumption DEF ReadId52, Contest
<1>6. ASSUME NEW p \in Procs, GetSecret(p) PROVE KeptInv'
    BY <1>6, KeysAssumption DEF GetSecret
<1>7. ASSUME NEW p \in Procs, SetSecret(p) PROVE KeptInv'
    BY <1>7, KeysAssumption DEF SetSecret
<1>8. ASSUME NEW p \in Procs, TruncateId52(p) PROVE KeptInv'
    BY <1>8, KeysAssumption DEF TruncateId52
<1>9. ASSUME NEW p \in Procs, WriteId52(p) PROVE KeptInv'
    BY <1>9, KeysAssumption DEF WriteId52
<1>10. ASSUME NEW p \in Procs, StartKeygen(p) PROVE KeptInv'
    BY <1>10 DEF StartKeygen, Starts
<1>11. ASSUME NEW p \in Procs, CheckExists(p) PROVE KeptInv'
    BY <1>11 DEF CheckExists
<1>12. ASSUME NEW p \in Procs, CreateFile(p) PROVE KeptInv'
    BY <1>12 DEF CreateFile
<1>13. ASSUME NEW p \in Procs, PutSecret(p) PROVE KeptInv'
    BY <1>13 DEF PutSecret
<1>14. ASSUME NEW p \in Procs, AccessFails(p) PROVE KeptInv'
    BY <1>14 DEF AccessFails
<1>15. ASSUME NEW p \in Procs, StartCreate(p) PROVE KeptInv'
    BY <1>15, KeysAssumption DEF StartCreate, Starts, Contest
<1>16. ASSUME NEW p \in Procs, StartElsewhere(p) PROVE KeptInv'
    BY <1>16 DEF StartElsewhere, Starts
<1>17. ASSUME NEW p \in Procs, Ends(p) PROVE KeptInv'
    BY <1>17 DEF Ends
<1> QED
    BY <1>1, <1>2, <1>3, <1>4, <1>5, <1>6, <1>7, <1>8, <1>9, <1>10,
       <1>11, <1>12, <1>13, <1>14, <1>15, <1>16, <1>17 DEF StoreNext,
       StoreStep

(* The same of .malai.secret-key and the keygens.                          *)
SavedInv ==
    "secret" \notin contested =>
        /\ \A k \in saved : secretFile = k
        /\ \A p \in Procs :
              /\ pc[p] \in Keygenning =>
                    \A q \in Procs : pc[q] \in Keygenning => q = p
              /\ pc[p] = "create" => secretFile = Absent
              /\ pc[p] = "put" => secretFile = Empty

LEMMA SavedStep ==
    StoreTypeOK /\ SavedInv /\ [StoreNext]_storeVars => SavedInv'
<1> SUFFICES ASSUME StoreTypeOK, SavedInv, [StoreNext]_storeVars
             PROVE  SavedInv'
    OBVIOUS
<1> USE DEF StoreTypeOK, SavedInv
<1>1. CASE UNCHANGED storeVars
    BY <1>1
<1>2. ASSUME NEW p \in Procs, StartWithEnv(p) PROVE SavedInv'
    BY <1>2, TextStep
<1>3. ASSUME NEW p \in Procs, StartWithoutEnv(p) PROVE SavedInv'
    BY <1>3 DEF StartWithoutEnv, Starts
<1>4. ASSUME NEW p \in Procs, ReadSecretFile(p) PROVE SavedInv'
    BY <1>4, TextStep
<1>5. ASSUME NEW p \in Procs, ReadId52(p) PROVE SavedInv'
    BY <1>5 DEF ReadId52, Contest
<1>6. ASSUME NEW p \in Procs, GetSecret(p) PROVE SavedInv'
    BY <1>6 DEF GetSecret
<1>7. ASSUME NEW p \in Procs, SetSecret(p) PROVE SavedInv'
    BY <1>7 DEF SetSecret
<1>8. ASSUME NEW p \in Procs, TruncateId52(p) PROVE SavedInv'
    BY <1>8 DEF TruncateId52
<1>9. ASSUME NEW p \in Procs, WriteId52(p) PROVE SavedInv'
    BY <1>9 DEF WriteId52
<1>10. ASSUME NEW p \in Procs, StartKeygen(p) PROVE SavedInv'
    BY <1>10 DEF StartKeygen, Starts
<1>11. ASSUME NEW p \in Procs, CheckExists(p) PROVE SavedInv'
    BY <1>11, KeysAssumption DEF CheckExists
<1>12. ASSUME NEW p \in Procs, CreateFile(p) PROVE SavedInv'
    BY <1>12, KeysAssumption DEF CreateFile
<1>13. ASSUME NEW p \in Procs, PutSecret(p) PROVE SavedInv'
    BY <1>13, KeysAssumption DEF PutSecret
<1>14. ASSUME NEW p \in Procs, AccessFails(p) PROVE SavedInv'
    BY <1>14 DEF AccessFails
<1>15. ASSUME NEW p \in Procs, StartCreate(p) PROVE SavedInv'
    BY <1>15 DEF StartCreate, Starts, Contest
<1>16. ASSUME NEW p \in Procs, StartElsewhere(p) PROVE SavedInv'
    BY <1>16 DEF StartElsewhere, Starts
<1>17. ASSUME NEW p \in Procs, Ends(p) PROVE SavedInv'
    BY <1>17 DEF Ends
<1> QED
    BY <1>1, <1>2, <1>3, <1>4, <1>5, <1>6, <1>7, <1>8, <1>9, <1>10,
       <1>11, <1>12, <1>13, <1>14, <1>15, <1>16, <1>17 DEF StoreNext,
       StoreStep
-----------------------------------------------------------------------------
(* Processes of kulfi use the store as any other does, so what the store   *)
(* promises by itself holds in their company (KulfiStart's Next adds no    *)
(* step of the store, and takes none away).                                *)

LEMMA StepIsStoreStep == [Next]_vars => [StoreNext]_storeVars
BY DEF Next, vars, Start, Create, StartKulfi, TakeLock, Scan, Spawn, Bind,
       StartFails, MakeTemp, Fill, Rename, CreateFails, ProcessEnds, StoreNext

THEOREM StoreIsKept == Spec => StoreSpec
<1>1. Init => StoreInit
    BY DEF Init
<1> QED
    BY <1>1, StepIsStoreStep, PTL DEF Spec, StoreSpec

StoreInv == StoreTypeOK /\ KeyringInv /\ KeptInv /\ SavedInv

LEMMA StoreCorrect == StoreSpec => []StoreInv
<1>1. StoreInit => StoreInv
    BY StoreTypeInit, KeysAssumption
    DEF StoreInv, StoreInit, KeyringInv, SecretBeforeName, KeptInv, SavedInv
<1>2. StoreInv /\ [StoreNext]_storeVars => StoreInv'
    BY StoreTypeStep, KeyringStep, KeptStep, SavedStep DEF StoreInv
<1> QED
    BY <1>1, <1>2, PTL DEF StoreSpec

(* An id that is named or in use has its secret in the keyring, whatever   *)
(* ends when (secret.rs:16-18).                                            *)
THEOREM SecretFirst == Spec => []SecretBeforeName
<1>1. StoreInv => SecretBeforeName
    BY DEF StoreInv, KeyringInv
<1> QED
    BY <1>1, StoreIsKept, StoreCorrect, PTL

(* An identity that was in use is found again as long as no two processes  *)
(* contest the file (secret.rs:60-89).                                     *)
THEOREM IdentityStays == Spec => []IdentityIsKept
<1>1. StoreInv => IdentityIsKept
    BY DEF StoreInv, KeptInv, IdentityIsKept
<1> QED
    BY <1>1, StoreIsKept, StoreCorrect, PTL

(* What keygen reported as saved stays, on the same terms                  *)
(* (keygen.rs:16-37).                                                      *)
THEOREM KeygenKeeps == Spec => []SavedKeyStays
<1>1. StoreInv => SavedKeyStays
    BY DEF StoreInv, SavedInv, SavedKeyStays
<1> QED
    BY <1>1, StoreIsKept, StoreCorrect, PTL

-----------------------------------------------------------------------------
(* The data directory.                                                     *)

(* A process that creates an identity has its key from the store, has      *)
(* filled its folder before it renames it, and one that uses the directory *)
(* has started.                                                            *)
CreateInv ==
    \A p \in Procs :
        /\ at[p] # "none" => pc[p] \in {"elsewhere", "handed"}
        /\ at[p] \in {"fill", "rename"} => pc[p] = "handed"
        /\ at[p] = "rename" => key[p] \in whole

Inv ==
    /\ StoreInv
    /\ TypeOK
    /\ CreateInv
    /\ LockIsHeldByAStarter
    /\ ServedIdentitiesAreWhole

LEMMA InvInit == Init => Inv
BY StoreTypeInit, EnvKeysAssumption, KeysAssumption, NoneAssumption
DEF Init, Inv, TypeOK, CreateInv, LockIsHeldByAStarter, ServedIdentitiesAreWhole,
    Stops, StoreInit, StoreInv, KeyringInv, SecretBeforeName, KeptInv,
    SavedInv

(* What a step of the store by p means to those who use the directory: p   *)
(* is none of them, the others stay as they are, and nothing is forgotten. *)
LEMMA StoreGrows ==
    ASSUME StoreTypeOK, NEW p \in Procs, StoreStep(p) \/ StartCreate(p)
    PROVE  /\ pc[p] \notin {"elsewhere", "handed"}
           /\ \A q \in Procs \ {p} : pc'[q] = pc[q] /\ key'[q] = key[q]
           /\ made \subseteq made' /\ keyring \subseteq keyring'
<1> USE DEF StoreTypeOK
<1>1. CASE StartWithEnv(p) \/ ReadSecretFile(p)
    <2>1. pc[p] \in {"idle", "secret_file"}
        BY <1>1 DEF StartWithEnv, ReadSecretFile, Starts
    <2> QED
        BY <1>1, <2>1, TextStep
<1>2. CASE StartWithoutEnv(p)
    BY <1>2 DEF StartWithoutEnv, Starts
<1>3. CASE ReadId52(p)
    BY <1>3 DEF ReadId52
<1>4. CASE GetSecret(p)
    BY <1>4 DEF GetSecret
<1>5. CASE SetSecret(p)
    BY <1>5 DEF SetSecret
<1>6. CASE TruncateId52(p)
    BY <1>6 DEF TruncateId52
<1>7. CASE WriteId52(p)
    BY <1>7 DEF WriteId52
<1>8. CASE StartKeygen(p)
    BY <1>8 DEF StartKeygen, Starts
<1>9. CASE CheckExists(p)
    BY <1>9 DEF CheckExists
<1>10. CASE CreateFile(p)
    BY <1>10 DEF CreateFile
<1>11. CASE PutSecret(p)
    BY <1>11 DEF PutSecret
<1>12. CASE AccessFails(p)
    BY <1>12 DEF AccessFails
<1>13. CASE StartCreate(p)
    BY <1>13 DEF StartCreate, Starts
<1> QED
    BY <1>1, <1>2, <1>3, <1>4, <1>5, <1>6, <1>7, <1>8, <1>9, <1>10, <1>11,
       <1>12, <1>13 DEF StoreStep

HomeInv ==
    TypeOK /\ CreateInv /\ LockIsHeldByAStarter /\ ServedIdentitiesAreWhole

LEMMA HomeStep == Inv /\ [Next]_vars => HomeInv'
<1> SUFFICES ASSUME Inv, [Next]_vars PROVE HomeInv'
    OBVIOUS
<1>1. StoreInv'
    BY StoreTypeStep, KeyringStep, KeptStep, SavedStep, StepIsStoreStep
    DEF Inv, StoreInv
<1> USE NoneAssumption
    DEF HomeInv, TypeOK, CreateInv, LockIsHeldByAStarter,
        ServedIdentitiesAreWhole, GoOn, home, Stops
<1> DEFINE Typed == StoreTypeOK /\ StoreTypeOK'
<1>2. HomeInv /\ Typed /\ KeyringInv
    BY <1>1 DEF Inv, StoreInv
<1>3. CASE UNCHANGED vars
    BY <1>2, <1>3 DEF vars
<1>4. ASSUME NEW p \in Procs, StoreStep(p) \/ StartCreate(p), UNCHANGED home
      PROVE  HomeInv'
    <2>1. /\ at[p] = "none"
          /\ \A q \in Procs \ {p} : pc'[q] = pc[q] /\ key'[q] = key[q]
          /\ made \subseteq made' /\ keyring \subseteq keyring'
        BY <1>2, <1>4, StoreGrows
    <2> QED
        BY <1>2, <1>4, <2>1
<1>5. ASSUME NEW p \in Procs, StartKulfi(p) PROVE HomeInv'
    BY <1>2, <1>5 DEF StartKulfi, StartElsewhere, Starts, StoreTypeOK
<1>6. ASSUME NEW p \in Procs, TakeLock(p) PROVE HomeInv'
    BY <1>2, <1>6 DEF TakeLock
<1>7. ASSUME NEW p \in Procs, Scan(p) PROVE HomeInv'
    BY <1>2, <1>7 DEF Scan, StoreTypeOK
<1>8. ASSUME NEW p \in Procs, Spawn(p) PROVE HomeInv'
    BY <1>2, <1>8 DEF Spawn
<1>9. ASSUME NEW p \in Procs, Bind(p) PROVE HomeInv'
    BY <1>2, <1>9 DEF Bind
<1>10. ASSUME NEW p \in Procs, StartFails(p) PROVE HomeInv'
    BY <1>2, <1>10 DEF StartFails
<1>11. ASSUME NEW p \in Procs, MakeTemp(p) PROVE HomeInv'
    BY <1>2, <1>11 DEF MakeTemp, StoreTypeOK
<1>12. ASSUME NEW p \in Procs, Fill(p) PROVE HomeInv'
    BY <1>2, <1>12 DEF Fill, StoreTypeOK
<1>13. ASSUME NEW p \in Procs, Rename(p) PROVE HomeInv'
    BY <1>2, <1>13 DEF Rename, StoreTypeOK, KeyringInv
<1>14. ASSUME NEW p \in Procs, CreateFails(p) PROVE HomeInv'
    BY <1>2, <1>14 DEF CreateFails
<1>15. ASSUME NEW p \in Procs, ProcessEnds(p) PROVE HomeInv'
    BY <1>2, <1>15 DEF ProcessEnds, Ends, StoreTypeOK
<1> QED
    BY <1>3, <1>4, <1>5, <1>6, <1>7, <1>8, <1>9, <1>10, <1>11, <1>12, <1>13,
       <1>14, <1>15 DEF Next, Start, Create

LEMMA InvCorrect == Spec => []Inv
<1>1. Inv /\ [Next]_vars => Inv'
    BY HomeStep, StoreTypeStep, KeyringStep, KeptStep, SavedStep,
       StepIsStoreStep
    DEF Inv, StoreInv, HomeInv
<1> QED
    BY <1>1, InvInit, PTL DEF Spec

(* The variables keep their types, for any number of processes.            *)
THEOREM TypeCorrect == Spec => []TypeOK
<1>1. Inv => TypeOK
    BY DEF Inv
<1> QED
    BY <1>1, InvCorrect, PTL

(* The lock is held exactly during a scan: two processes never scan at     *)
(* once, and no crash leaves it taken (start.rs:24-30).                    *)
THEOREM LockCorrect == Spec => []LockIsHeldByAStarter
<1>1. Inv => LockIsHeldByAStarter
    BY DEF Inv
<1> QED
    BY <1>1, InvCorrect, PTL

(* kulfi runs identities that have their folder and their secret, although *)
(* create takes no lock (create.rs:34-69).                                 *)
THEOREM ServedAreWhole == Spec => []ServedIdentitiesAreWhole
<1>1. Inv => ServedIdentitiesAreWhole
    BY DEF Inv
<1> QED
    BY <1>1, InvCorrect, PTL
=============================================================================
