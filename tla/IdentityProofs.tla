---------------------------- MODULE IdentityProofs ----------------------------
(* Theorems about Identity and Enrolment, for any members and any number   *)
(* of key pairs, roster versions and signatures.                           *)
EXTENDS Enrolment, IterationTheorems, FiniteSetTheorems, TLAPS

\* What is left of a command, at each of its steps.
All == <<"keychain", "truncate", "write">>
Rest == <<"truncate", "write">>
Final == <<"write">>

Commands ==
    [kind : {"keygen", "migrate"}, member : Members, key : Keys, keyring : BOOLEAN,
     todo : {All, Rest, Final}]

Loads ==
    {[at |-> "idle"]}
        \cup [at : {"keychain"}, member : Members, pub : Keys, clean : BOOLEAN]
        \cup [at : {"done"}, member : Members, pub : Keys, secret : Keys, clean : BOOLEAN]

Typed ==
    /\ file \in {Absent, Torn} \cup Docs
    /\ keychain \in [Members -> Keys \cup {NoEntry}]
    /\ cmd \in {NoCommand} \cup Commands
    /\ generated \in 0..MaxKeys /\ halved \in BOOLEAN
    /\ load \in Loads

\* A command with the keychain starts there, and has stored its secret once it is
\* past that step; with its last step ahead, the file is torn.
CommandSound ==
    cmd # NoCommand =>
        /\ cmd.todo = All => cmd.keyring
        /\ cmd.todo # All /\ cmd.keyring => keychain[cmd.member] = cmd.key
        /\ cmd.todo = Final => file = Torn

\* A migration moves what the file holds, and finds it there until it truncates.
MigrationSound ==
    cmd.kind = "migrate" =>
        /\ cmd.keyring
        /\ cmd.todo # Final =>
              file.kind = "doc" /\ file.member = cmd.member /\ file.secret = cmd.key

\* Secrets in the file are the other half of what is public there.
FileSound == file.kind = "doc" /\ file.secret # InKeyring => file.secret = file.pub

\* A clean load that has still to read the keychain has no command beside it, so it
\* will find the entry that goes with the file it read.
LoadSound ==
    load.at = "keychain" /\ load.clean =>
        /\ cmd = NoCommand
        /\ file.kind = "doc" /\ file.secret = InKeyring
        /\ keychain[load.member] = load.pub

\* What a process loads belongs together, though it reads the two places one after
\* the other: a migration that runs meanwhile does not show.  Only a keygen that
\* overlaps with the load, or was stopped between its writes before it, can.
LoadedIsWhole == load.at = "done" /\ load.clean => load.pub = load.secret

IInv ==
    /\ Typed /\ CommandSound /\ MigrationSound /\ FileSound
    /\ MarkerHasEntry /\ OnlyKeygenParts /\ LoadSound /\ LoadedIsWhole

\* The steps of a command that are left are among its steps.
LEMMA StepsLeft ==
    /\ Steps(TRUE) = All /\ Steps(FALSE) = Rest
    /\ All # << >> /\ Head(All) = "keychain" /\ Tail(All) = Rest
    /\ Rest # << >> /\ Head(Rest) = "truncate" /\ Tail(Rest) = Final
    /\ Final # << >> /\ Head(Final) = "write" /\ Tail(Final) = << >>
    /\ All # Rest /\ All # Final /\ Rest # Final
  BY DEF Steps, All, Rest, Final

\* Where a command is, by the step that is due, and where it goes from there.
LEMMA CommandMoves ==
  ASSUME Typed
  PROVE  /\ Due("keychain") => cmd \in Commands /\ cmd.todo = All
         /\ Due("truncate") => cmd \in Commands /\ cmd.todo = Rest
         /\ Due("write") => cmd \in Commands /\ cmd.todo = Final
         /\ cmd.todo = All /\ Proceed => cmd' = [cmd EXCEPT !.todo = Rest]
         /\ cmd.todo = Rest /\ Proceed => cmd' = [cmd EXCEPT !.todo = Final]
         /\ cmd.todo = Final /\ Proceed => cmd' = NoCommand
         /\ cmd # NoCommand <=> cmd \in Commands
<1>1. cmd # NoCommand <=> cmd \in Commands
  BY DEF Typed, NoCommand, Commands
<1>2. Due("keychain") \/ Due("truncate") \/ Due("write") => cmd \in Commands
  BY DEF Typed, NoCommand, Due
<1>3. cmd \in Commands => cmd.todo \in {All, Rest, Final}
  BY DEF Commands
<1>4. QED
  BY <1>1, <1>2, <1>3, StepsLeft DEF Due, Proceed

\* The invariant holds at the start.
LEMMA InitInvariant == Init => IInv
<1>1. SUFFICES ASSUME Init PROVE IInv
  OBVIOUS
<1>2. /\ file = Absent /\ file.kind = "absent" /\ cmd = NoCommand /\ cmd.kind = "none"
      /\ load = [at |-> "idle"] /\ load.at = "idle"
  BY <1>1 DEF Init, Absent, NoCommand
<1>3. keychain \in [Members -> Keys \cup {NoEntry}]
  BY <1>1 DEF Init
<1>4. Typed
  <2>1. load \in Loads
    <3>1. [at |-> "idle"] \in Loads
      BY DEF Loads
    <3>2. QED
      BY <1>2, <3>1
  <2>2. generated \in 0..MaxKeys /\ halved \in BOOLEAN
    <3>1. 0 \in 0..MaxKeys
      BY MaxKeysTyped
    <3>2. generated = 0 /\ halved = FALSE
      BY <1>1 DEF Init
    <3>3. QED
      BY <3>1, <3>2
  <2>3. QED
    BY <1>2, <1>3, <2>1, <2>2 DEF Typed
<1>5. CommandSound /\ MigrationSound /\ FileSound /\ MarkerHasEntry /\ OnlyKeygenParts
  BY <1>2 DEF CommandSound, MigrationSound, FileSound, MarkerHasEntry, OnlyKeygenParts
<1>6. LoadSound /\ LoadedIsWhole
  BY <1>2 DEF LoadSound, LoadedIsWhole
<1>7. QED
  BY <1>4, <1>5, <1>6 DEF IInv

\* keygen begins: nothing is written yet, and no load is clean any more.
LEMMA KeygenStep ==
  ASSUME IInv, NEW member \in Members, NEW force \in BOOLEAN, NEW keyring \in BOOLEAN,
         Keygen(member, force, keyring)
  PROVE  IInv'
<1>1. generated + 1 \in Keys /\ generated' \in 0..MaxKeys
  BY MaxKeysTyped DEF Keygen, IInv, Typed, Keys
<1>2. Steps(keyring) = (IF keyring THEN All ELSE Rest)
  BY StepsLeft
<1>3. /\ cmd' \in Commands /\ cmd'.kind = "keygen" /\ cmd'.member = member
      /\ cmd'.keyring = keyring /\ cmd'.todo = (IF keyring THEN All ELSE Rest)
      /\ cmd' # NoCommand
  BY <1>1, <1>2 DEF Keygen, Command, Commands, NoCommand
<1>4. load' \in Loads /\ (load'.at = "keychain" => ~load'.clean)
                     /\ (load.at # "keychain" => load' = load)
  <2>1. CASE load.at = "keychain"
    <3>1. load \in [at : {"keychain"}, member : Members, pub : Keys, clean : BOOLEAN]
      BY <2>1 DEF IInv, Typed, Loads
    <3>2. load' = [load EXCEPT !.clean = FALSE]
      BY <2>1 DEF Keygen
    <3>3. /\ load' \in [at : {"keychain"}, member : Members, pub : Keys, clean : BOOLEAN]
          /\ load'.clean = FALSE
      BY <3>1, <3>2
    <3>4. QED
      BY <2>1, <3>3 DEF Loads
  <2>2. CASE load.at # "keychain"
    BY <2>2 DEF Keygen, IInv, Typed
  <2>3. QED
    BY <2>1, <2>2
<1>5. file' = file /\ keychain' = keychain /\ halved' = halved /\ cmd = NoCommand
  BY DEF Keygen
<1>6. Typed'
  BY <1>1, <1>3, <1>4, <1>5 DEF IInv, Typed
<1>7. CommandSound' /\ MigrationSound'
  BY <1>3, StepsLeft DEF CommandSound, MigrationSound
<1>8. /\ FileSound' /\ MarkerHasEntry' /\ LoadSound' /\ LoadedIsWhole'
  <2>1. FileSound' /\ MarkerHasEntry'
    BY <1>5 DEF IInv, FileSound, MarkerHasEntry, SecretOf
  <2>2. LoadSound'
    BY <1>4 DEF LoadSound
  <2>3. load.at = "keychain" => load'.at = "keychain"
    BY DEF Keygen, IInv, Typed, Loads
  <2>4. LoadedIsWhole'
    BY <1>4, <2>3 DEF IInv, LoadedIsWhole
  <2>5. QED
    BY <2>1, <2>2, <2>4
<1>9. ~BetweenWrites
  BY <1>5 DEF BetweenWrites, NoCommand
<1>10. OnlyKeygenParts'
  BY <1>5, <1>9 DEF IInv, OnlyKeygenParts, SecretOf
<1>11. QED
  BY <1>6, <1>7, <1>8, <1>10 DEF IInv

\* keyring-migrate begins: it has taken the secret from the file.
LEMMA MigrateStep ==
  ASSUME IInv, Migrate
  PROVE  IInv'
<1>1. /\ file \in Docs /\ file.secret # InKeyring /\ file.secret \in Keys
      /\ file.member \in Members /\ cmd = NoCommand
  BY DEF Migrate, IInv, Typed, Docs, Absent, Torn
<1>2. /\ cmd' \in Commands /\ cmd' # NoCommand /\ cmd'.kind = "migrate"
      /\ cmd'.member = file.member /\ cmd'.key = file.secret
      /\ cmd'.keyring /\ cmd'.todo = All
  BY <1>1, StepsLeft DEF Migrate, Command, Commands, NoCommand
<1>3. file' = file /\ keychain' = keychain /\ halved' = halved /\ load' = load
      /\ generated' = generated
  BY DEF Migrate
<1>4. Typed'
  BY <1>2, <1>3 DEF IInv, Typed
<1>5. CommandSound' /\ MigrationSound'
  BY <1>1, <1>2, <1>3, StepsLeft DEF CommandSound, MigrationSound, Docs
<1>6. FileSound' /\ MarkerHasEntry' /\ LoadedIsWhole'
  BY <1>3 DEF IInv, FileSound, MarkerHasEntry, SecretOf, LoadedIsWhole
<1>7. LoadSound'
  BY <1>1, <1>3 DEF IInv, LoadSound
<1>8. OnlyKeygenParts'
  BY <1>1, <1>3 DEF IInv, FileSound, OnlyKeygenParts, SecretOf
<1>9. QED
  BY <1>4, <1>5, <1>6, <1>7, <1>8 DEF IInv

\* set_password: a keygen is now between its writes; a migration has stored what the
\* file still holds.
LEMMA StoreStep ==
  ASSUME IInv, StoreInKeychain
  PROVE  IInv'
<1>1. cmd \in Commands /\ cmd.todo = All /\ cmd' = [cmd EXCEPT !.todo = Rest]
  BY CommandMoves DEF IInv, StoreInKeychain
<1>2. /\ cmd' \in Commands /\ cmd' # NoCommand /\ cmd'.todo = Rest
      /\ cmd'.kind = cmd.kind /\ cmd'.member = cmd.member /\ cmd'.key = cmd.key
      /\ cmd'.keyring = cmd.keyring /\ cmd # NoCommand
  BY <1>1 DEF Commands, NoCommand
<1>3. cmd.keyring /\ cmd.member \in Members /\ cmd.key \in Keys
      /\ cmd.kind \in {"keygen", "migrate"}
  BY <1>1, <1>2 DEF IInv, CommandSound, Commands
<1>4. /\ keychain' = [keychain EXCEPT ![cmd.member] = cmd.key]
      /\ file' = file /\ halved' = halved /\ load' = load /\ generated' = generated
  BY DEF StoreInKeychain
<1>5. keychain' \in [Members -> Keys \cup {NoEntry}] /\ keychain'[cmd.member] = cmd.key
  BY <1>3, <1>4 DEF IInv, Typed
<1>6. Typed'
  BY <1>2, <1>4, <1>5 DEF IInv, Typed
<1>7. CommandSound'
  BY <1>2, <1>5, StepsLeft DEF CommandSound
<1>8. MigrationSound'
  BY <1>1, <1>2, <1>3, <1>4, StepsLeft DEF IInv, MigrationSound
<1>9. FileSound' /\ LoadedIsWhole'
  BY <1>4 DEF IInv, FileSound, LoadedIsWhole
<1>10. LoadSound'
  BY <1>2, <1>4 DEF IInv, LoadSound
<1>11. MarkerHasEntry'
  <2>1. SUFFICES ASSUME file.kind = "doc", file.secret = InKeyring
                 PROVE  keychain'[file.member] # NoEntry
    BY <1>4 DEF MarkerHasEntry, SecretOf
  <2>2. file.member \in Members
    BY <2>1 DEF IInv, Typed, Docs, Absent, Torn
  <2>3. keychain[file.member] # NoEntry
    BY <2>1 DEF IInv, MarkerHasEntry, SecretOf
  <2>4. cmd.key # NoEntry
    BY <1>3, MaxKeysTyped DEF Keys, NoEntry
  <2>5. QED
    BY <1>4, <2>2, <2>3, <2>4 DEF IInv, Typed
<1>12. OnlyKeygenParts'
  <2>1. CASE cmd.kind = "keygen"
    BY <1>2, <1>3, <2>1, StepsLeft DEF OnlyKeygenParts, BetweenWrites, Due
  <2>2. CASE cmd.kind = "migrate"
    <3>1. file.secret = cmd.key /\ file.secret # InKeyring
      BY <1>1, <1>3, <2>2, StepsLeft, MaxKeysTyped
      DEF IInv, MigrationSound, Keys, InKeyring
    <3>2. file.kind = "doc"
      BY <1>1, <2>2, StepsLeft DEF IInv, MigrationSound
    <3>3. QED
      BY <1>4, <3>1, <3>2 DEF IInv, FileSound, OnlyKeygenParts, SecretOf
  <2>3. QED
    BY <1>3, <2>1, <2>2
<1>13. QED
  BY <1>6, <1>7, <1>8, <1>9, <1>10, <1>11, <1>12 DEF IInv

\* The command ends before it has written anything new for others to see, or is
\* killed: what it leaves half done by a keygen is marked.
LEMMA StopStep ==
  ASSUME IInv, Refuse \/ Stop
  PROVE  IInv'
<1>1. cmd' = NoCommand /\ file' = file /\ keychain' = keychain /\ load' = load
      /\ generated' = generated
  BY DEF Refuse, Stop
<1>2. halved' \in BOOLEAN /\ (halved \/ BetweenWrites => halved')
  <2>1. Due("keychain") => ~BetweenWrites
    BY StepsLeft DEF Due, BetweenWrites
  <2>2. BetweenWrites \in BOOLEAN
    BY DEF BetweenWrites, Due
  <2>3. CASE Refuse
    BY <2>1, <2>3 DEF Refuse, IInv, Typed
  <2>4. CASE Stop
    BY <2>2, <2>4 DEF Stop, IInv, Typed
  <2>5. QED
    BY <2>3, <2>4
<1>3. Typed'
  BY <1>1, <1>2 DEF IInv, Typed
<1>4. cmd'.kind = "none"
  BY <1>1 DEF NoCommand
<1>5. CommandSound' /\ MigrationSound'
  BY <1>1, <1>4 DEF CommandSound, MigrationSound
<1>6. FileSound' /\ MarkerHasEntry' /\ LoadSound' /\ LoadedIsWhole'
  BY <1>1 DEF IInv, FileSound, MarkerHasEntry, SecretOf, LoadSound, LoadedIsWhole
<1>7. OnlyKeygenParts'
  BY <1>1, <1>2 DEF IInv, OnlyKeygenParts, SecretOf
<1>8. QED
  BY <1>3, <1>5, <1>6, <1>7 DEF IInv

\* The file is truncated: there is nothing in it that could be wrong.
LEMMA TruncateStep ==
  ASSUME IInv, Truncate
  PROVE  IInv'
<1>1. cmd \in Commands /\ cmd.todo = Rest /\ cmd' = [cmd EXCEPT !.todo = Final]
  BY CommandMoves DEF IInv, Truncate
<1>2. /\ cmd' \in Commands /\ cmd' # NoCommand /\ cmd'.todo = Final
      /\ cmd'.kind = cmd.kind /\ cmd'.member = cmd.member /\ cmd'.key = cmd.key
      /\ cmd'.keyring = cmd.keyring /\ cmd # NoCommand
  BY <1>1 DEF Commands, NoCommand
<1>3. file' = Torn /\ file'.kind = "torn" /\ keychain' = keychain /\ load' = load
      /\ generated' = generated /\ halved' = halved
  BY DEF Truncate, Torn
<1>4. Typed'
  BY <1>2, <1>3 DEF IInv, Typed
<1>5. CommandSound' /\ MigrationSound'
  BY <1>1, <1>2, <1>3, StepsLeft DEF IInv, CommandSound, MigrationSound
<1>6. FileSound' /\ MarkerHasEntry' /\ OnlyKeygenParts'
  BY <1>3 DEF FileSound, MarkerHasEntry, OnlyKeygenParts
<1>7. LoadSound' /\ LoadedIsWhole'
  BY <1>2, <1>3 DEF IInv, LoadSound, LoadedIsWhole
<1>8. QED
  BY <1>4, <1>5, <1>6, <1>7 DEF IInv

\* The file is written: with the keychain, its entry is there already.
LEMMA WriteStep ==
  ASSUME IInv, Write
  PROVE  IInv'
<1>1. cmd \in Commands /\ cmd.todo = Final /\ cmd' = NoCommand /\ cmd # NoCommand
  BY CommandMoves DEF IInv, Write, NoCommand
<1>2. /\ file'.kind = "doc" /\ file'.member = cmd.member /\ file'.pub = cmd.key
      /\ file'.secret = (IF cmd.keyring THEN InKeyring ELSE cmd.key)
  BY DEF Write
<1>3. cmd.member \in Members /\ cmd.key \in Keys /\ cmd.key # NoEntry
  BY <1>1, MaxKeysTyped DEF Commands, Keys, NoEntry
<1>4. file' \in Docs
  BY <1>3 DEF Write, Docs
<1>5. keychain' = keychain /\ load' = load /\ generated' = generated /\ halved' = FALSE
  BY DEF Write
<1>6. Typed'
  BY <1>1, <1>4, <1>5 DEF IInv, Typed
<1>7. cmd'.kind = "none"
  BY <1>1 DEF NoCommand
<1>8. CommandSound' /\ MigrationSound'
  BY <1>1, <1>7 DEF CommandSound, MigrationSound
<1>9. cmd.keyring => keychain[cmd.member] = cmd.key
  BY <1>1, StepsLeft DEF IInv, CommandSound
<1>10. FileSound'
  BY <1>2 DEF FileSound
<1>11. MarkerHasEntry' /\ OnlyKeygenParts'
  <2>1. cmd.keyring \in BOOLEAN /\ cmd.key # InKeyring
    BY <1>1, <1>3 DEF Commands, NoEntry, InKeyring
  <2>2. CASE cmd.keyring = TRUE
    BY <1>2, <1>3, <1>5, <1>9, <2>2 DEF MarkerHasEntry, OnlyKeygenParts, SecretOf
  <2>3. CASE cmd.keyring = FALSE
    BY <1>2, <2>1, <2>3 DEF MarkerHasEntry, OnlyKeygenParts, SecretOf
  <2>4. QED
    BY <2>1, <2>2, <2>3
<1>12. LoadSound' /\ LoadedIsWhole'
  BY <1>1, <1>5 DEF IInv, LoadSound, LoadedIsWhole
<1>13. QED
  BY <1>6, <1>8, <1>10, <1>11, <1>12 DEF IInv

\* The file is loaded: complete with its secrets, or with an entry still to be read.
LEMMA LoadFileStep ==
  ASSUME IInv, LoadFile
  PROVE  IInv'
<1>1. UNCHANGED <<file, keychain, cmd, generated, halved>>
  BY DEF LoadFile
<1>2. file \in Docs /\ file.kind = "doc" /\ file.pub \in Keys /\ file.member \in Members
      /\ file.secret \in Keys \cup {InKeyring}
  BY DEF LoadFile, IInv, Typed, Docs, Absent, Torn
<1>. DEFINE clean == ~halved /\ cmd.kind # "keygen"
<1>3. clean \in BOOLEAN
  OBVIOUS
<1>4. /\ file.secret = InKeyring =>
            load' = [at |-> "keychain", member |-> file.member, pub |-> file.pub,
                     clean |-> clean]
      /\ file.secret # InKeyring =>
            load' = [at |-> "done", member |-> file.member, pub |-> file.pub,
                     secret |-> file.secret, clean |-> clean]
  BY DEF LoadFile
<1>5. file.secret = InKeyring /\ clean =>
        cmd = NoCommand /\ keychain[file.member] = file.pub
  <2>1. SUFFICES ASSUME file.secret = InKeyring, clean
                 PROVE  cmd = NoCommand /\ keychain[file.member] = file.pub
    OBVIOUS
  <2>2. ~halved /\ ~BetweenWrites
    BY <2>1 DEF BetweenWrites
  <2>3. keychain[file.member] = file.pub
    BY <1>2, <2>1, <2>2 DEF IInv, OnlyKeygenParts, SecretOf
  <2>4. ASSUME cmd \in Commands PROVE FALSE
    <3>1. cmd.kind = "migrate" /\ cmd.key \in Keys /\ cmd # NoCommand
      BY <2>1, <2>4 DEF Commands, NoCommand
    <3>2. cmd.todo # Final
      BY <1>2, <3>1 DEF IInv, CommandSound, Torn
    <3>3. file.secret = cmd.key
      BY <3>1, <3>2 DEF IInv, MigrationSound
    <3>4. QED
      BY <2>1, <3>1, <3>3, MaxKeysTyped DEF Keys, InKeyring
  <2>5. QED
    BY <2>3, <2>4 DEF IInv, Typed
<1>6. load' \in Loads
  <2>. HIDE DEF clean
  <2>1. CASE file.secret = InKeyring
    BY <1>2, <1>3, <1>4, <2>1 DEF Loads
  <2>2. CASE file.secret # InKeyring
    BY <1>2, <1>3, <1>4, <2>2 DEF Loads
  <2>3. QED
    BY <2>1, <2>2
<1>7. LoadSound' /\ LoadedIsWhole'
  <2>. HIDE DEF clean
  <2>1. CASE file.secret = InKeyring
    BY <1>1, <1>2, <1>4, <1>5, <2>1 DEF LoadSound, LoadedIsWhole
  <2>2. CASE file.secret # InKeyring
    BY <1>2, <1>4, <2>2 DEF IInv, FileSound, LoadSound, LoadedIsWhole
  <2>3. QED
    BY <2>1, <2>2
<1>8. Typed'
  BY <1>1, <1>6 DEF IInv, Typed
<1>9. CommandSound' /\ MigrationSound' /\ FileSound' /\ MarkerHasEntry' /\ OnlyKeygenParts'
  BY <1>1 DEF IInv, CommandSound, MigrationSound, FileSound, MarkerHasEntry, OnlyKeygenParts,
              SecretOf, BetweenWrites, Due
<1>10. QED
  BY <1>7, <1>8, <1>9 DEF IInv

\* The entry is read, or cannot be.
LEMMA LoadSecretStep ==
  ASSUME IInv, LoadSecret
  PROVE  IInv'
<1>1. UNCHANGED <<file, keychain, cmd, generated, halved>>
  BY DEF LoadSecret
<1>2. load.at = "keychain" /\ load.member \in Members /\ load.pub \in Keys
      /\ load.clean \in BOOLEAN
  BY DEF LoadSecret, IInv, Typed, Loads
<1>3. CASE load' = [at |-> "idle"]
  <2>1. load'.at = "idle" /\ load' \in Loads
    <3>1. [at |-> "idle"] \in Loads
      BY DEF Loads
    <3>2. QED
      BY <1>3, <3>1
  <2>2. QED
    BY <1>1, <2>1 DEF IInv, Typed, CommandSound, MigrationSound, FileSound,
       MarkerHasEntry, OnlyKeygenParts, SecretOf, BetweenWrites, Due, LoadSound, LoadedIsWhole
<1>4. CASE /\ keychain[load.member] # NoEntry
           /\ load' = [at |-> "done", member |-> load.member, pub |-> load.pub,
                       secret |-> keychain[load.member], clean |-> load.clean]
  <2>1. keychain[load.member] \in Keys
    BY <1>2, <1>4 DEF IInv, Typed
  <2>2. load' \in Loads
    BY <1>2, <1>4, <2>1 DEF Loads
  <2>3. LoadSound' /\ LoadedIsWhole'
    BY <1>2, <1>4 DEF IInv, LoadSound, LoadedIsWhole
  <2>4. Typed'
    BY <1>1, <2>2 DEF IInv, Typed
  <2>5. CommandSound' /\ MigrationSound' /\ FileSound' /\ MarkerHasEntry' /\ OnlyKeygenParts'
    BY <1>1 DEF IInv, CommandSound, MigrationSound, FileSound, MarkerHasEntry,
                OnlyKeygenParts, SecretOf, BetweenWrites, Due
  <2>6. QED
    BY <2>3, <2>4, <2>5 DEF IInv
<1>5. QED
  BY <1>3, <1>4 DEF LoadSecret

\* Every step preserves the invariant.
LEMMA StepInvariant == IInv /\ [Next]_vars => IInv'
<1>1. SUFFICES ASSUME IInv, [Next]_vars PROVE IInv'
  OBVIOUS
<1>2. CASE \E member \in Members, force \in BOOLEAN, keyring \in BOOLEAN :
              Keygen(member, force, keyring)
  BY <1>1, <1>2, KeygenStep
<1>3. CASE Migrate
  BY <1>1, <1>3, MigrateStep
<1>4. CASE StoreInKeychain
  BY <1>1, <1>4, StoreStep
<1>5. CASE Refuse \/ Stop
  BY <1>1, <1>5, StopStep
<1>6. CASE Truncate
  BY <1>1, <1>6, TruncateStep
<1>7. CASE Write
  BY <1>1, <1>7, WriteStep
<1>8. CASE LoadFile
  BY <1>1, <1>8, LoadFileStep
<1>9. CASE LoadSecret
  BY <1>1, <1>9, LoadSecretStep
<1>10. CASE UNCHANGED vars
  BY <1>1, <1>10 DEF vars, IInv, Typed, CommandSound, MigrationSound, FileSound,
     MarkerHasEntry, OnlyKeygenParts, SecretOf, BetweenWrites, Due, LoadSound, LoadedIsWhole
<1>11. QED
  BY <1>1, <1>2, <1>3, <1>4, <1>5, <1>6, <1>7, <1>8, <1>9, <1>10 DEF Next

\* The inductive invariant holds in every reachable state.
THEOREM Invariance == Spec => []IInv
  BY InitInvariant, StepInvariant, PTL DEF Spec

\* A command that is under way has steps left among those of save().
LEMMA TypedIsTypeOK == Typed => TypeOK
<1>1. SUFFICES ASSUME Typed PROVE TypeOK
  OBVIOUS
<1>2. ASSUME cmd \in Commands
      PROVE  /\ cmd \in [kind : {"keygen", "migrate"}, member : Members, key : Keys,
                         keyring : BOOLEAN, todo : Seq({"keychain", "truncate", "write"})]
             /\ cmd.todo # << >>
  <2>1. {All, Rest, Final} \subseteq Seq({"keychain", "truncate", "write"})
    BY DEF All, Rest, Final
  <2>2. QED
    BY <1>2, <2>1, StepsLeft DEF Commands
<1>3. QED
  BY <1>1, <1>2 DEF Typed, TypeOK, Loads

\* Every reachable state is well typed, for any members and any number of key pairs.
THEOREM TypeCorrect == Spec => []TypeOK
  BY TypedIsTypeOK, Invariance, PTL DEF IInv

\* Whatever fails or is stopped, a file that says its secrets are in the keychain has an
\* entry there, and only a keygen between its two writes, or stopped there, takes the
\* halves of an identity apart.
THEOREM HalvesStayTogether == Spec => []HalvesMatch
  BY Invariance, PTL DEF IInv, HalvesMatch

\* A load that no keygen disturbs gives two halves of one identity, migrations
\* beside it or not.
THEOREM LoadsAreWhole == Spec => []LoadedIsWhole
  BY Invariance, PTL DEF IInv

\* A step of the commands leaves the secret that a migration moves in one of the places.
LEMMA SecretStays ==
  ASSUME IInv, [Next]_vars, cmd.kind = "migrate",
         cmd.key \in {keychain[m] : m \in Members}
                     \cup (IF file.kind = "doc" THEN {file.secret} ELSE {})
  PROVE  cmd.key \in {keychain'[m] : m \in Members}
                     \cup (IF file'.kind = "doc" THEN {file'.secret} ELSE {})
<1>1. cmd # NoCommand /\ cmd \in Commands /\ cmd.member \in Members
  BY DEF IInv, Typed, NoCommand, Commands
<1>2. CASE UNCHANGED <<file, keychain>>
  BY <1>2
<1>3. CASE StoreInKeychain
  <2>1. keychain' = [keychain EXCEPT ![cmd.member] = cmd.key]
    BY <1>3 DEF StoreInKeychain
  <2>2. keychain'[cmd.member] = cmd.key
    BY <1>1, <2>1 DEF IInv, Typed
  <2>3. QED
    BY <1>1, <2>2
<1>4. CASE Truncate \/ Write
  <2>1. cmd.todo # All
    BY <1>4, CommandMoves, StepsLeft DEF IInv, Truncate, Write
  <2>2. keychain[cmd.member] = cmd.key
    BY <1>1, <2>1 DEF IInv, CommandSound, MigrationSound
  <2>3. keychain' = keychain
    BY <1>4 DEF Truncate, Write
  <2>4. QED
    BY <1>1, <2>2, <2>3
<1>5. QED
  BY <1>2, <1>3, <1>4 DEF Next, Keygen, Migrate, Refuse, Stop, LoadFile, LoadSecret, vars

\* At no moment of a migration is the secret it moves in neither place.
THEOREM MigrationsKeepSecrets == Spec => MigrationKeepsSecret
<1>. DEFINE Kept == {keychain[m] : m \in Members}
                    \cup (IF file.kind = "doc" THEN {file.secret} ELSE {})
            KeepsIt == cmd.kind = "migrate" => (cmd.key \in Kept => cmd.key \in Kept')
<1>1. IInv /\ [Next]_vars => [KeepsIt]_vars
  BY SecretStays
<1>2. QED
  BY <1>1, Invariance, PTL DEF Spec, MigrationKeepsSecret

-----------------------------------------------------------------------------
(* Enrolment: what becomes of the keys once they sign and are pinned.      *)

\* Some place of the identity, or of a process that handles it, holds key pair k as one
\* of member m.
Places(k, m) ==
    \/ keychain[m] = k
    \/ file.kind = "doc" /\ file.member = m /\ (file.pub = k \/ file.secret = k)
    \/ cmd # NoCommand /\ cmd.member = m /\ cmd.key = k
    \/ load.at = "keychain" /\ load.member = m /\ load.pub = k
    \/ load.at = "done" /\ load.member = m /\ (load.pub = k \/ load.secret = k)

\* A signature names key pair k as one of member m.
Signed(k, m) == \E s \in issued : s.member = m /\ (s.by = k \/ s.printed = k)

Bound(k, m) == Places(k, m) \/ Signed(k, m)

\* A key pair has been generated before it is anywhere, and is one member's alone.
KeysBelong ==
    \A k \in Keys : \A m \in Members :
        Bound(k, m) => /\ k <= generated
                       /\ \A n \in Members : Bound(k, n) => n = m

\* A signature is an admin's, over what was parsed, and of an identity that was whole
\* when the load was clean.
SignaturesSound ==
    \A s \in issued :
        /\ s.over = Normal(s.over) /\ s.member \in s.over.admins
        /\ s.clean => s.by = s.printed

\* Whatever key is pinned was printed for that member.
PinsSound == \A m \in Pinned : \E s \in issued : s.member = m /\ s.printed = pins[m]

Signatures == [by : Keys, over : Bodies, member : Members, printed : Keys, clean : BOOLEAN]

DeskTyped ==
    /\ issued \subseteq Signatures /\ IsFiniteSet(issued) /\ Cardinality(issued) <= MaxSigned
    /\ pins \in [Members -> Keys \cup {NotPinned}]
    /\ held \in Bodies \cup {NoRoster}

EInv == IInv /\ DeskTyped /\ SignaturesSound /\ PinsSound /\ KeysBelong

\* Parsing a roster once more changes nothing.
LEMMA NormalProperties ==
  ASSUME NEW body \in Bodies
  PROVE  /\ Normal(body) \in Bodies /\ Normal(Normal(body)) = Normal(body)
         /\ Normal(body).admins = body.admins /\ Normal(body).version = body.version
  BY DEF Bodies, Normal

\* A command or a load copies a key pair only from where it was one of the same member,
\* except for the pair that keygen has just made.
LEMMA PlacesCopied ==
  ASSUME IInv, [Next]_vars, NEW k \in Keys, NEW m \in Members, Places(k, m)'
  PROVE  \/ Places(k, m)
         \/ generated' = generated + 1 /\ k = generated + 1 /\ m = cmd'.member
<1>1. k # NoEntry /\ k # InKeyring
  BY MaxKeysTyped DEF Keys, NoEntry, InKeyring
<1>2. /\ keychain \in [Members -> Keys \cup {NoEntry}] /\ load \in Loads
      /\ cmd \in {NoCommand} \cup Commands /\ file \in {Absent, Torn} \cup Docs
  BY DEF IInv, Typed
<1>3. CASE UNCHANGED vars
  BY <1>3 DEF vars, Places
<1>4. ASSUME NEW member \in Members, NEW force \in BOOLEAN, NEW keyring \in BOOLEAN,
             Keygen(member, force, keyring)
      PROVE  Places(k, m) \/ (generated' = generated + 1 /\ k = generated + 1 /\ m = cmd'.member)
  <2>1. /\ cmd'.member = member /\ cmd'.key = generated + 1 /\ generated' = generated + 1
        /\ file' = file /\ keychain' = keychain
    BY <1>4 DEF Keygen, Command
  <2>2. /\ load'.at = load.at
        /\ load.at = "keychain" => load'.member = load.member /\ load'.pub = load.pub
        /\ load.at # "keychain" => load' = load
    BY <1>2, <1>4 DEF Keygen, Loads
  <2>3. QED
    BY <2>1, <2>2 DEF Places
<1>5. CASE Migrate
  <2>1. /\ file.kind = "doc" /\ cmd'.member = file.member /\ cmd'.key = file.secret
        /\ file' = file /\ keychain' = keychain /\ load' = load
    BY <1>5 DEF Migrate, Command
  <2>2. QED
    BY <2>1 DEF Places
<1>6. ASSUME Proceed \/ cmd' = NoCommand, cmd # NoCommand
      PROVE  cmd' # NoCommand => cmd'.member = cmd.member /\ cmd'.key = cmd.key
  <2>1. cmd \in Commands
    BY <1>2, <1>6
  <2>2. [cmd EXCEPT !.todo = Tail(cmd.todo)].member = cmd.member
    BY <2>1 DEF Commands
  <2>3. [cmd EXCEPT !.todo = Tail(cmd.todo)].key = cmd.key
    BY <2>1 DEF Commands
  <2>4. QED
    BY <1>6, <2>2, <2>3 DEF Proceed
<1>7. \A step : Due(step) => cmd # NoCommand
  BY DEF Due, NoCommand
<1>8. CASE StoreInKeychain
  BY <1>2, <1>6, <1>7, <1>8 DEF StoreInKeychain, Places
<1>9. CASE Refuse \/ Stop
  BY <1>9 DEF Refuse, Stop, Places
<1>10. CASE Truncate
  BY <1>6, <1>7, <1>10 DEF Truncate, Torn, Places
<1>11. CASE Write
  <2>1. /\ file'.member = cmd.member /\ file'.pub = cmd.key
        /\ file'.secret = InKeyring \/ file'.secret = cmd.key
        /\ cmd # NoCommand /\ keychain' = keychain /\ load' = load
    BY <1>7, <1>11 DEF Write
  <2>2. Proceed
    BY <1>11 DEF Write
  <2>3. QED
    BY <1>1, <1>6, <2>1, <2>2 DEF Places
<1>12. CASE LoadFile
  BY <1>12 DEF LoadFile, Places
<1>13. CASE LoadSecret
  BY <1>2, <1>13 DEF LoadSecret, Places, Loads
<1>14. QED
  BY <1>3, <1>4, <1>5, <1>8, <1>9, <1>10, <1>11, <1>12, <1>13 DEF Next

\* As long as nothing is copied from elsewhere, the key pairs still belong to the members
\* they belonged to.
LEMMA BelongStays ==
  ASSUME KeysBelong, generated' = generated,
         \A k \in Keys : \A m \in Members : Bound(k, m)' => Bound(k, m)
  PROVE  KeysBelong'
<1>1. SUFFICES ASSUME NEW k \in Keys, NEW m \in Members, Bound(k, m)'
               PROVE  k <= generated /\ \A n \in Members : Bound(k, n)' => n = m
  BY DEF KeysBelong
<1>2. QED
  BY <1>1 DEF KeysBelong

\* Nothing has been generated, signed or pinned at the start.
LEMMA EnrolmentInitHolds == EnrolmentInit => EInv
<1>1. SUFFICES ASSUME EnrolmentInit PROVE EInv
  OBVIOUS
<1>2. IInv
  BY <1>1, InitInvariant DEF EnrolmentInit
<1>3. issued = {} /\ pins = [m \in Members |-> NotPinned] /\ held = NoRoster
  BY <1>1 DEF EnrolmentInit
<1>4. DeskTyped
  <2>1. IsFiniteSet({}) /\ Cardinality({}) = 0
    BY FS_EmptySet
  <2>2. 0 <= MaxSigned
    BY MaxSignedTyped
  <2>3. QED
    BY <1>3, <2>1, <2>2 DEF DeskTyped
<1>5. Pinned = {}
  BY <1>3 DEF Pinned
<1>6. \A k \in Keys : \A m \in Members : ~Bound(k, m)
  <2>1. \A k \in Keys : k # NoEntry
    BY MaxKeysTyped DEF Keys, NoEntry
  <2>2. /\ keychain = [m \in Members |-> NoEntry] /\ cmd = NoCommand
        /\ file.kind = "absent" /\ load.at = "idle"
    BY <1>1 DEF EnrolmentInit, Init, Absent
  <2>3. QED
    BY <1>3, <2>1, <2>2 DEF Bound, Places, Signed
<1>7. QED
  BY <1>2, <1>3, <1>4, <1>5, <1>6 DEF EInv, SignaturesSound, PinsSound, KeysBelong

\* A step of the commands and the loads: at most a key pair that was not there before
\* comes to belong to the member it was generated for.
LEMMA CommandKeepsDesk ==
  ASSUME EInv, [Next]_vars, UNCHANGED desk
  PROVE  EInv'
<1>1. IInv /\ KeysBelong
  BY DEF EInv
<1>2. IInv'
  BY <1>1, StepInvariant
<1>3. issued' = issued /\ pins' = pins /\ held' = held
  BY DEF desk
<1>4. DeskTyped' /\ SignaturesSound' /\ PinsSound'
  BY <1>3 DEF EInv, DeskTyped, SignaturesSound, PinsSound, Pinned
<1>5. generated \in Int /\ (generated' = generated \/ generated' = generated + 1)
  <2>1. generated \in Int
    BY <1>1, MaxKeysTyped DEF IInv, Typed
  <2>2. generated' = generated \/ generated' = generated + 1
    BY DEF Next, Keygen, Migrate, StoreInKeychain, Refuse, Truncate, Write, Stop,
           LoadFile, LoadSecret, vars
  <2>3. QED
    BY <2>1, <2>2
<1>6. ASSUME NEW k \in Keys, NEW m \in Members, Bound(k, m)'
      PROVE  \/ Bound(k, m)
             \/ generated' = generated + 1 /\ k = generated + 1 /\ m = cmd'.member
  <2>1. Signed(k, m)' = Signed(k, m)
    BY <1>3 DEF Signed
  <2>2. QED
    BY <1>1, <1>6, <2>1, PlacesCopied DEF Bound
<1>7. \A k \in Keys : \A m \in Members : Bound(k, m) => k # generated + 1
  BY <1>1, <1>5, MaxKeysTyped DEF KeysBelong, Keys
<1>8. KeysBelong'
  <2>1. SUFFICES ASSUME NEW k \in Keys, NEW m \in Members, Bound(k, m)'
                 PROVE  k <= generated' /\ \A n \in Members : Bound(k, n)' => n = m
    BY DEF KeysBelong
  <2>2. k \in Int
    BY MaxKeysTyped DEF Keys
  <2>3. CASE Bound(k, m)
    <3>1. k <= generated /\ k # generated + 1
      BY <1>1, <1>7, <2>3 DEF KeysBelong
    <3>2. k <= generated'
      BY <1>5, <2>2, <3>1
    <3>3. ASSUME NEW n \in Members, Bound(k, n)' PROVE n = m
      BY <1>1, <1>6, <2>3, <3>1, <3>3 DEF KeysBelong
    <3>4. QED
      BY <3>2, <3>3
  <2>4. CASE generated' = generated + 1 /\ k = generated + 1 /\ m = cmd'.member
    <3>1. k <= generated'
      BY <1>5, <2>4
    <3>2. ASSUME NEW n \in Members, Bound(k, n)' PROVE n = m
      BY <1>6, <1>7, <2>4, <3>2
    <3>3. QED
      BY <3>1, <3>2
  <2>5. QED
    BY <1>6, <2>1, <2>3, <2>4
<1>9. QED
  BY <1>2, <1>4, <1>8 DEF EInv

\* `roster sign` signs what it has parsed, with the key pair it has loaded.
LEMMA SignStep ==
  ASSUME EInv, NEW draft \in Bodies, RosterSign(draft)
  PROVE  EInv'
<1>. DEFINE new == [by |-> load.secret, over |-> Payload(draft), member |-> load.member,
                    printed |-> load.pub, clean |-> load.clean]
<1>1. /\ load.at = "done" /\ load.member \in draft.admins
      /\ issued' = issued \cup {new} /\ load' = [at |-> "idle"]
      /\ UNCHANGED <<file, keychain, cmd, generated, halved, pins, held>>
  BY DEF RosterSign
<1>2. /\ load.member \in Members /\ load.pub \in Keys /\ load.secret \in Keys
      /\ load.clean \in BOOLEAN
  BY <1>1 DEF EInv, IInv, Typed, Loads
<1>3. Payload(draft) \in Bodies /\ Normal(Payload(draft)) = Payload(draft)
      /\ load.member \in Payload(draft).admins
  BY <1>1, NormalProperties DEF Payload
<1>4. load.clean => load.secret = load.pub
  BY <1>1 DEF EInv, IInv, LoadedIsWhole
<1>5. /\ new \in Signatures /\ new.by = load.secret /\ new.printed = load.pub
      /\ new.member = load.member /\ new.over = Payload(draft) /\ new.clean = load.clean
  BY <1>2, <1>3 DEF Signatures
<1>. HIDE DEF new
<1>6. IInv'
  <2>1. load'.at = "idle" /\ load' \in Loads
    <3>1. [at |-> "idle"] \in Loads
      BY DEF Loads
    <3>2. QED
      BY <1>1, <3>1
  <2>2. QED
    BY <1>1, <2>1 DEF EInv, IInv, Typed, CommandSound, MigrationSound, FileSound,
       MarkerHasEntry, OnlyKeygenParts, SecretOf, BetweenWrites, Due, LoadSound, LoadedIsWhole
<1>7. IsFiniteSet(issued') /\ Cardinality(issued') <= MaxSigned
  <2>1. IsFiniteSet(issued) /\ Cardinality(issued) < MaxSigned
    BY DEF EInv, DeskTyped, RosterSign
  <2>2. Cardinality(issued) \in Nat
    BY <2>1, FS_CardinalityType
  <2>3. /\ IsFiniteSet(issued \cup {new})
        /\ \/ Cardinality(issued \cup {new}) = Cardinality(issued)
           \/ Cardinality(issued \cup {new}) = Cardinality(issued) + 1
    BY <2>1, FS_AddElement
  <2>4. QED
    BY <1>1, <2>1, <2>2, <2>3, MaxSignedTyped
<1>8. DeskTyped'
  BY <1>1, <1>5, <1>7 DEF EInv, DeskTyped
<1>9. SignaturesSound'
  BY <1>1, <1>3, <1>4, <1>5 DEF EInv, SignaturesSound
<1>10. PinsSound'
  BY <1>1 DEF EInv, PinsSound, Pinned
<1>11. \A k \in Keys : \A m \in Members : Bound(k, m)' => Bound(k, m)
  <2>1. ASSUME NEW k \in Keys, NEW m \in Members, Places(k, m)' PROVE Places(k, m)
    <3>1. load'.at = "idle"
      BY <1>1
    <3>2. QED
      BY <1>1, <2>1, <3>1 DEF Places
  <2>2. ASSUME NEW k \in Keys, NEW m \in Members, Signed(k, m)' PROVE Bound(k, m)
    <3>1. PICK s \in issued' : s.member = m /\ (s.by = k \/ s.printed = k)
      BY <2>2 DEF Signed
    <3>2. CASE s \in issued
      BY <3>1, <3>2 DEF Bound, Signed
    <3>3. CASE s = new
      <4>1. load.member = m /\ (load.pub = k \/ load.secret = k)
        BY <1>5, <3>1, <3>3
      <4>2. QED
        BY <1>1, <4>1 DEF Bound, Places
    <3>4. QED
      BY <1>1, <3>1, <3>2, <3>3
  <2>3. QED
    BY <2>1, <2>2 DEF Bound
<1>12. KeysBelong'
  BY <1>1, <1>11, BelongStays DEF EInv
<1>13. QED
  BY <1>6, <1>8, <1>9, <1>10, <1>12 DEF EInv

\* Pinning a key, and starting a host, move no key pair.
LEMMA HostStep ==
  ASSUME EInv,
         \/ \E member \in Members, key \in Keys \cup {NotPinned} : Pin(member, key)
         \/ Host
  PROVE  EInv'
<1>1. UNCHANGED vars /\ issued' = issued
  BY DEF Pin, Host
<1>2. IInv'
  BY <1>1, StepInvariant DEF EInv
<1>3. SignaturesSound'
  BY <1>1 DEF EInv, SignaturesSound
<1>4. \A k \in Keys : \A m \in Members : Bound(k, m)' => Bound(k, m)
  BY <1>1 DEF Bound, Places, Signed, vars
<1>5. KeysBelong'
  BY <1>1, <1>4, BelongStays DEF EInv, vars
<1>6. ASSUME NEW member \in Members, NEW key \in Keys \cup {NotPinned}, Pin(member, key)
      PROVE  DeskTyped' /\ PinsSound'
  <2>1. /\ pins' = [pins EXCEPT ![member] = key] /\ held' = held
        /\ \/ key = NotPinned
           \/ \E s \in issued : s.member = member /\ s.printed = key
    BY <1>6 DEF Pin
  <2>2. DeskTyped'
    BY <1>1, <2>1 DEF EInv, DeskTyped
  <2>3. PinsSound'
    BY <1>1, <2>1 DEF EInv, DeskTyped, PinsSound, Pinned
  <2>4. QED
    BY <2>2, <2>3
<1>7. CASE Host
  <2>1. PICK body \in Bodies : held' = Normal(body)
    BY <1>7 DEF Host
  <2>2. held' \in Bodies /\ pins' = pins
    BY <1>7, <2>1, NormalProperties DEF Host
  <2>3. QED
    BY <1>1, <1>2, <1>3, <1>5, <2>2 DEF EInv, DeskTyped, PinsSound, Pinned
<1>8. QED
  BY <1>2, <1>3, <1>5, <1>6, <1>7 DEF EInv

\* Every step of the admin, the host and the commands keeps the invariant.
LEMMA EnrolmentStepHolds == EInv /\ [EnrolmentNext]_enrolment => EInv'
<1>1. SUFFICES ASSUME EInv, [EnrolmentNext]_enrolment PROVE EInv'
  OBVIOUS
<1>2. CASE UNCHANGED enrolment
  BY <1>1, <1>2, CommandKeepsDesk DEF enrolment
<1>3. CASE Next /\ UNCHANGED desk
  BY <1>1, <1>3, CommandKeepsDesk
<1>4. CASE \E draft \in Bodies : RosterSign(draft)
  BY <1>1, <1>4, SignStep
<1>5. QED
  BY <1>1, <1>2, <1>3, <1>4, HostStep DEF EnrolmentNext

\* A key pair is one member's alone, wherever copies of it have got to.
THEOREM EnrolmentInvariance == EnrolmentSpec => []EInv
  BY EnrolmentInitHolds, EnrolmentStepHolds, PTL DEF EnrolmentSpec

\* Every variable of the enrolment keeps its type.
THEOREM EnrolmentTypeCorrect == EnrolmentSpec => []EnrolmentTypeOK
<1>1. EInv => EnrolmentTypeOK
  BY TypedIsTypeOK DEF EInv, IInv, DeskTyped, Signatures, EnrolmentTypeOK
<1>2. QED
  BY <1>1, EnrolmentInvariance, PTL

\* The halves of an identity stay together while its owner signs rosters with it.
THEOREM HalvesMatchThroughout == EnrolmentSpec => []HalvesMatch
<1>1. EInv => HalvesMatch
  BY DEF EInv, IInv, HalvesMatch
<1>2. QED
  BY <1>1, EnrolmentInvariance, PTL

\* A migration keeps its secret while its owner signs rosters with it.
THEOREM SecretsKeptThroughout == EnrolmentSpec => MigrationKeepsSecret
<1>. DEFINE Kept == {keychain[m] : m \in Members}
                    \cup (IF file.kind = "doc" THEN {file.secret} ELSE {})
            KeepsIt == cmd.kind = "migrate" => (cmd.key \in Kept => cmd.key \in Kept')
<1>1. EInv /\ [EnrolmentNext]_enrolment => [KeepsIt]_vars
  <2>1. SUFFICES ASSUME EInv, [EnrolmentNext]_enrolment PROVE KeepsIt
    OBVIOUS
  <2>2. CASE [Next]_vars
    BY <2>1, <2>2, SecretStays DEF EInv
  <2>3. CASE UNCHANGED <<keychain, file>>
    BY <2>3
  <2>4. QED
    BY <2>1, <2>2, <2>3 DEF EnrolmentNext, RosterSign, Pin, Host, enrolment
<1>2. QED
  BY <1>1, EnrolmentInvariance, PTL DEF EnrolmentSpec, MigrationKeepsSecret

\* The roster a host starts with is one that `roster sign` was asked to sign, for an admin
\* of that roster whose own key the host trusts: a pinned key belongs to one member, so
\* the signature that verifies with it is that member's.
THEOREM OnlyVouchedRosters == EnrolmentSpec => LoadedIsVouched
<1>. DEFINE Vouched == held' # held =>
                           \E s \in issued :
                               /\ s.over = held' /\ s.member \in held'.admins
                               /\ pins[s.member] = s.by
<1>1. EInv /\ [EnrolmentNext]_enrolment => [Vouched]_enrolment
  <2>1. SUFFICES ASSUME EInv, [EnrolmentNext]_enrolment, held' # held
                 PROVE  \E s \in issued :
                            /\ s.over = held' /\ s.member \in held'.admins
                            /\ pins[s.member] = s.by
    OBVIOUS
  <2>2. Host
    BY <2>1 DEF EnrolmentNext, RosterSign, Pin, desk, enrolment
  <2>3. PICK order \in SetToSeqs(Pinned), body \in Bodies, sigs \in SUBSET issued,
             previous \in {NotGiven, held.version} :
                 Accepts(order, body, sigs, previous) /\ held' = Normal(body)
    BY <2>2 DEF Host
  <2>4. PICK i \in DOMAIN order : Vouches(order[i], body, sigs)
    BY <2>3 DEF Accepts
  <2>5. PICK s \in sigs : s.by = pins[order[i]] /\ s.over = Normal(body)
    BY <2>4 DEF Vouches, Verifies
  <2>6. order[i] \in Pinned
    BY <2>4 DEF SetToSeqs
  <2>7. PICK t \in issued : t.member = order[i] /\ t.printed = pins[order[i]]
    BY <2>1, <2>6 DEF EInv, PinsSound
  <2>8. s \in issued /\ s.member \in Members /\ s.by \in Keys /\ t.member \in Members
    BY <2>1, <2>7 DEF EInv, DeskTyped, Signatures
  <2>9. Bound(s.by, s.member) /\ Bound(s.by, t.member)
    BY <2>5, <2>7, <2>8 DEF Bound, Signed
  <2>10. s.member = t.member
    BY <2>1, <2>8, <2>9 DEF EInv, KeysBelong
  <2>11. s.over = held' /\ s.member \in s.over.admins
    BY <2>1, <2>3, <2>5, <2>8 DEF EInv, SignaturesSound
  <2>12. QED
    BY <2>5, <2>7, <2>8, <2>10, <2>11
<1>2. QED
  BY <1>1, EnrolmentInvariance, PTL DEF EnrolmentSpec, LoadedIsVouched

\* Every pinned member has been signed for, so there are finitely many.
LEMMA PinnedFinite == ASSUME EInv PROVE IsFiniteSet(Pinned)
<1>. DEFINE I == {s \in issued : s.member \in Pinned}
            f == [s \in I |-> s.member]
<1>1. IsFiniteSet(I)
  BY FS_Subset DEF EInv, DeskTyped
<1>2. \A m \in Pinned : \E s \in I : f[s] = m
  BY DEF EInv, PinsSound
<1>3. f \in Surjection(I, Pinned)
  BY <1>2 DEF Surjection
<1>4. QED
  BY <1>1, <1>3, FS_Surjection

\* Keys given in some order: each of them is given.
LEMMA OrderComplete ==
  ASSUME NEW S, IsFiniteSet(S), NEW order \in SetToSeqs(S), NEW m \in S
  PROVE  \E i \in DOMAIN order : order[i] = m
<1>. DEFINE D == 1..Cardinality(S)
<1>1. Cardinality(S) \in Nat
  BY FS_CardinalityType
<1>2. IsFiniteSet(D) /\ Cardinality(D) = Cardinality(S)
  BY <1>1, FS_Interval
<1>3. order \in Injection(D, S) /\ DOMAIN order = D
  BY DEF SetToSeqs, Injection, IsInjective
<1>4. order \in Surjection(D, S)
  BY <1>2, <1>3, FS_Injection
<1>5. QED
  BY <1>3, <1>4 DEF Surjection

\* A host that trusts the printed key and otherwise only admins of the roster accepts what
\* was signed with an identity that was whole, in any order of the keys, beside any other
\* signatures and after any older version: the first key that a signature verifies with is
\* an admin's, and there is one, for the signing key itself is tried.
THEOREM SignedLoads == EnrolmentSpec => []SignedIsLoadable
<1>1. EInv => SignedIsLoadable
  <2>1. SUFFICES ASSUME EInv, NEW s \in issued, s.clean, pins[s.member] = s.printed,
                        Pinned \subseteq s.over.admins,
                        NEW order \in SetToSeqs(Pinned), NEW others \in SUBSET issued,
                        NEW previous \in NotGiven..(s.over.version - 1)
                 PROVE  Accepts(order, s.over, {s} \cup others, previous)
    BY DEF SignedIsLoadable
  <2>. DEFINE Tried(i) == Vouches(order[i], s.over, {s} \cup others)
              T == {i \in DOMAIN order : Tried(i)}
  <2>2. /\ s \in Signatures /\ s.member \in Members /\ s.printed \in Keys
        /\ s.over.version \in Int
    BY MaxVersionTyped, <2>1 DEF EInv, DeskTyped, Signatures, Bodies
  <2>3. s.member \in Pinned
    BY <2>1, <2>2, MaxKeysTyped DEF Pinned, Keys, NotPinned
  <2>4. PICK i \in DOMAIN order : order[i] = s.member
    BY <2>1, <2>3, PinnedFinite, OrderComplete
  <2>5. Tried(i)
    BY <2>1, <2>4 DEF EInv, SignaturesSound, Vouches, Verifies
  <2>6. DOMAIN order = 1..Cardinality(Pinned) /\ order \in [DOMAIN order -> Pinned]
    BY DEF SetToSeqs
  <2>7. Cardinality(Pinned) \in Nat
    BY <2>1, PinnedFinite, FS_CardinalityType
  <2>. HIDE DEF Tried
  <2>8. T \in SUBSET Nat /\ T # {}
    BY <2>5, <2>6, <2>7
  <2>9. PICK least \in T : \A j \in T : least <= j
    BY <2>8, LeastNatural
  <2>10. /\ least \in DOMAIN order /\ Tried(least) /\ order[least] \in s.over.admins
    BY <2>1, <2>6, <2>9
  <2>11. \A j \in 1..(least - 1) : ~Tried(j)
    BY <2>6, <2>7, <2>9
  <2>12. WellFormed(s.over)
    BY <2>1 DEF EInv, SignaturesSound, WellFormed
  <2>13. s.over.version > previous
    BY <2>2 DEF NotGiven
  <2>14. QED
    BY <2>10, <2>11, <2>12, <2>13 DEF Accepts, Tried
<1>2. QED
  BY <1>1, EnrolmentInvariance, PTL
==============================================================================
