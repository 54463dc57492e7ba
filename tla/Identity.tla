------------------------------- MODULE Identity -------------------------------
(***************************************************************************)
(* A member's identity in the two places that hold it: a file with the     *)
(* public half, and the secret half either in that file or in the OS       *)
(* keychain, under the member's id.  `keygen` and `keyring-migrate` write  *)
(* the two one after the other, and may be stopped, or fail, in between;   *)
(* meanwhile another process may load the identity.                        *)
(*                                                                         *)
(* A key pair is a number; its public and its secret half are the same     *)
(* number.  One command runs at a time.  Nobody else removes the file or   *)
(* the keychain's entries.                                                 *)
(***************************************************************************)
EXTENDS Integers, Sequences

CONSTANTS
    Members,    \* member ids the user may ask for
    MaxKeys     \* bound of the model: key pairs generated

ASSUME MaxKeysTyped == MaxKeys \in Nat

VARIABLES
    file,       \* what is at the identity path
    keychain,   \* the secret stored for each member
    cmd,        \* the command under way
    generated,  \* key pairs generated so far
    halved,     \* a keygen was stopped between its two writes (history)
    load        \* the process that loads the identity, and what it got

vars == <<file, keychain, cmd, generated, halved, load>>

Keys == 1..MaxKeys
NoEntry == 0
InKeyring == 0      \* the marker in the file where the secrets would be

Absent == [kind |-> "absent"]
Torn == [kind |-> "torn"]
Docs == [kind : {"doc"}, member : Members, pub : Keys, secret : Keys \cup {InKeyring}]

\* An entry may belong to a key the file does not name.
SecretOf(doc) == IF doc.secret = InKeyring THEN keychain[doc.member] ELSE doc.secret

NoCommand == [kind |-> "none", todo |-> << >>]
Command(kind, member, key, keyring, todo) ==
    [kind |-> kind, member |-> member, key |-> key, keyring |-> keyring, todo |-> todo]

Due(step) == cmd.todo # << >> /\ Head(cmd.todo) = step

-----------------------------------------------------------------------------
(* Commands.                                                               *)

\* (mutant of Steps) the file is rewritten before the keychain has the secret
StepsFileFirst(keyring) ==
    IF keyring THEN <<"truncate", "write", "keychain">> ELSE <<"truncate", "write">>

\* The writes of save(), in order.
Steps(keyring) ==
    IF keyring THEN <<"keychain", "truncate", "write">> ELSE <<"truncate", "write">>

Init ==
    /\ file = Absent
    /\ keychain = [m \in Members |-> NoEntry]
    /\ cmd = NoCommand
    /\ generated = 0 /\ halved = FALSE
    /\ load = [at |-> "idle"]

\* keygen: refused where something exists and --force is not given.  A load that has
\* read the file and not yet the keychain is no longer a clean one.
Keygen(member, force, keyring) ==
    /\ cmd = NoCommand
    /\ file = Absent \/ force
    /\ generated < MaxKeys
    /\ generated' = generated + 1
    /\ cmd' = Command("keygen", member, generated + 1, keyring, Steps(keyring))
    /\ load' = IF load.at = "keychain" THEN [load EXCEPT !.clean = FALSE] ELSE load
    /\ UNCHANGED <<file, keychain, halved>>

\* (mutant of Migrate) does not ask whether the file holds the secrets
MigrateAnything ==
    /\ cmd = NoCommand
    /\ file.kind = "doc"
    /\ cmd' = Command("migrate", file.member, file.secret, TRUE, Steps(TRUE))
    /\ UNCHANGED <<file, keychain, generated, halved, load>>

\* keyring-migrate: an error if there is no readable file, nothing to do if its
\* secrets are in the keychain already.
Migrate ==
    /\ cmd = NoCommand
    /\ file.kind = "doc" /\ file.secret # InKeyring
    /\ cmd' = Command("migrate", file.member, file.secret, TRUE, Steps(TRUE))
    /\ UNCHANGED <<file, keychain, generated, halved, load>>

\* What is left of the command behind the write it has just done.
Proceed == cmd' = IF Tail(cmd.todo) = << >> THEN NoCommand ELSE [cmd EXCEPT !.todo = Tail(@)]

\* (mutant of StoreInKeychain) leaves an entry that is there alone
StoreOnce ==
    /\ Due("keychain")
    /\ keychain' = IF keychain[cmd.member] = NoEntry
                   THEN [keychain EXCEPT ![cmd.member] = cmd.key] ELSE keychain
    /\ Proceed
    /\ UNCHANGED <<file, generated, halved, load>>

\* set_password
StoreInKeychain ==
    /\ Due("keychain")
    /\ keychain' = [keychain EXCEPT ![cmd.member] = cmd.key]
    /\ Proceed
    /\ UNCHANGED <<file, generated, halved, load>>

\* There is no usable keychain, or it raises: IdentityError, the command ends.
Refuse ==
    /\ Due("keychain")
    /\ cmd' = NoCommand
    /\ UNCHANGED <<file, keychain, generated, halved, load>>

\* The file is opened with O_TRUNC.
Truncate ==
    /\ Due("truncate")
    /\ file' = Torn
    /\ Proceed
    /\ UNCHANGED <<keychain, generated, halved, load>>

Write ==
    /\ Due("write")
    /\ file' = [kind |-> "doc", member |-> cmd.member, pub |-> cmd.key,
                secret |-> IF cmd.keyring THEN InKeyring ELSE cmd.key]
    /\ halved' = FALSE
    /\ Proceed
    /\ UNCHANGED <<keychain, generated, load>>

\* The keychain has the new secret, the file still the old public half.
BetweenWrites == cmd.kind = "keygen" /\ cmd.keyring /\ Due("truncate")

\* The process is killed, or the file cannot be opened or written.
Stop ==
    /\ cmd # NoCommand
    /\ cmd' = NoCommand
    /\ halved' = (halved \/ BetweenWrites)
    /\ UNCHANGED <<file, keychain, generated, load>>

-----------------------------------------------------------------------------
(* Identity.load, in a process of its own.                                 *)

\* The file is read.  Secrets in it complete the identity; a torn or missing file is
\* an error, after which nothing is loaded.
LoadFile ==
    /\ load.at # "keychain"
    /\ file.kind = "doc"
    /\ LET clean == ~halved /\ cmd.kind # "keygen"
       IN  load' = IF file.secret = InKeyring
                   THEN [at |-> "keychain", member |-> file.member, pub |-> file.pub,
                         clean |-> clean]
                   ELSE [at |-> "done", member |-> file.member, pub |-> file.pub,
                         secret |-> file.secret, clean |-> clean]
    /\ UNCHANGED <<file, keychain, cmd, generated, halved>>

\* get_password; an error if the keychain is locked or has no such entry.
LoadSecret ==
    /\ load.at = "keychain"
    /\ \/ load' = [at |-> "idle"]
       \/ /\ keychain[load.member] # NoEntry
          /\ load' = [at |-> "done", member |-> load.member, pub |-> load.pub,
                      secret |-> keychain[load.member], clean |-> load.clean]
    /\ UNCHANGED <<file, keychain, cmd, generated, halved>>

Next ==
    \/ \E member \in Members, force \in BOOLEAN, keyring \in BOOLEAN :
           Keygen(member, force, keyring)
    \/ Migrate
    \/ StoreInKeychain \/ Refuse \/ Truncate \/ Write \/ Stop
    \/ LoadFile \/ LoadSecret

Spec == Init /\ [][Next]_vars

-----------------------------------------------------------------------------
(* Properties.                                                             *)

TypeOK ==
    /\ file \in {Absent, Torn} \cup Docs
    /\ keychain \in [Members -> Keys \cup {NoEntry}]
    /\ \/ cmd = NoCommand
       \/ /\ cmd \in [kind : {"keygen", "migrate"}, member : Members, key : Keys,
                      keyring : BOOLEAN, todo : Seq({"keychain", "truncate", "write"})]
          /\ cmd.todo # << >>
    /\ generated \in 0..MaxKeys /\ halved \in BOOLEAN
    /\ load \in {[at |-> "idle"]}
            \cup [at : {"keychain"}, member : Members, pub : Keys, clean : BOOLEAN]
            \cup [at : {"done"}, member : Members, pub : Keys, secret : Keys,
                  clean : BOOLEAN]

\* The file never claims to be in a keychain it never reached: whatever fails or is
\* stopped, a file with the marker has an entry to go with it.
MarkerHasEntry == file.kind = "doc" /\ file.secret = InKeyring => SecretOf(file) # NoEntry

\* The only thing that takes the two halves apart is a keygen that is between its
\* two writes, or was stopped there; a migration never does, wherever it stops.
OnlyKeygenParts ==
    file.kind = "doc" /\ SecretOf(file) # file.pub => halved \/ BetweenWrites

\* The file and the keychain fit, whatever fails or is stopped between two writes.
HalvesMatch == MarkerHasEntry /\ OnlyKeygenParts

\* A migration does not lose the secret it moves: at each moment, stopped or not, it
\* is in the file or in the keychain.
MigrationKeepsSecret ==
    [][cmd.kind = "migrate" =>
           LET Kept == {keychain[m] : m \in Members}
                       \cup (IF file.kind = "doc" THEN {file.secret} ELSE {})
           IN  cmd.key \in Kept => cmd.key \in Kept']_vars
==============================================================================
