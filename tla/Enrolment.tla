------------------------------- MODULE Enrolment -------------------------------
(***************************************************************************)
(* From an admin's identity to a roster that a coordinator, a peer or a     *)
(* client runs on.  The admin signs a roster with the identity loaded from  *)
(* the files of Identity; `roster sign` prints the public key, which people *)
(* hand on and pin.  A host loads a document with the keys it has pinned.   *)
(*                                                                         *)
(* Documents are copied, kept, edited and put together by hand: any body    *)
(* may turn up with any of the signatures that were ever made.  A signature *)
(* verifies for the key and the bytes it was made with, and no others.      *)
(***************************************************************************)
EXTENDS Identity, SequencesExt

CONSTANTS
    MaxVersion,     \* bound of the model: roster versions written
    MaxSigned       \* bound of the model: signatures made

ASSUME MaxVersionTyped == MaxVersion \in Nat \ {0}
ASSUME MaxSignedTyped == MaxSigned \in Nat

VARIABLES
    issued,     \* the signatures made so far: by which key, over what, and for whom
    pins,       \* the key the host trusts for each member
    held        \* the roster the host runs on

desk == <<issued, pins, held>>
enrolment == <<vars, desk>>

NotPinned == 0
NoRoster == [version |-> 0]
NotGiven == 0       \* no --roster-version on the command line

\* Of a roster, its version, its admins, and whether it writes out the capacity of a
\* peer with contributors, which parse() otherwise sums up.
Bodies == [version : 1..MaxVersion, admins : SUBSET Members, capacity : {"absent", "written"}]
WellFormed(body) == body.admins # {}
Normal(body) == [body EXCEPT !.capacity = "written"]

Pinned == {m \in Members : pins[m] # NotPinned}

-----------------------------------------------------------------------------
(* The admin's command.                                                    *)

\* signed_bytes(), of what was parsed.
Payload(draft) == Normal(draft)

\* roster sign: the loaded identity must be an admin of the well-formed draft.  It is
\* written back with this one signature, and the public key is printed.
RosterSign(draft) ==
    /\ load.at = "done"
    /\ WellFormed(draft) /\ load.member \in draft.admins
    /\ Cardinality(issued) < MaxSigned
    /\ issued' = issued \cup {[by |-> load.secret, over |-> Payload(draft),
                               member |-> load.member, printed |-> load.pub,
                               clean |-> load.clean]}
    /\ load' = [at |-> "idle"]
    /\ UNCHANGED <<file, keychain, cmd, generated, halved, pins, held>>

-----------------------------------------------------------------------------
(* The host.                                                               *)

\* A key printed by `roster sign` reaches the host's command line, instead of the one
\* it had for that member; or a key is taken off it.
Pin(member, key) ==
    /\ \/ key = NotPinned
       \/ \E s \in issued : s.member = member /\ s.printed = key
    /\ pins' = [pins EXCEPT ![member] = key]
    /\ UNCHANGED <<vars, issued, held>>

\* (mutant of Verifies) a signature of that key, over whatever it was made
VerifiesAnything(sig, key, body) == sig.by = key

\* verify_bytes, of a signature over the bytes of the parsed document.
Verifies(sig, key, body) == sig.by = key /\ sig.over = Normal(body)

Vouches(member, body, sigs) == \E s \in sigs : Verifies(s, pins[member], body)

\* (mutant of Accepts) the first pinned key is the only one that is tried
AcceptsFirstOnly(order, body, sigs, previous) ==
    /\ WellFormed(body)
    /\ previous = NotGiven \/ body.version > previous
    /\ order # << >> /\ order[1] \in body.admins /\ Vouches(order[1], body, sigs)

\* Roster.load, with the pinned keys in the order given: the first of them that one of
\* the signatures verifies with has the say.
Accepts(order, body, sigs, previous) ==
    /\ WellFormed(body)
    /\ previous = NotGiven \/ body.version > previous
    /\ \E i \in DOMAIN order :
           /\ Vouches(order[i], body, sigs)
           /\ \A j \in 1..(i - 1) : ~Vouches(order[j], body, sigs)
           /\ order[i] \in body.admins

\* The host is started, or started again, with some document that it accepts.  Only a
\* coordinator can be told of the version it had.
Host ==
    \E order \in SetToSeqs(Pinned), body \in Bodies, sigs \in SUBSET issued,
       previous \in {NotGiven, held.version} :
        /\ Accepts(order, body, sigs, previous)
        /\ held' = Normal(body)
        /\ UNCHANGED <<vars, issued, pins>>

EnrolmentInit ==
    /\ Init
    /\ issued = {} /\ pins = [m \in Members |-> NotPinned] /\ held = NoRoster

EnrolmentNext ==
    \/ Next /\ UNCHANGED desk
    \/ \E draft \in Bodies : RosterSign(draft)
    \/ \E member \in Members, key \in Keys \cup {NotPinned} : Pin(member, key)
    \/ Host

EnrolmentSpec == EnrolmentInit /\ [][EnrolmentNext]_enrolment

-----------------------------------------------------------------------------
(* Properties.                                                             *)

EnrolmentTypeOK ==
    /\ TypeOK
    /\ issued \subseteq [by : Keys, over : Bodies, member : Members, printed : Keys,
                         clean : BOOLEAN]
    /\ Cardinality(issued) <= MaxSigned
    /\ pins \in [Members -> Keys \cup {NotPinned}]
    /\ held \in Bodies \cup {NoRoster}

\* A host runs on nothing but what an admin decided: whatever has become of documents,
\* signatures and pins on the way, the roster it starts with is one that `roster sign`
\* was asked to sign, for a member whom that very roster makes an admin and whom the
\* host trusts, with the key of that member.
LoadedIsVouched ==
    [][held' # held =>
           \E s \in issued :
               /\ s.over = held' /\ s.member \in held'.admins
               /\ pins[s.member] = s.by]_enrolment

\* What an admin signs with an identity that is whole can be used: a host that trusts
\* the printed key, and otherwise only members whom the roster makes admins, accepts it,
\* in whatever order the keys are given, whatever other signatures have been put beside
\* it, and as the successor of any older version.
SignedIsLoadable ==
    \A s \in issued :
        s.clean /\ pins[s.member] = s.printed /\ Pinned \subseteq s.over.admins =>
            \A order \in SetToSeqs(Pinned), others \in SUBSET issued,
               previous \in NotGiven..(s.over.version - 1) :
                Accepts(order, s.over, {s} \cup others, previous)
==============================================================================
